----------------------- MODULE DeviceRegistrationProofs -----------------------
(***************************************************************************)
(* Proofs about DeviceRegistration, for every finite set of devices.       *)
(*                                                                         *)
(* HomeIsAccountedFor has to be known of a device from the moment the      *)
(* backend answers it. OverLimitNeedsStaleAnswer needs what a device's     *)
(* dialogs still know of the registry as long as nobody changed it. The    *)
(* refinement of Admission needs that a form names nobody or one of the    *)
(* two devices its sheet showed.                                           *)
(***************************************************************************)
EXTENDS DeviceRegistration, FiniteSetTheorems, TLAPS

\* The type invariant (login/components/body.dart:72-158,
\* devOveruse_dialog.dart:26-269, otp_form.dart:187-249).
THEOREM TypeCorrect == Spec => []TypeOK
<1> USE DeviceAssumption
<1>1. Init => TypeOK
  BY DEF Init, TypeOK, Stages, Uuids, NoSheet, NoUnder
<1>2. TypeOK /\ [Next]_vars => TypeOK'
  <2> SUFFICES ASSUME TypeOK, [Next]_vars PROVE TypeOK'
    OBVIOUS
  <2> USE DEF TypeOK, Goes, Stages
  <2>a. NoDevice \in Uuids /\ NoSheet \in Uuids \X Uuids
    BY DEF Uuids, NoSheet
  <2>b. ASSUME NEW d \in Devices, Forget(d)
        PROVE  /\ under' \in [Devices -> [otp : {"new", "sheet"}, home : {"login", "otp"}]]
               /\ sheet' \in [Devices -> Uuids \X Uuids]
               /\ choice' \in [Devices -> Uuids]
               /\ stale' \in [Devices -> BOOLEAN]
    <3>1. NoUnder \in [otp : {"new", "sheet"}, home : {"login", "otp"}]
      BY DEF NoUnder
    <3> QED
      BY <2>a, <2>b, <3>1 DEF Forget
  <2>1. ASSUME NEW d \in Devices,
               \/ LoginPressed(d) \/ AskReplace(d) \/ OveruseOk(d) \/ SheetOpens(d)
               \/ ConfirmCode(d) \/ RegisterFails(d)
        PROVE  TypeOK'
    <3>1. UNCHANGED <<registered, under, sheet, choice, stale, excused>>
      BY <2>1 DEF LoginPressed, AskReplace, OveruseOk, SheetOpens, ConfirmCode, RegisterFails
    <3>2. \E to \in Stages : stage' = [stage EXCEPT ![d] = to]
      BY <2>1 DEF LoginPressed, AskReplace, OveruseOk, SheetOpens, ConfirmCode, RegisterFails
    <3> QED
      BY <3>1, <3>2
  <2>2. ASSUME NEW d \in Devices, ServeLogin(d) PROVE TypeOK'
    BY <2>2 DEF ServeLogin, LoginVerdict
  <2>3. ASSUME NEW d \in Devices, EnterRegistered(d) \/ EnterHome(d) PROVE TypeOK'
    <3>1. PICK below \in {"login", "otp"} : under' = [under EXCEPT ![d].home = below]
      BY <2>3 DEF EnterRegistered, EnterHome
    <3>2. /\ stage' = [stage EXCEPT ![d] = "home"]
          /\ UNCHANGED <<registered, sheet, choice, stale, excused>>
      BY <2>3 DEF EnterRegistered, EnterHome
    <3> QED
      BY <3>1, <3>2
  <2>4. ASSUME NEW d \in Devices, AskNew(d) PROVE TypeOK'
    BY <2>4, <2>a DEF AskNew
  <2>5. ASSUME NEW d \in Devices, LoginFails(d) \/ SheetFails(d) \/ Dismiss(d) \/ Restart(d)
        PROVE  TypeOK'
    BY <2>5, <2>b DEF LoginFails, SheetFails, Dismiss, Restart
  <2>6. ASSUME NEW d \in Devices, ServeDevices(d) PROVE TypeOK'
    BY <2>6 DEF ServeDevices, Uuids
  <2>7. ASSUME NEW d \in Devices, DevicesNotRead(d) PROVE TypeOK'
    BY <2>7, <2>a DEF DevicesNotRead
  <2>8. ASSUME NEW d \in Devices, NEW i \in {1, 2}, SelectDevice(d, i) PROVE TypeOK'
    <3>1. sheet[d][i] \in Uuids
      OBVIOUS
    <3> QED
      BY <2>8, <3>1 DEF SelectDevice
  <2>9. ASSUME NEW d \in Devices, NewOk(d) PROVE TypeOK'
    BY <2>9, <2>a DEF NewOk
  <2>10. ASSUME NEW d \in Devices, ServeRegister(d) PROVE TypeOK'
    BY <2>10 DEF ServeRegister
  <2>11. ASSUME NEW d \in Devices, BackFromHome(d) PROVE TypeOK'
    BY <2>11, <2>b DEF BackFromHome
  <2>12. ASSUME NEW d \in Devices, BackFromOtp(d) PROVE TypeOK'
    BY <2>12 DEF BackFromOtp
  <2>13. CASE UNCHANGED vars
    BY <2>13 DEF vars
  <2> QED
    BY <2>1, <2>2, <2>3, <2>4, <2>5, <2>6, <2>7, <2>8, <2>9, <2>10, <2>11, <2>12,
       <2>13 DEF Next, Step
<1> QED
  BY <1>1, <1>2, PTL DEF Spec

-----------------------------------------------------------------------------
\* A device that was told it may enter, or has entered, is registered or was
\* dropped or refused since.
EntryIsAccountedFor ==
  \A d \in Devices :
    stage[d] \in {"isRegistered", "answered", "home"} => d \in registered \cup excused

\* Only the backend's registration changes the registry or the history of it.
LEMMA RegistryChange ==
  ASSUME [Next]_vars
  PROVE  UNCHANGED <<registered, excused>> \/ \E d \in Devices : ServeRegister(d)
BY DEF Next, Step, vars, LoginPressed, ServeLogin, EnterRegistered, AskReplace, AskNew, LoginFails,
       OveruseOk, ServeDevices, DevicesNotRead, SheetOpens, SheetFails, SelectDevice, NewOk,
       Dismiss, ConfirmCode, EnterHome, RegisterFails, BackFromHome, BackFromOtp, Restart

\* Every step moves at most one device to another stage, and into the home
\* screen or an answer that leads there only from where it was accounted for.
LEMMA EntryStages ==
  ASSUME TypeOK, [Next]_vars, UNCHANGED registered, NEW d \in Devices,
         stage'[d] \in {"isRegistered", "answered", "home"}, ~ServeRegister(d)
  PROVE  stage[d] \in {"isRegistered", "answered", "home"} \/ d \in registered
<1> USE DEF TypeOK, Goes
<1>1. ASSUME NEW e \in Devices, ServeLogin(e)
      PROVE  stage[d] \in {"isRegistered", "answered", "home"} \/ d \in registered
  BY <1>1 DEF ServeLogin, LoginVerdict
<1>2. ASSUME NEW e \in Devices, e # d \/ ~ServeRegister(e), ~ServeLogin(e), UNCHANGED registered,
             \/ LoginPressed(e) \/ EnterRegistered(e) \/ AskReplace(e) \/ AskNew(e)
             \/ LoginFails(e) \/ OveruseOk(e) \/ ServeDevices(e) \/ DevicesNotRead(e)
             \/ SheetOpens(e) \/ SheetFails(e) \/ (\E i \in {1, 2} : SelectDevice(e, i))
             \/ NewOk(e) \/ Dismiss(e) \/ ConfirmCode(e) \/ ServeRegister(e) \/ EnterHome(e)
             \/ RegisterFails(e) \/ BackFromHome(e) \/ BackFromOtp(e) \/ Restart(e)
      PROVE  stage[d] \in {"isRegistered", "answered", "home"}
  BY <1>2 DEF LoginPressed, EnterRegistered, AskReplace, AskNew, LoginFails,
       OveruseOk, ServeDevices, DevicesNotRead, SheetOpens, SheetFails, SelectDevice, NewOk,
       Dismiss, ConfirmCode, ServeRegister, EnterHome, RegisterFails, BackFromHome,
       BackFromOtp, Restart
<1>3. CASE UNCHANGED vars
  BY <1>3 DEF vars
<1> QED
  BY <1>1, <1>2, <1>3 DEF Next, Step

\* Every device on its home screen is registered, or was dropped for another
\* device or refused since (body.dart:123-132, otp_form.dart:229-238).
THEOREM HomesAreAccountedFor == Spec => []HomeIsAccountedFor
<1>1. Init => EntryIsAccountedFor
  BY DEF Init, EntryIsAccountedFor
<1>2. TypeOK /\ EntryIsAccountedFor /\ [Next]_vars => EntryIsAccountedFor'
  <2> SUFFICES ASSUME TypeOK, EntryIsAccountedFor, [Next]_vars PROVE EntryIsAccountedFor'
    OBVIOUS
  <2>1. ASSUME NEW d \in Devices, ServeRegister(d) PROVE EntryIsAccountedFor'
    <3>1. registered \cup excused \cup {d} \subseteq registered' \cup excused'
      BY <2>1 DEF ServeRegister
    <3>2. \A e \in Devices : e # d => stage'[e] = stage[e]
      BY <2>1 DEF ServeRegister, Goes, TypeOK
    <3> QED
      BY <3>1, <3>2 DEF EntryIsAccountedFor
  <2>2. CASE UNCHANGED <<registered, excused>> /\ \A d \in Devices : ~ServeRegister(d)
    BY <2>2, EntryStages DEF EntryIsAccountedFor
  <2> QED
    BY <2>1, <2>2, RegistryChange
<1>3. EntryIsAccountedFor => HomeIsAccountedFor
  BY DEF EntryIsAccountedFor, HomeIsAccountedFor
<1> QED
  BY <1>1, <1>2, <1>3, TypeCorrect, PTL DEF Spec
-----------------------------------------------------------------------------
\* A form reached from the "new device" dialog has nothing to delete.
NothingToDelete(d) == AtForm(d) /\ under[d].otp = "new" => choice[d] = NoDevice

\* What d was told is still so while nobody changes the registry: that there
\* is room, which two devices are registered, and that its choice is.
RoomIsLeft(d) ==
  stage[d] \in {"isNew", "new"} \/ (AtForm(d) /\ under[d].otp = "new")
    => Cardinality(registered) # Limit

SheetIsRegistered(d) ==
  stage[d] \in {"fetched", "sheet"} \/ (AtForm(d) /\ under[d].otp = "sheet")
    => \A i \in {1, 2} : sheet[d][i] \in registered \cup {NoDevice}

ChoiceIsRegistered(d) ==
  AtForm(d) /\ under[d].otp = "sheet" => choice[d] \in registered \cup {NoDevice}

Informed(d) ==
  /\ NothingToDelete(d)
  /\ stale[d] \/ (RoomIsLeft(d) /\ SheetIsRegistered(d) /\ ChoiceIsRegistered(d))

AllInformed == \A d \in Devices : Informed(d)

\* A device that keeps what it holds stays informed if the registry does not
\* change.
LEMMA InformedFrame ==
  ASSUME NEW d \in Devices, Informed(d), UNCHANGED registered,
         stage'[d] = stage[d], under'[d] = under[d], sheet'[d] = sheet[d],
         choice'[d] = choice[d], stale'[d] = stale[d]
  PROVE  Informed(d)'
<1>1. NothingToDelete(d)' /\ (AtForm(d)' <=> AtForm(d))
  BY DEF Informed, NothingToDelete, AtForm
<1>2. CASE stale[d]
  BY <1>1, <1>2 DEF Informed
<1>3. CASE RoomIsLeft(d) /\ SheetIsRegistered(d) /\ ChoiceIsRegistered(d)
  <2>1. RoomIsLeft(d)'
    BY <1>1, <1>3 DEF RoomIsLeft
  <2>2. SheetIsRegistered(d)'
    BY <1>1, <1>3 DEF SheetIsRegistered
  <2>3. ChoiceIsRegistered(d)'
    BY <1>1, <1>3 DEF ChoiceIsRegistered
  <2> QED
    BY <1>1, <2>1, <2>2, <2>3 DEF Informed
<1> QED
  BY <1>2, <1>3 DEF Informed

\* Anything but a registration leaves the other devices alone.
LEMMA OthersKeep ==
  ASSUME TypeOK, NEW d \in Devices, NEW e \in Devices, e # d,
         \/ LoginPressed(d) \/ ServeLogin(d) \/ EnterRegistered(d) \/ AskReplace(d)
         \/ AskNew(d) \/ LoginFails(d) \/ OveruseOk(d) \/ ServeDevices(d)
         \/ DevicesNotRead(d) \/ SheetOpens(d) \/ SheetFails(d)
         \/ (\E i \in {1, 2} : SelectDevice(d, i)) \/ NewOk(d) \/ Dismiss(d)
         \/ ConfirmCode(d) \/ EnterHome(d) \/ RegisterFails(d) \/ BackFromHome(d)
         \/ BackFromOtp(d) \/ Restart(d)
  PROVE  /\ UNCHANGED registered
         /\ stage'[e] = stage[e] /\ under'[e] = under[e] /\ sheet'[e] = sheet[e]
         /\ choice'[e] = choice[e] /\ stale'[e] = stale[e]
<1> USE DEF TypeOK, Goes, Forget
<1>1. CASE \/ LoginPressed(d) \/ ServeLogin(d) \/ EnterRegistered(d) \/ AskReplace(d)
           \/ AskNew(d) \/ OveruseOk(d)
  BY <1>1 DEF LoginPressed, ServeLogin, EnterRegistered, AskReplace, AskNew, OveruseOk
<1>2. CASE LoginFails(d) \/ SheetFails(d) \/ Dismiss(d) \/ Restart(d)
  BY <1>2 DEF LoginFails, SheetFails, Dismiss, Restart
<1>3. CASE ServeDevices(d) \/ DevicesNotRead(d) \/ SheetOpens(d)
  BY <1>3 DEF ServeDevices, DevicesNotRead, SheetOpens
<1>4. CASE (\E i \in {1, 2} : SelectDevice(d, i)) \/ NewOk(d) \/ ConfirmCode(d)
  BY <1>4 DEF SelectDevice, NewOk, ConfirmCode
<1>5. CASE EnterHome(d) \/ RegisterFails(d) \/ BackFromHome(d) \/ BackFromOtp(d)
  BY <1>5 DEF EnterHome, RegisterFails, BackFromHome, BackFromOtp
<1> QED
  BY <1>1, <1>2, <1>3, <1>4, <1>5

\* A device that neither holds nor reads anything has nothing to be wrong about.
LEMMA Uninformed ==
  ASSUME NEW d \in Devices,
         stage'[d] \in {"login", "asking", "isRegistered", "isFull", "overuse", "fetching"}
                \/ (stage'[d] = "home" /\ under'[d].home = "login")
  PROVE  Informed(d)'
<1>1. ~AtForm(d)'
  BY DEF AtForm
<1> QED
  BY <1>1 DEF Informed, NothingToDelete, RoomIsLeft, SheetIsRegistered, ChoiceIsRegistered

\* A device that stays at its form, or comes back to it, keeps what it knows.
LEMMA FormKept ==
  ASSUME NEW d \in Devices, Informed(d), AtForm(d), AtForm(d)', UNCHANGED registered,
         under'[d].otp = under[d].otp, sheet'[d] = sheet[d], choice'[d] = choice[d],
         stale'[d] = stale[d], stage'[d] \notin {"isNew", "new", "fetched", "sheet"}
  PROVE  Informed(d)'
<1>1. NothingToDelete(d)'
  BY DEF Informed, NothingToDelete
<1>2. CASE stale[d]
  BY <1>1, <1>2 DEF Informed
<1>3. CASE RoomIsLeft(d) /\ SheetIsRegistered(d) /\ ChoiceIsRegistered(d)
  <2>1. RoomIsLeft(d)'
    BY <1>3 DEF RoomIsLeft
  <2>2. SheetIsRegistered(d)'
    BY <1>3 DEF SheetIsRegistered
  <2>3. ChoiceIsRegistered(d)'
    BY <1>3 DEF ChoiceIsRegistered
  <2> QED
    BY <1>1, <2>1, <2>2, <2>3 DEF Informed
<1> QED
  BY <1>2, <1>3 DEF Informed

\* Each step of the login form and the dialogs leaves its device informed.
LEMMA DialogsInform ==
  ASSUME TypeOK, NEW d \in Devices, Informed(d),
         \/ ServeLogin(d) \/ AskNew(d) \/ ServeDevices(d) \/ DevicesNotRead(d)
         \/ SheetOpens(d) \/ (\E i \in {1, 2} : SelectDevice(d, i)) \/ NewOk(d)
  PROVE  Informed(d)'
<1> USE DEF TypeOK, Goes
<1>1. CASE ServeLogin(d)
  <2>1. /\ stage'[d] = LoginVerdict(d) /\ UNCHANGED registered
        /\ LoginVerdict(d) = "isNew" => Cardinality(registered) # Limit
    BY <1>1 DEF ServeLogin, LoginVerdict
  <2>2. LoginVerdict(d) \in {"isRegistered", "isFull", "isNew"}
    BY DEF LoginVerdict
  <2>3. ~AtForm(d)'
    BY <2>1, <2>2 DEF AtForm
  <2> QED
    BY <2>1, <2>2, <2>3 DEF Informed, NothingToDelete, RoomIsLeft, SheetIsRegistered,
                            ChoiceIsRegistered
<1>2. CASE AskNew(d)
  <2>1. /\ stage[d] = "isNew" /\ stage'[d] = "new"
        /\ stale'[d] = stale[d] /\ UNCHANGED registered
    BY <1>2 DEF AskNew
  <2>2. ~AtForm(d)'
    BY <2>1 DEF AtForm
  <2> QED
    BY <2>1, <2>2 DEF Informed, NothingToDelete, RoomIsLeft, SheetIsRegistered,
                      ChoiceIsRegistered
<1>3. CASE ServeDevices(d)
  <2>1. PICK a, b \in registered : sheet'[d] = <<a, b>>
    BY <1>3 DEF ServeDevices
  <2>2. stage'[d] = "fetched" /\ UNCHANGED registered
    BY <1>3 DEF ServeDevices
  <2>3. ~AtForm(d)'
    BY <2>2 DEF AtForm
  <2> QED
    BY <2>1, <2>2, <2>3 DEF Informed, NothingToDelete, RoomIsLeft, SheetIsRegistered,
                            ChoiceIsRegistered
<1>4. CASE DevicesNotRead(d)
  <2>1. stage'[d] = "fetched" /\ sheet'[d] = <<NoDevice, NoDevice>>
    BY <1>4 DEF DevicesNotRead, NoSheet
  <2>2. ~AtForm(d)'
    BY <2>1 DEF AtForm
  <2> QED
    BY <2>1, <2>2 DEF Informed, NothingToDelete, RoomIsLeft, SheetIsRegistered,
                      ChoiceIsRegistered
<1>5. CASE SheetOpens(d)
  <2>1. /\ stage[d] = "fetched" /\ stage'[d] = "sheet" /\ sheet'[d] = sheet[d]
        /\ stale'[d] = stale[d] /\ UNCHANGED registered
    BY <1>5 DEF SheetOpens
  <2>2. ~AtForm(d)'
    BY <2>1 DEF AtForm
  <2> QED
    BY <2>1, <2>2 DEF Informed, NothingToDelete, RoomIsLeft, SheetIsRegistered,
                      ChoiceIsRegistered
<1>6. ASSUME NEW i \in {1, 2}, SelectDevice(d, i) PROVE Informed(d)'
  <2>1. /\ stage[d] = "sheet" /\ stage'[d] = "otp" /\ under'[d].otp = "sheet"
        /\ choice'[d] = sheet[d][i] /\ sheet'[d] = sheet[d]
        /\ stale'[d] = stale[d] /\ UNCHANGED registered
    BY <1>6 DEF SelectDevice
  <2> QED
    BY <2>1 DEF Informed, NothingToDelete, RoomIsLeft, SheetIsRegistered,
                ChoiceIsRegistered
<1>7. CASE NewOk(d)
  <2>1. /\ stage[d] = "new" /\ stage'[d] = "otp" /\ under'[d].otp = "new"
        /\ choice'[d] = NoDevice
        /\ stale'[d] = stale[d] /\ UNCHANGED registered
    BY <1>7 DEF NewOk
  <2> QED
    BY <2>1 DEF Informed, NothingToDelete, RoomIsLeft, SheetIsRegistered,
                ChoiceIsRegistered
<1> QED
  BY <1>1, <1>2, <1>3, <1>4, <1>5, <1>6, <1>7

\* Every step but a registration leaves the device that takes it informed.
LEMMA MoverIsInformed ==
  ASSUME TypeOK, NEW d \in Devices, Informed(d),
         \/ LoginPressed(d) \/ ServeLogin(d) \/ EnterRegistered(d) \/ AskReplace(d)
         \/ AskNew(d) \/ LoginFails(d) \/ OveruseOk(d) \/ ServeDevices(d)
         \/ DevicesNotRead(d) \/ SheetOpens(d) \/ SheetFails(d)
         \/ (\E i \in {1, 2} : SelectDevice(d, i)) \/ NewOk(d) \/ Dismiss(d)
         \/ ConfirmCode(d) \/ EnterHome(d) \/ RegisterFails(d) \/ BackFromHome(d)
         \/ BackFromOtp(d) \/ Restart(d)
  PROVE  Informed(d)'
<1> USE DEF TypeOK, Goes
<1>1. CASE LoginPressed(d) \/ AskReplace(d) \/ OveruseOk(d)
  BY <1>1, Uninformed DEF LoginPressed, AskReplace, OveruseOk
<1>2. CASE LoginFails(d) \/ SheetFails(d) \/ Dismiss(d) \/ Restart(d)
  BY <1>2, Uninformed DEF LoginFails, SheetFails, Dismiss, Restart
<1>3. CASE EnterRegistered(d)
  BY <1>3, Uninformed DEF EnterRegistered
<1>4. CASE ConfirmCode(d) \/ EnterHome(d) \/ RegisterFails(d)
  <2>1. /\ stage[d] \in {"otp", "registering", "answered"}
        /\ stage'[d] \in {"otp", "registering"} \/ (stage'[d] = "home" /\ under'[d].home = "otp")
    BY <1>4 DEF ConfirmCode, EnterHome, RegisterFails
  <2>2. AtForm(d) /\ AtForm(d)' /\ stage'[d] \notin {"isNew", "new", "fetched", "sheet"}
    BY <2>1 DEF AtForm
  <2>3. /\ under'[d].otp = under[d].otp /\ sheet'[d] = sheet[d] /\ choice'[d] = choice[d]
        /\ stale'[d] = stale[d] /\ UNCHANGED registered
    BY <1>4 DEF ConfirmCode, EnterHome, RegisterFails
  <2> QED
    BY <2>2, <2>3, FormKept
<1>5. CASE BackFromHome(d)
  <2>1. under[d].home \in {"login", "otp"} /\ stage[d] = "home" /\ stage'[d] = under[d].home
    BY <1>5 DEF BackFromHome
  <2>2. CASE under[d].home = "login"
    BY <2>1, <2>2, Uninformed
  <2>3. CASE under[d].home = "otp"
    <3>1. AtForm(d) /\ AtForm(d)' /\ stage'[d] \notin {"isNew", "new", "fetched", "sheet"}
      BY <2>1, <2>3 DEF AtForm
    <3>2. UNCHANGED <<registered, under, sheet, choice, stale>>
      BY <1>5, <2>3 DEF BackFromHome
    <3> QED
      BY <3>1, <3>2, FormKept
  <2> QED
    BY <2>1, <2>2, <2>3
<1>6. CASE BackFromOtp(d)
  <2>1. /\ under[d].otp \in {"new", "sheet"} /\ stage[d] = "otp" /\ stage'[d] = under[d].otp
        /\ UNCHANGED <<registered, under, sheet, choice, stale>>
    BY <1>6 DEF BackFromOtp
  <2>2. AtForm(d) /\ ~AtForm(d)'
    BY <2>1 DEF AtForm
  <2> QED
    BY <2>1, <2>2 DEF Informed, NothingToDelete, RoomIsLeft, SheetIsRegistered,
                      ChoiceIsRegistered
<1>7. CASE \/ ServeLogin(d) \/ AskNew(d) \/ ServeDevices(d) \/ DevicesNotRead(d)
           \/ SheetOpens(d) \/ (\E i \in {1, 2} : SelectDevice(d, i)) \/ NewOk(d)
  BY <1>7, DialogsInform
<1> QED
  BY <1>1, <1>2, <1>3, <1>4, <1>5, <1>6, <1>7

\* A registration overtakes whatever the others read.
LEMMA RegistrationOvertakes ==
  ASSUME TypeOK, AllInformed, NEW d \in Devices, ServeRegister(d)
  PROVE  AllInformed'
<1> USE DEF TypeOK, Goes
<1> SUFFICES ASSUME NEW e \in Devices PROVE Informed(e)'
  BY DEF AllInformed
<1>0. Informed(e)
  BY DEF AllInformed
<1>1. /\ stage[d] = "registering" /\ stage'[d] = "answered"
      /\ e # d => stage'[e] = stage[e]
      /\ UNCHANGED <<under, sheet, choice>>
  BY DEF ServeRegister
<1>2. CASE UNCHANGED registered
  <2>1. stale'[e] = stale[e]
    <3>1. CASE UNCHANGED stale
      BY <3>1
    <3>2. CASE /\ registered' = (registered \ {choice[d]}) \cup {d}
               /\ stale' = [f \in Devices |-> stale[f]
                              \/ ((registered \ {choice[d]}) \cup {d} # registered
                                    /\ stage[f] \notin Settled)]
      <4>1. stale' = [f \in Devices |-> stale[f]]
        BY <1>2, <3>2
      <4> QED
        BY <4>1
    <3> QED
      BY <3>1, <3>2 DEF ServeRegister
  <2>2. CASE e # d
    BY <1>0, <1>1, <1>2, <2>1, <2>2, InformedFrame
  <2>3. CASE e = d
    <3>1. AtForm(e) /\ AtForm(e)'
      BY <1>1, <2>3 DEF AtForm
    <3> QED
      BY <1>0, <1>1, <1>2, <2>1, <2>3, <3>1, FormKept
  <2> QED
    BY <2>2, <2>3
<1>3. CASE registered' # registered
  <2>1. stale' = [f \in Devices |-> stale[f]
                    \/ (registered' # registered /\ stage[f] \notin Settled)]
    BY <1>3 DEF ServeRegister
  <2>2. CASE stage[e] \in Settled
    <3>1. e # d /\ stage'[e] \in {"login", "asking"}
      BY <1>1, <2>2 DEF Settled
    <3> QED
      BY <3>1, Uninformed
  <2>3. CASE stage[e] \notin Settled
    <3>1. stale'[e]
      BY <1>3, <2>1, <2>3
    <3>2. AtForm(e)' => AtForm(e)
      BY <1>1 DEF AtForm
    <3> QED
      BY <1>0, <1>1, <3>1, <3>2 DEF Informed, NothingToDelete
  <2> QED
    BY <2>2, <2>3
<1> QED
  BY <1>2, <1>3

\* A registration that has room, or that takes out a registered device, keeps
\* the limit.
LEMMA ReplacingKeepsLimit ==
  ASSUME TypeOK, NEW d \in Devices, NEW c,
         Cardinality(registered) <= Limit,
         Cardinality(registered) # Limit \/ c \in registered
  PROVE  Cardinality((registered \ {c}) \cup {d}) <= Limit
<1>1. IsFiniteSet(registered)
  BY DeviceAssumption, FS_Subset DEF TypeOK
<1>2. /\ IsFiniteSet(registered \ {c}) /\ Cardinality(registered \ {c}) \in Nat
      /\ Cardinality(registered) \in Nat
      /\ Cardinality(registered \ {c}) = IF c \in registered THEN Cardinality(registered) - 1
                                                            ELSE Cardinality(registered)
  BY <1>1, FS_RemoveElement, FS_CardinalityType
<1>3. Cardinality(registered \ {c}) < Limit
  BY <1>2 DEF Limit
<1>4. Cardinality((registered \ {c}) \cup {d}) \in {Cardinality(registered \ {c}),
                                                    Cardinality(registered \ {c}) + 1}
  BY <1>2, FS_AddElement
<1> QED
  BY <1>2, <1>3, <1>4 DEF Limit

\* The registry exceeds the limit only through a registration on an answer
\* another one has overtaken, or on a device list that was never read
\* (body.dart:123-158, devOveruse_dialog.dart:26-269, otp_form.dart:229-238).
THEOREM OverLimitNeedsStaleAnswers == Spec => OverLimitNeedsStaleAnswer
<1> DEFINE Exceeds == Cardinality(registered) <= Limit /\ Cardinality(registered') > Limit
                     => \E d \in Devices : /\ stage[d] = "registering" /\ stage'[d] = "answered"
                                           /\ \/ stale[d]
                                              \/ under[d].otp = "sheet" /\ choice[d] = NoDevice
<1>1. Init => AllInformed
  <2> SUFFICES ASSUME Init, NEW d \in Devices PROVE Informed(d)
    BY DEF AllInformed
  <2>1. stage[d] = "login"
    BY DEF Init
  <2> QED
    BY <2>1 DEF Informed, NothingToDelete, RoomIsLeft, SheetIsRegistered, ChoiceIsRegistered,
                AtForm
<1>2. TypeOK /\ AllInformed /\ [Next]_vars => AllInformed'
  <2> SUFFICES ASSUME TypeOK, AllInformed, [Next]_vars PROVE AllInformed'
    OBVIOUS
  <2>1. CASE UNCHANGED vars
    BY <2>1, InformedFrame DEF vars, AllInformed
  <2>2. ASSUME NEW d \in Devices, ServeRegister(d) PROVE AllInformed'
    BY <2>2, RegistrationOvertakes
  <2>3. ASSUME NEW d \in Devices,
               \/ LoginPressed(d) \/ ServeLogin(d) \/ EnterRegistered(d) \/ AskReplace(d)
               \/ AskNew(d) \/ LoginFails(d) \/ OveruseOk(d) \/ ServeDevices(d)
               \/ DevicesNotRead(d) \/ SheetOpens(d) \/ SheetFails(d)
               \/ (\E i \in {1, 2} : SelectDevice(d, i)) \/ NewOk(d) \/ Dismiss(d)
               \/ ConfirmCode(d) \/ EnterHome(d) \/ RegisterFails(d) \/ BackFromHome(d)
               \/ BackFromOtp(d) \/ Restart(d)
        PROVE  AllInformed'
    <3>1. \A e \in Devices : Informed(e)
      BY DEF AllInformed
    <3>2. Informed(d)'
      BY <2>3, <3>1, MoverIsInformed
    <3>3. ASSUME NEW e \in Devices, e # d PROVE Informed(e)'
      <4>1. /\ UNCHANGED registered
            /\ stage'[e] = stage[e] /\ under'[e] = under[e] /\ sheet'[e] = sheet[e]
            /\ choice'[e] = choice[e] /\ stale'[e] = stale[e]
        BY <2>3, <3>3, OthersKeep
      <4> QED
        BY <3>1, <4>1, InformedFrame
    <3> QED
      BY <3>2, <3>3 DEF AllInformed
  <2> QED
    BY <2>1, <2>2, <2>3 DEF Next, Step
<1>3. TypeOK /\ AllInformed /\ [Next]_vars => [Exceeds]_vars
  <2> SUFFICES ASSUME TypeOK, AllInformed, [Next]_vars,
                      Cardinality(registered) <= Limit, Cardinality(registered') > Limit
               PROVE  \E d \in Devices : /\ stage[d] = "registering" /\ stage'[d] = "answered"
                                         /\ \/ stale[d]
                                            \/ under[d].otp = "sheet" /\ choice[d] = NoDevice
    OBVIOUS
  <2>1. registered' # registered
    BY DeviceAssumption, FS_Subset, FS_CardinalityType DEF TypeOK, Limit
  <2>2. PICK d \in Devices : ServeRegister(d)
    BY <2>1, RegistryChange
  <2>3. /\ stage[d] = "registering" /\ stage'[d] = "answered"
        /\ registered' = (registered \ {choice[d]}) \cup {d}
    BY <2>1, <2>2 DEF ServeRegister, Goes, TypeOK
  <2>4. Cardinality(registered) = Limit /\ choice[d] \notin registered
    BY <2>3, ReplacingKeepsLimit, DeviceAssumption, FS_Subset, FS_CardinalityType
       DEF TypeOK, Limit
  <2>5. AtForm(d) /\ under[d].otp \in {"new", "sheet"}
    BY <2>3 DEF AtForm, TypeOK
  <2>6. stale[d] \/ (under[d].otp = "sheet" /\ choice[d] = NoDevice)
    <3>1. CASE stale[d]
      BY <3>1
    <3>2. CASE RoomIsLeft(d) /\ SheetIsRegistered(d) /\ ChoiceIsRegistered(d)
      BY <2>4, <2>5, <3>2 DEF RoomIsLeft, ChoiceIsRegistered
    <3> QED
      BY <3>1, <3>2 DEF AllInformed, Informed
  <2> QED
    BY <2>3, <2>6
<1> QED
  BY <1>1, <1>2, <1>3, TypeCorrect, PTL DEF Spec, OverLimitNeedsStaleAnswer

-----------------------------------------------------------------------------
(* The abstract admission.                                                 *)

\* What a form that followed the sheet is about to replace was on the sheet.
ChoiceIsOffered(d) ==
  AtForm(d) /\ under[d].otp = "sheet" => choice[d] \in {sheet[d][1], sheet[d][2]}

OfferInv == \A d \in Devices : NothingToDelete(d) /\ ChoiceIsOffered(d)

\* A form's choice is one of its offer.
LEMMA ChoiceInOffer ==
  ASSUME TypeOK, OfferInv, NEW d \in Devices, AtForm(d)
  PROVE  choice[d] \in OfferTo(d)
<1>1. under[d].otp \in {"new", "sheet"}
  BY DEF TypeOK
<1>2. CASE under[d].otp = "sheet"
  <2>1. HoldsList(d)
    BY <1>2 DEF HoldsList
  <2>2. choice[d] \in {sheet[d][1], sheet[d][2]}
    BY <1>2 DEF OfferInv, ChoiceIsOffered
  <2> QED
    BY <2>1, <2>2 DEF OfferTo
<1>3. CASE under[d].otp = "new"
  <2>1. ~HoldsList(d) /\ HoldsRoom(d)
    BY <1>3 DEF HoldsList, HoldsRoom, AtForm
  <2> QED
    BY <1>3, <2>1 DEF OfferInv, NothingToDelete, OfferTo
<1> QED
  BY <1>1, <1>2, <1>3

\* A device that keeps its form, sheet and choice keeps what OfferInv says.
LEMMA OfferFrame ==
  ASSUME NEW d \in Devices, NothingToDelete(d), ChoiceIsOffered(d), AtForm(d)' => AtForm(d),
         AtForm(d)' => /\ under'[d].otp = under[d].otp /\ sheet'[d] = sheet[d]
                       /\ choice'[d] = choice[d]
  PROVE  NothingToDelete(d)' /\ ChoiceIsOffered(d)'
BY DEF NothingToDelete, ChoiceIsOffered

LEMMA OfferStep ==
  ASSUME TypeOK, OfferInv, [Next]_vars
  PROVE  OfferInv'
<1> USE DEF TypeOK, Goes
<1> SUFFICES ASSUME NEW e \in Devices PROVE NothingToDelete(e)' /\ ChoiceIsOffered(e)'
  BY DEF OfferInv
<1>0. NothingToDelete(e) /\ ChoiceIsOffered(e)
  BY DEF OfferInv
<1>a. ASSUME ~AtForm(e)' PROVE NothingToDelete(e)' /\ ChoiceIsOffered(e)'
  BY <1>a DEF NothingToDelete, ChoiceIsOffered
<1>b. ASSUME stage'[e] = stage[e], under'[e] = under[e], sheet'[e] = sheet[e],
             choice'[e] = choice[e]
      PROVE  NothingToDelete(e)' /\ ChoiceIsOffered(e)'
  <2>1. AtForm(e)' => AtForm(e)
    BY <1>b DEF AtForm
  <2> QED
    BY <1>0, <1>b, <2>1, OfferFrame
<1>1. CASE \/ LoginPressed(e) \/ ServeLogin(e) \/ EnterRegistered(e) \/ AskReplace(e)
           \/ AskNew(e) \/ LoginFails(e) \/ OveruseOk(e) \/ ServeDevices(e)
           \/ DevicesNotRead(e) \/ SheetOpens(e) \/ SheetFails(e) \/ Dismiss(e)
           \/ BackFromOtp(e) \/ Restart(e)
  <2>1. \/ stage'[e] \in {"asking", "isRegistered", "isFull", "isNew", "overuse", "new",
                          "login", "fetching", "fetched", "sheet"}
        \/ stage'[e] = "home" /\ under'[e].home = "login"
    BY <1>1 DEF LoginPressed, ServeLogin, LoginVerdict, EnterRegistered, AskReplace, AskNew,
       LoginFails, OveruseOk, ServeDevices, DevicesNotRead, SheetOpens, SheetFails, Dismiss,
       BackFromOtp, Restart
  <2>2. ~AtForm(e)'
    BY <2>1 DEF AtForm
  <2> QED
    BY <1>a, <2>2
<1>2. ASSUME NEW i \in {1, 2}, SelectDevice(e, i)
      PROVE  NothingToDelete(e)' /\ ChoiceIsOffered(e)'
  <2>1. /\ choice'[e] = sheet[e][i] /\ sheet'[e] = sheet[e] /\ under'[e].otp = "sheet"
    BY <1>2 DEF SelectDevice
  <2> QED
    BY <2>1 DEF NothingToDelete, ChoiceIsOffered
<1>3. CASE NewOk(e)
  <2>1. choice'[e] = NoDevice /\ under'[e].otp = "new"
    BY <1>3 DEF NewOk
  <2> QED
    BY <2>1 DEF NothingToDelete, ChoiceIsOffered
<1>4. CASE ConfirmCode(e) \/ ServeRegister(e) \/ EnterHome(e) \/ RegisterFails(e)
  <2>1. /\ AtForm(e) /\ under'[e].otp = under[e].otp
        /\ sheet'[e] = sheet[e] /\ choice'[e] = choice[e]
    BY <1>4 DEF ConfirmCode, ServeRegister, EnterHome, RegisterFails, AtForm
  <2> QED
    BY <1>0, <2>1, OfferFrame
<1>5. CASE BackFromHome(e)
  <2>1. under[e].home \in {"login", "otp"} /\ stage[e] = "home" /\ stage'[e] = under[e].home
    BY <1>5 DEF BackFromHome
  <2>2. CASE under[e].home = "login"
    BY <1>a, <2>1, <2>2 DEF AtForm
  <2>3. CASE under[e].home = "otp"
    <3>1. UNCHANGED <<under, sheet, choice>>
      BY <1>5, <2>3 DEF BackFromHome
    <3>2. AtForm(e)
      BY <2>1, <2>3 DEF AtForm
    <3> QED
      BY <1>0, <3>1, <3>2, OfferFrame
  <2> QED
    BY <2>1, <2>2, <2>3
<1>6. ASSUME NEW d \in Devices, d # e, ServeRegister(d)
      PROVE  NothingToDelete(e)' /\ ChoiceIsOffered(e)'
  BY <1>6, <1>b DEF ServeRegister
<1>7. ASSUME NEW d \in Devices, d # e,
             \/ LoginPressed(d) \/ ServeLogin(d) \/ EnterRegistered(d) \/ AskReplace(d)
             \/ AskNew(d) \/ LoginFails(d) \/ OveruseOk(d) \/ ServeDevices(d)
             \/ DevicesNotRead(d) \/ SheetOpens(d) \/ SheetFails(d)
             \/ (\E i \in {1, 2} : SelectDevice(d, i)) \/ NewOk(d) \/ Dismiss(d)
             \/ ConfirmCode(d) \/ EnterHome(d) \/ RegisterFails(d) \/ BackFromHome(d)
             \/ BackFromOtp(d) \/ Restart(d)
      PROVE  NothingToDelete(e)' /\ ChoiceIsOffered(e)'
  BY <1>7, <1>b, OthersKeep
<1>8. CASE UNCHANGED vars
  BY <1>8, <1>b DEF vars
<1> QED
  BY <1>1, <1>2, <1>3, <1>4, <1>5, <1>6, <1>7, <1>8 DEF Next, Step

LEMMA OfferInvariant == Spec => []OfferInv
<1>1. Init => OfferInv
  <2> SUFFICES ASSUME Init, NEW d \in Devices PROVE NothingToDelete(d) /\ ChoiceIsOffered(d)
    BY DEF OfferInv
  <2>1. ~AtForm(d)
    BY DEF Init, AtForm
  <2> QED
    BY <2>1 DEF NothingToDelete, ChoiceIsOffered
<1> QED
  BY <1>1, OfferStep, TypeCorrect, PTL DEF Spec

\* The abstract variables, as the refinement maps them.
Offers  == [d \in Devices |-> OfferTo(d)]
IsBlind(d) == HoldsList(d) /\ sheet[d] = NoSheet
Blind   == {d \in Devices : IsBlind(d)}
Cleared == {d \in Devices : stage[d] \in {"isRegistered", "answered"}}
Inside  == {d \in Devices : stage[d] = "home"}

\* The abstraction counts as the registry does.
LEMMA DoorCounts ==
  ASSUME NEW S
  PROVE  Door!Cardinality(S) = Cardinality(S)
BY DEF Door!Cardinality, Cardinality

\* While the other devices keep what they hold, only d's part changes.
LEMMA DoorMoves ==
  ASSUME NEW d \in Devices,
         \A e \in Devices \ {d} : /\ stage'[e] = stage[e] /\ under'[e] = under[e]
                                  /\ sheet'[e] = sheet[e]
  PROVE  /\ Offers' = [Offers EXCEPT ![d] = OfferTo(d)']
         /\ Offers[d] = OfferTo(d)
         /\ Blind' = IF IsBlind(d)' THEN Blind \cup {d} ELSE Blind \ {d}
         /\ Cleared' = IF stage'[d] \in {"isRegistered", "answered"}
                       THEN Cleared \cup {d} ELSE Cleared \ {d}
         /\ Inside' = IF stage'[d] = "home" THEN Inside \cup {d} ELSE Inside \ {d}
<1>1. ASSUME NEW e \in Devices \ {d}
      PROVE  (HoldsList(e)' <=> HoldsList(e)) /\ (HoldsRoom(e)' <=> HoldsRoom(e))
  BY <1>1 DEF HoldsList, HoldsRoom, AtForm
<1>2. \A e \in Devices \ {d} : OfferTo(e)' = OfferTo(e)
  BY <1>1 DEF OfferTo
<1>3. \A e \in Devices \ {d} : IsBlind(e)' <=> IsBlind(e)
  BY <1>1 DEF IsBlind
<1>4. Offers' = [Offers EXCEPT ![d] = OfferTo(d)'] /\ Offers[d] = OfferTo(d)
  BY <1>2 DEF Offers
<1>5. Blind' = IF IsBlind(d)' THEN Blind \cup {d} ELSE Blind \ {d}
  BY <1>3 DEF Blind
<1>6. /\ Cleared' = IF stage'[d] \in {"isRegistered", "answered"}
                    THEN Cleared \cup {d} ELSE Cleared \ {d}
      /\ Inside' = IF stage'[d] = "home" THEN Inside \cup {d} ELSE Inside \ {d}
  BY DEF Cleared, Inside
<1> QED
  BY <1>4, <1>5, <1>6

\* Nothing of the abstract state moves.
LEMMA DoorStays ==
  ASSUME UNCHANGED registered, NEW d \in Devices,
         \A e \in Devices \ {d} : /\ stage'[e] = stage[e] /\ under'[e] = under[e]
                                  /\ sheet'[e] = sheet[e],
         OfferTo(d)' = OfferTo(d), IsBlind(d)' <=> IsBlind(d),
         stage'[d] \in {"isRegistered", "answered"} <=> stage[d] \in {"isRegistered", "answered"},
         stage'[d] = "home" <=> stage[d] = "home"
  PROVE  UNCHANGED Door!vars
<1>1. Offers' = Offers
  BY DoorMoves DEF Offers
<1>2. Blind' = Blind
  BY DoorMoves DEF Blind
<1>3. Cleared' = Cleared /\ Inside' = Inside
  BY DoorMoves DEF Cleared, Inside
<1> QED
  BY <1>1, <1>2, <1>3 DEF Door!vars, Offers, Blind, IsBlind, Cleared, Inside

\* Back at the login form nothing is held.
LEMMA LoginForgets ==
  ASSUME UNCHANGED registered, NEW d \in Devices,
         \A e \in Devices \ {d} : /\ stage'[e] = stage[e] /\ under'[e] = under[e]
                                  /\ sheet'[e] = sheet[e],
         stage'[d] = "login"
  PROVE  Door!Forget(d)
<1>1. ~HoldsList(d)' /\ ~HoldsRoom(d)'
  BY DEF HoldsList, HoldsRoom, AtForm
<1>2. OfferTo(d)' = {} /\ ~IsBlind(d)'
  BY <1>1 DEF OfferTo, IsBlind
<1>3. /\ Offers' = [Offers EXCEPT ![d] = {}]
      /\ Blind' = Blind \ {d} /\ Cleared' = Cleared \ {d} /\ Inside' = Inside \ {d}
  BY <1>2, DoorMoves
<1> QED
  BY <1>3 DEF Door!Forget, Offers, Blind, IsBlind, Cleared, Inside

\* The login form and its first answer.
LEMMA LoginSteps ==
  ASSUME TypeOK, NEW d \in Devices,
         \/ LoginPressed(d) \/ ServeLogin(d) \/ AskReplace(d) \/ AskNew(d) \/ OveruseOk(d)
  PROVE  Door!Next \/ UNCHANGED Door!vars
<1> USE DEF TypeOK, Goes
<1>0. /\ UNCHANGED registered
      /\ \A e \in Devices \ {d} : /\ stage'[e] = stage[e] /\ under'[e] = under[e]
                                  /\ sheet'[e] = sheet[e]
  <2>1. UNCHANGED registered
    BY DEF LoginPressed, ServeLogin, AskReplace, AskNew, OveruseOk
  <2>2. ASSUME NEW e \in Devices, e # d
        PROVE  stage'[e] = stage[e] /\ under'[e] = under[e] /\ sheet'[e] = sheet[e]
    BY <2>2, OthersKeep
  <2> QED
    BY <2>1, <2>2
<1>m. /\ Offers' = [Offers EXCEPT ![d] = OfferTo(d)']
      /\ Offers[d] = OfferTo(d)
      /\ Blind' = IF IsBlind(d)' THEN Blind \cup {d} ELSE Blind \ {d}
      /\ Cleared' = IF stage'[d] \in {"isRegistered", "answered"}
                    THEN Cleared \cup {d} ELSE Cleared \ {d}
      /\ Inside' = IF stage'[d] = "home" THEN Inside \cup {d} ELSE Inside \ {d}
  BY <1>0, DoorMoves
<1>1. CASE LoginPressed(d) \/ AskReplace(d) \/ OveruseOk(d)
  <2>1. /\ stage[d] \in {"login", "isFull", "overuse"}
        /\ stage'[d] \in {"asking", "overuse", "fetching"}
    BY <1>1 DEF LoginPressed, AskReplace, OveruseOk
  <2>2. ~HoldsList(d) /\ ~HoldsRoom(d) /\ ~HoldsList(d)' /\ ~HoldsRoom(d)'
    BY <2>1 DEF HoldsList, HoldsRoom, AtForm
  <2>3. OfferTo(d) = {} /\ OfferTo(d)' = {} /\ ~IsBlind(d) /\ ~IsBlind(d)'
    BY <2>2 DEF OfferTo, IsBlind
  <2> QED
    BY <1>0, <2>1, <2>3, DoorStays
<1>2. CASE AskNew(d)
  <2>1. stage[d] = "isNew" /\ stage'[d] = "new"
    BY <1>2 DEF AskNew
  <2>2. ~HoldsList(d) /\ HoldsRoom(d) /\ ~HoldsList(d)' /\ HoldsRoom(d)'
    BY <2>1 DEF HoldsList, HoldsRoom, AtForm
  <2>3. OfferTo(d) = {NoDevice} /\ OfferTo(d)' = {NoDevice} /\ ~IsBlind(d) /\ ~IsBlind(d)'
    BY <2>2 DEF OfferTo, IsBlind
  <2> QED
    BY <1>0, <2>1, <2>3, DoorStays
<1>3. CASE ServeLogin(d)
  <2>1. stage[d] = "asking" /\ stage'[d] = LoginVerdict(d)
    BY <1>3 DEF ServeLogin
  <2>2. ~HoldsList(d) /\ ~HoldsRoom(d)
    BY <2>1 DEF HoldsList, HoldsRoom, AtForm
  <2>3. OfferTo(d) = {} /\ ~IsBlind(d)
    BY <2>2 DEF OfferTo, IsBlind
  <2>4. d \notin Cleared /\ d \notin Inside /\ d \notin Blind
    BY <2>1, <2>3 DEF Cleared, Inside, Blind
  <2>5. CASE d \in registered
    <3>1. stage'[d] = "isRegistered"
      BY <2>1, <2>5 DEF LoginVerdict
    <3>2. ~HoldsList(d)' /\ ~HoldsRoom(d)'
      BY <3>1 DEF HoldsList, HoldsRoom, AtForm
    <3>3. OfferTo(d)' = {} /\ ~IsBlind(d)'
      BY <3>2 DEF OfferTo, IsBlind
    <3>4. UNCHANGED <<Offers, Blind, Inside>> /\ Cleared' = Cleared \cup {d}
      <4>1. Offers' = [Offers EXCEPT ![d] = Offers[d]]
        BY <1>m, <2>3, <3>3
      <4>2. [Offers EXCEPT ![d] = Offers[d]] = Offers
        BY ONLY DEF Offers
      <4>3. Blind' = Blind /\ Inside' = Inside /\ Cleared' = Cleared \cup {d}
        BY ONLY <1>m, <2>4, <3>1, <3>3
      <4> QED
        BY <4>1, <4>2, <4>3
    <3>5. Door!Recognise(d)
      BY <1>0, <2>5, <3>4 DEF Door!Recognise, Offers, Blind, IsBlind, Cleared, Inside
    <3> QED
      BY <3>5 DEF Door!Next
  <2>6. CASE d \notin registered /\ Cardinality(registered) = Limit
    <3>1. stage'[d] = "isFull"
      BY <2>1, <2>6 DEF LoginVerdict
    <3>2. ~HoldsList(d)' /\ ~HoldsRoom(d)'
      BY <3>1 DEF HoldsList, HoldsRoom, AtForm
    <3>3. OfferTo(d)' = {} /\ ~IsBlind(d)'
      BY <3>2 DEF OfferTo, IsBlind
    <3> QED
      BY <1>0, <2>1, <2>3, <3>1, <3>3, DoorStays
  <2>7. CASE d \notin registered /\ Cardinality(registered) # Limit
    <3>1. stage'[d] = "isNew"
      BY <2>1, <2>7 DEF LoginVerdict
    <3>2. ~HoldsList(d)' /\ HoldsRoom(d)'
      BY <3>1 DEF HoldsList, HoldsRoom, AtForm
    <3>3. OfferTo(d)' = {NoDevice} /\ ~IsBlind(d)'
      BY <3>2 DEF OfferTo, IsBlind
    <3>4. UNCHANGED <<Blind, Inside, Cleared>> /\ Offers' = [Offers EXCEPT ![d] = {NoDevice}]
      BY <1>m, <2>4, <3>1, <3>3
    <3>5. Offers[d] = {}
      BY <2>3 DEF Offers
    <3>6. Door!Room(d)
      BY <1>0, <2>7, <3>4, <3>5 DEF Door!Room, Offers, Blind, IsBlind, Cleared, Inside
    <3>7. Cardinality(registered) < Limit \/ Cardinality(registered) > Limit
      <4>1. IsFiniteSet(registered)
        BY DeviceAssumption, FS_Subset
      <4>2. Cardinality(registered) \in Nat
        BY <4>1, FS_CardinalityType
      <4> QED
        BY ONLY <2>7, <4>2 DEF Limit
    <3>8. Door!OfferRoom(d) \/ Door!OverlookExcess(d)
      BY <3>6, <3>7, DoorCounts DEF Door!OfferRoom, Door!OverlookExcess
    <3> QED
      BY <3>8 DEF Door!Next
  <2> QED
    BY <2>5, <2>6, <2>7
<1> QED
  BY <1>1, <1>2, <1>3

\* The list of the registered devices, and what is done with it.
LEMMA SheetSteps ==
  ASSUME TypeOK, NEW d \in Devices,
         \/ ServeDevices(d) \/ DevicesNotRead(d) \/ SheetOpens(d)
         \/ (\E i \in {1, 2} : SelectDevice(d, i)) \/ NewOk(d)
  PROVE  Door!Next \/ UNCHANGED Door!vars
<1> USE DEF TypeOK, Goes
<1>0. /\ UNCHANGED registered
      /\ \A e \in Devices \ {d} : /\ stage'[e] = stage[e] /\ under'[e] = under[e]
                                  /\ sheet'[e] = sheet[e]
  <2>1. UNCHANGED registered
    BY DEF ServeDevices, DevicesNotRead, SheetOpens, SelectDevice, NewOk
  <2>2. ASSUME NEW e \in Devices, e # d
        PROVE  stage'[e] = stage[e] /\ under'[e] = under[e] /\ sheet'[e] = sheet[e]
    BY <2>2, OthersKeep
  <2> QED
    BY <2>1, <2>2
<1>m. /\ Offers' = [Offers EXCEPT ![d] = OfferTo(d)']
      /\ Offers[d] = OfferTo(d)
      /\ Blind' = IF IsBlind(d)' THEN Blind \cup {d} ELSE Blind \ {d}
      /\ Cleared' = IF stage'[d] \in {"isRegistered", "answered"}
                    THEN Cleared \cup {d} ELSE Cleared \ {d}
      /\ Inside' = IF stage'[d] = "home" THEN Inside \cup {d} ELSE Inside \ {d}
  BY <1>0, DoorMoves
<1>1. CASE ServeDevices(d) \/ DevicesNotRead(d)
  <2>1. stage[d] = "fetching" /\ stage'[d] = "fetched"
    BY <1>1 DEF ServeDevices, DevicesNotRead
  <2>2. ~HoldsList(d) /\ ~HoldsRoom(d) /\ HoldsList(d)'
    BY <2>1 DEF HoldsList, HoldsRoom, AtForm
  <2>3. OfferTo(d) = {} /\ ~IsBlind(d)
    BY <2>2 DEF OfferTo, IsBlind
  <2>4. d \notin Cleared /\ d \notin Inside /\ d \notin Blind
    BY <2>1, <2>3 DEF Cleared, Inside, Blind
  <2>5. Offers[d] = {} /\ UNCHANGED <<Cleared, Inside>>
    BY <1>m, <2>1, <2>3, <2>4
  <2>6. CASE ServeDevices(d)
    <3>1. PICK a, b \in registered : a # b /\ sheet'[d] = <<a, b>>
      BY <2>6 DEF ServeDevices
    <3>2. OfferTo(d)' = {a, b}
      BY <2>2, <3>1 DEF OfferTo
    <3>3. ~IsBlind(d)'
      BY <3>1, DeviceAssumption DEF IsBlind, NoSheet
    <3>4. UNCHANGED Blind /\ Offers' = [Offers EXCEPT ![d] = {a, b}]
      BY <1>m, <2>4, <3>2, <3>3
    <3>5. Door!OfferPlace(d)
      BY <1>0, <2>5, <3>1, <3>4 DEF Door!OfferPlace, Offers, Blind, IsBlind, Cleared, Inside
    <3> QED
      BY <3>5 DEF Door!Next
  <2>7. CASE DevicesNotRead(d)
    <3>1. sheet'[d] = NoSheet
      BY <2>7 DEF DevicesNotRead, NoSheet
    <3>2. OfferTo(d)' = {NoDevice} /\ IsBlind(d)'
      BY <2>2, <3>1 DEF OfferTo, IsBlind, NoSheet
    <3>3. Blind' = Blind \cup {d} /\ Offers' = [Offers EXCEPT ![d] = {NoDevice}]
      BY <1>m, <3>2
    <3>4. Door!OfferBlindly(d)
      BY <1>0, <2>5, <3>3 DEF Door!OfferBlindly, Offers, Blind, IsBlind, Cleared, Inside
    <3> QED
      BY <3>4 DEF Door!Next
  <2> QED
    BY <1>1, <2>6, <2>7
<1>2. CASE SheetOpens(d) \/ (\E i \in {1, 2} : SelectDevice(d, i))
  <2>1. /\ stage[d] \in {"fetched", "sheet"} /\ sheet'[d] = sheet[d]
        /\ stage'[d] = "sheet" \/ (stage'[d] = "otp" /\ under'[d].otp = "sheet")
    BY <1>2 DEF SheetOpens, SelectDevice
  <2>2. HoldsList(d) /\ HoldsList(d)'
    BY <2>1 DEF HoldsList, AtForm
  <2>3. OfferTo(d)' = OfferTo(d) /\ (IsBlind(d)' <=> IsBlind(d))
    BY <2>1, <2>2 DEF OfferTo, IsBlind
  <2> QED
    BY <1>0, <2>1, <2>3, DoorStays
<1>3. CASE NewOk(d)
  <2>1. stage[d] = "new" /\ stage'[d] = "otp" /\ under'[d].otp = "new"
    BY <1>3 DEF NewOk
  <2>2. ~HoldsList(d) /\ HoldsRoom(d) /\ ~HoldsList(d)' /\ HoldsRoom(d)'
    BY <2>1 DEF HoldsList, HoldsRoom, AtForm
  <2>3. OfferTo(d) = {NoDevice} /\ OfferTo(d)' = {NoDevice} /\ ~IsBlind(d) /\ ~IsBlind(d)'
    BY <2>2 DEF OfferTo, IsBlind
  <2> QED
    BY <1>0, <2>1, <2>3, DoorStays
<1> QED
  BY <1>1, <1>2, <1>3

\* The code form, the registration, and the home screen behind it.
LEMMA FormSteps ==
  ASSUME TypeOK, OfferInv, NEW d \in Devices,
         \/ ConfirmCode(d) \/ ServeRegister(d) \/ EnterHome(d) \/ RegisterFails(d)
         \/ BackFromOtp(d) \/ BackFromHome(d) \/ EnterRegistered(d)
  PROVE  Door!Next \/ UNCHANGED Door!vars
<1> USE DEF TypeOK, Goes
<1>0. \A e \in Devices \ {d} : /\ stage'[e] = stage[e] /\ under'[e] = under[e]
                               /\ sheet'[e] = sheet[e]
  <2> SUFFICES ASSUME NEW e \in Devices, e # d
               PROVE  stage'[e] = stage[e] /\ under'[e] = under[e] /\ sheet'[e] = sheet[e]
    OBVIOUS
  <2>1. CASE ServeRegister(d)
    BY <2>1 DEF ServeRegister
  <2>2. CASE ~ServeRegister(d)
    BY <2>2, OthersKeep
  <2> QED
    BY <2>1, <2>2
<1>m. /\ Offers' = [Offers EXCEPT ![d] = OfferTo(d)']
      /\ Offers[d] = OfferTo(d)
      /\ Blind' = IF IsBlind(d)' THEN Blind \cup {d} ELSE Blind \ {d}
      /\ Cleared' = IF stage'[d] \in {"isRegistered", "answered"}
                    THEN Cleared \cup {d} ELSE Cleared \ {d}
      /\ Inside' = IF stage'[d] = "home" THEN Inside \cup {d} ELSE Inside \ {d}
  BY <1>0, DoorMoves
<1>a. ASSUME HoldsList(d)' <=> HoldsList(d), HoldsRoom(d)' <=> HoldsRoom(d),
             HoldsList(d) => sheet'[d] = sheet[d]
      PROVE  /\ OfferTo(d)' = OfferTo(d) /\ (IsBlind(d)' <=> IsBlind(d))
             /\ UNCHANGED <<Offers, Blind>>
  <2>1. OfferTo(d)' = OfferTo(d) /\ (IsBlind(d)' <=> IsBlind(d))
    BY <1>a DEF OfferTo, IsBlind
  <2>2. UNCHANGED Offers
    BY <1>m, <2>1 DEF Offers
  <2>3. UNCHANGED Blind
    BY <1>m, <2>1 DEF Blind
  <2> QED
    BY <2>1, <2>2, <2>3
<1>b. ASSUME AtForm(d), AtForm(d)', under'[d].otp = under[d].otp, sheet'[d] = sheet[d]
      PROVE  /\ OfferTo(d)' = OfferTo(d) /\ (IsBlind(d)' <=> IsBlind(d))
             /\ UNCHANGED <<Offers, Blind>>
  <2>1. \/ stage[d] \in {"otp", "registering", "answered"} \/ stage[d] = "home"
    BY <1>b DEF AtForm
  <2>2. \/ stage'[d] \in {"otp", "registering", "answered"} \/ stage'[d] = "home"
    BY <1>b DEF AtForm
  <2>3. (HoldsList(d)' <=> HoldsList(d)) /\ (HoldsRoom(d)' <=> HoldsRoom(d))
    BY <1>b, <2>1, <2>2 DEF HoldsList, HoldsRoom
  <2> QED
    BY <1>a, <1>b, <2>3
<1>1. CASE ConfirmCode(d)
  <2>1. /\ stage[d] = "otp" /\ stage'[d] = "registering" /\ UNCHANGED <<registered, under, sheet>>
    BY <1>1 DEF ConfirmCode
  <2>2. AtForm(d) /\ AtForm(d)'
    BY <2>1 DEF AtForm
  <2> QED
    BY <1>0, <1>b, <2>1, <2>2, DoorStays
<1>2. CASE ServeRegister(d)
  <2>1. /\ stage[d] = "registering" /\ stage'[d] = "answered" /\ UNCHANGED <<under, sheet>>
    BY <1>2 DEF ServeRegister
  <2>2. AtForm(d) /\ AtForm(d)'
    BY <2>1 DEF AtForm
  <2>3. UNCHANGED <<Offers, Blind>> /\ Cleared' = Cleared \cup {d}
    BY <1>b, <1>m, <2>1, <2>2
  <2>4. UNCHANGED Inside
    BY <1>m, <2>1 DEF Inside
  <2>5. choice[d] \in Offers[d]
    BY <1>m, <2>2, ChoiceInOffer
  <2>6. \/ registered' = (registered \ {choice[d]}) \cup {d}
        \/ /\ Cardinality((registered \ {choice[d]}) \cup {d}) > Limit
           /\ UNCHANGED registered
    BY <1>2 DEF ServeRegister
  <2>7. CASE registered' = (registered \ {choice[d]}) \cup {d}
    <3>1. Door!Admit(d)
      BY <2>3, <2>4, <2>5, <2>7 DEF Door!Admit, Offers, Blind, IsBlind, Cleared, Inside
    <3> QED
      BY <3>1 DEF Door!Next
  <2>8. CASE /\ Cardinality((registered \ {choice[d]}) \cup {d}) > Limit
             /\ UNCHANGED registered
    <3>1. Door!Cardinality((registered \ {choice[d]}) \cup {d}) > Limit
      BY <2>8, DoorCounts
    <3>2. Door!Refuse(d)
      BY <2>3, <2>4, <2>5, <2>8, <3>1 DEF Door!Refuse, Offers, Blind, IsBlind, Cleared, Inside
    <3> QED
      BY <3>2 DEF Door!Next
  <2> QED
    BY <2>6, <2>7, <2>8
<1>3. CASE EnterHome(d) \/ EnterRegistered(d)
  <2>1. /\ stage[d] \in {"answered", "isRegistered"} /\ stage'[d] = "home"
        /\ UNCHANGED <<registered, sheet>> /\ under'[d].otp = under[d].otp
        /\ stage[d] = "answered" => under'[d].home = "otp"
        /\ stage[d] = "isRegistered" => under'[d].home = "login"
    BY <1>3 DEF EnterHome, EnterRegistered
  <2>2. UNCHANGED <<Offers, Blind>>
    <3>1. CASE stage[d] = "answered"
      <4>1. AtForm(d) /\ AtForm(d)'
        BY <2>1, <3>1 DEF AtForm
      <4> QED
        BY <1>b, <2>1, <4>1
    <3>2. CASE stage[d] = "isRegistered"
      <4>1. ~AtForm(d) /\ ~AtForm(d)'
        BY <2>1, <3>2 DEF AtForm
      <4>2. (HoldsList(d)' <=> HoldsList(d)) /\ (HoldsRoom(d)' <=> HoldsRoom(d))
        BY <2>1, <3>2, <4>1 DEF HoldsList, HoldsRoom
      <4> QED
        BY <1>a, <2>1, <4>2
    <3> QED
      BY <2>1, <3>1, <3>2
  <2>3. Cleared' = Cleared \ {d} /\ Inside' = Inside \cup {d} /\ d \in Cleared
    BY <1>m, <2>1 DEF Cleared
  <2>4. Door!Enter(d)
    BY <2>1, <2>2, <2>3 DEF Door!Enter, Offers, Blind, IsBlind, Cleared, Inside
  <2> QED
    BY <2>4 DEF Door!Next
<1>4. ASSUME stage'[d] = "otp", UNCHANGED <<registered, under, sheet>>, AtForm(d)
      PROVE  Door!Next
  <2>1. AtForm(d)'
    BY <1>4 DEF AtForm
  <2>2. UNCHANGED <<Offers, Blind>> /\ Cleared' = Cleared \ {d} /\ Inside' = Inside \ {d}
    BY <1>4, <1>b, <1>m, <2>1
  <2>3. Door!StepBack(d)
    BY <1>4, <2>2 DEF Door!StepBack, Offers, Blind, IsBlind, Cleared, Inside
  <2> QED
    BY <2>3 DEF Door!Next
<1>5. CASE RegisterFails(d)
  <2>1. /\ stage[d] \in {"registering", "answered"} /\ stage'[d] = "otp"
        /\ UNCHANGED <<registered, under, sheet>>
    BY <1>5 DEF RegisterFails
  <2> QED
    BY <1>4, <2>1 DEF AtForm
<1>6. CASE BackFromHome(d)
  <2>1. /\ under[d].home \in {"login", "otp"} /\ stage[d] = "home" /\ stage'[d] = under[d].home
        /\ UNCHANGED registered
    BY <1>6 DEF BackFromHome
  <2>2. CASE under[d].home = "login"
    BY <1>0, <2>1, <2>2, LoginForgets DEF Door!Next
  <2>3. CASE under[d].home = "otp"
    <3>1. UNCHANGED <<under, sheet>> /\ AtForm(d)
      BY <1>6, <2>1, <2>3 DEF BackFromHome, AtForm
    <3> QED
      BY <1>4, <2>1, <2>3, <3>1
  <2> QED
    BY <2>1, <2>2, <2>3
<1>7. CASE BackFromOtp(d)
  <2>1. /\ under[d].otp \in {"new", "sheet"} /\ stage[d] = "otp" /\ stage'[d] = under[d].otp
        /\ UNCHANGED <<registered, under, sheet>>
    BY <1>7 DEF BackFromOtp
  <2>2. (HoldsList(d)' <=> HoldsList(d)) /\ (HoldsRoom(d)' <=> HoldsRoom(d))
    BY <2>1 DEF HoldsList, HoldsRoom, AtForm
  <2> QED
    BY <1>0, <1>a, <2>1, <2>2, DoorStays
<1> QED
  BY <1>1, <1>2, <1>3, <1>5, <1>6, <1>7

\* Whatever several devices do between their answers, their dialogs and their
\* forms, they are admitted as Admission.tla says: a device leaves the registry
\* only for one whose user was shown it and ticked it, and no home screen opens
\* before the backend has decided (body.dart:123-158, devOveruse_dialog.dart
\* :26-269, otp_form.dart:229-238).
THEOREM RegistrationImplementsAdmission == Spec => ImplementsAdmission
<1>1. Init => Door!Init
  <2> SUFFICES ASSUME Init PROVE Door!Init
    OBVIOUS
  <2>1. \A d \in Devices : ~HoldsList(d) /\ ~HoldsRoom(d) /\ stage[d] = "login"
    BY DEF Init, HoldsList, HoldsRoom, AtForm
  <2>2. Offers = [d \in Devices |-> {}] /\ Blind = {} /\ Cleared = {} /\ Inside = {}
    BY <2>1 DEF Offers, OfferTo, Blind, IsBlind, Cleared, Inside
  <2>3. registered \in {M \in SUBSET Devices : Door!Cardinality(M) <= Limit}
    BY DoorCounts DEF Init
  <2> QED
    BY <2>2, <2>3 DEF Door!Init, Offers, Blind, IsBlind, Cleared, Inside
<1>2. TypeOK /\ OfferInv /\ [Next]_vars => [Door!Next]_(Door!vars)
  <2> SUFFICES ASSUME TypeOK, OfferInv, [Next]_vars
               PROVE  Door!Next \/ UNCHANGED Door!vars
    OBVIOUS
  <2>1. ASSUME NEW d \in Devices,
               LoginFails(d) \/ SheetFails(d) \/ Dismiss(d) \/ Restart(d)
        PROVE  Door!Next
    <3>1. UNCHANGED registered /\ stage'[d] = "login"
      BY <2>1 DEF LoginFails, SheetFails, Dismiss, Restart, Goes, TypeOK
    <3>2. ASSUME NEW e \in Devices, e # d
          PROVE  stage'[e] = stage[e] /\ under'[e] = under[e] /\ sheet'[e] = sheet[e]
      BY <2>1, <3>2, OthersKeep
    <3>3. Door!Forget(d)
      BY <3>1, <3>2, LoginForgets
    <3> QED
      BY <3>3 DEF Door!Next
  <2>2. ASSUME NEW d \in Devices,
               \/ LoginPressed(d) \/ ServeLogin(d) \/ AskReplace(d) \/ AskNew(d) \/ OveruseOk(d)
        PROVE  Door!Next \/ UNCHANGED Door!vars
    BY <2>2, LoginSteps
  <2>3. ASSUME NEW d \in Devices,
               \/ ServeDevices(d) \/ DevicesNotRead(d) \/ SheetOpens(d)
               \/ (\E i \in {1, 2} : SelectDevice(d, i)) \/ NewOk(d)
        PROVE  Door!Next \/ UNCHANGED Door!vars
    BY <2>3, SheetSteps
  <2>4. ASSUME NEW d \in Devices,
               \/ ConfirmCode(d) \/ ServeRegister(d) \/ EnterHome(d) \/ RegisterFails(d)
               \/ BackFromOtp(d) \/ BackFromHome(d) \/ EnterRegistered(d)
        PROVE  Door!Next \/ UNCHANGED Door!vars
    BY <2>4, FormSteps
  <2>5. CASE UNCHANGED vars
    <3>1. \A d \in Devices : /\ OfferTo(d)' = OfferTo(d)
                             /\ (HoldsList(d)' <=> HoldsList(d))
      BY <2>5 DEF vars, OfferTo, HoldsList, HoldsRoom, AtForm
    <3> QED
      BY <2>5, <3>1 DEF Door!vars, vars
  <2> QED
    BY <2>1, <2>2, <2>3, <2>4, <2>5 DEF Next, Step
<1> QED
  BY <1>1, <1>2, TypeCorrect, OfferInvariant, PTL DEF Spec, ImplementsAdmission, Door!Spec
=============================================================================
