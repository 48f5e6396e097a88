---------------------------- MODULE LoginStorage ----------------------------
(***************************************************************************)
(* The stored login of one device: the auto-login that runs when the login *)
(* screen is first shown (_asyncMethod in lib/screens/login/               *)
(* login_screen.dart) and the LOGIN button of the form under it (lib/      *)
(* screens/login/components/body.dart), over one entry of the phone's      *)
(* secure storage, across restarts of the app.                             *)
(*                                                                         *)
(* Both write the same entry and neither waits for the other: the button   *)
(* stores what was typed before it is checked, the auto-login deletes what *)
(* was refused without awaiting the deletion, and the fields can be edited *)
(* while an answer is on its way.                                          *)
(*                                                                         *)
(* External: the storage plugin carries out its calls in the order they    *)
(* are made and answers each; the login page may answer anything, since    *)
(* the registry behind it is DeviceRegistration's business.                *)
(***************************************************************************)
EXTENDS Integers, Sequences

CONSTANTS
  Logins,      \* what the e-mail and password fields may hold
  WellFormed,  \* those whose e-mail has the form of one
  Blank,       \* both fields empty
  None,        \* no entry in the storage
  Presses      \* bound: presses of LOGIN in flight

ASSUME LoginAssumption == /\ Blank \in Logins \ WellFormed
                          /\ None \notin Logins

VARIABLES
  stored,      \* the entry "login" of the secure storage
  chan,        \* storage calls the plugin has not carried out yet, in order
  typed,       \* the texts of the two fields
  auto,        \* the auto-login of this process
  press,       \* the presses of LOGIN in flight
  routes,      \* the routes above the login screen, the top one first
  entered,     \* history: the login that LOGIN brought home, see below
  erased,      \* history: an auto-login was refused since LOGIN was last pressed
  pressed      \* history: LOGIN was pressed since the app was started

vars == <<stored, chan, typed, auto, press, routes, entered, erased, pressed>>

-----------------------------------------------------------------------------
Entries  == Logins \cup {None}
Verdicts == {"registered", "unregistered", "unexamined"}

Read        == [op |-> "read", login |-> None]
Delete      == [op |-> "delete", login |-> None]
Write(p, l) == [op |-> "write", press |-> p, login |-> l]
Calls       == {Read, Delete} \cup {Write(p, l) : p \in Presses, l \in Logins}

\* "reading" and "rereading": a read is on its way; "read" and "reread": its
\* answer got is; "asking": the login page was asked; "home" and "dead": over.
Autos   == [pc : {"reading", "read", "asking", "rereading", "reread", "home", "dead"},
            got : Entries, login : Entries, verdict : Verdicts \cup {"none"}]
NewAuto == [pc |-> "reading", got |-> None, login |-> None, verdict |-> "none"]

\* wrote: the login stored at the press; sent: the login checked. newest: LOGIN
\* was not pressed again since.
PressStates == [pc : {"idle", "writing", "written", "naming", "asking"},
                wrote : Entries, sent : Entries, newest : BOOLEAN]
NoPress     == [pc |-> "idle", wrote |-> None, sent |-> None, newest |-> FALSE]

\* A home screen is named by its account.
Routes == Logins \cup {"Dialog"}

TypeOK ==
  /\ stored \in Entries
  /\ chan \in Seq(Calls)
  /\ typed \in Logins
  /\ auto \in Autos
  /\ press \in [Presses -> PressStates]
  /\ routes \in Seq(Routes)
  /\ entered \in Entries
  /\ erased \in BOOLEAN
  /\ pressed \in BOOLEAN

-----------------------------------------------------------------------------
(* The storage plugin.                                                     *)

\* External: the oldest call is carried out, and its answer sent.
Serve(c) == chan # <<>> /\ Head(chan) = c /\ chan' = Tail(chan)

ServeRead ==
  /\ Serve(Read)
  /\ auto' = [auto EXCEPT !.got = stored,
                          !.pc = IF @ = "reading" THEN "read" ELSE "reread"]
  /\ UNCHANGED <<stored, typed, press, routes, entered, erased, pressed>>

ServeWrite(p, l) ==
  /\ Serve(Write(p, l))
  /\ stored' = l
  /\ press' = [press EXCEPT ![p] = [@ EXCEPT !.pc = "written"]]
  /\ UNCHANGED <<typed, auto, routes, entered, erased, pressed>>

\* Nobody waits for the answer of a deletion.
ServeDelete ==
  /\ Serve(Delete)
  /\ stored' = None
  /\ UNCHANGED <<typed, auto, press, routes, entered, erased, pressed>>

-----------------------------------------------------------------------------
(* The auto-login.                                                         *)

\* Mutant: a phone without an entry asks the login page all the same.
AutoReadUnchecked ==
  /\ auto.pc = "read"
  /\ auto' = [auto EXCEPT !.pc = "asking", !.login = auto.got]
  /\ UNCHANGED <<stored, chan, typed, press, routes, entered, erased, pressed>>

\* The first answer: the null check throws where there is no entry, and the
\* login page is asked where there is one.
AutoRead ==
  /\ auto.pc = "read"
  /\ auto' = IF auto.got = None THEN [auto EXCEPT !.pc = "dead"]
             ELSE [auto EXCEPT !.pc = "asking", !.login = auto.got]
  /\ UNCHANGED <<stored, chan, typed, press, routes, entered, erased, pressed>>

\* What the auto-login asks of the storage after the verdict v, in one go.
AfterVerdict(v) == IF v = "unregistered" THEN <<Delete, Read>> ELSE <<Read>>

\* Mutant: the login is read again before it is deleted.
AutoAnsweredReadFirst(v) ==
  /\ auto.pc = "asking"
  /\ auto' = [auto EXCEPT !.pc = "rereading", !.verdict = v]
  /\ chan' = chan \o IF v = "unregistered" THEN <<Read, Delete>> ELSE <<Read>>
  /\ erased' = (erased \/ v = "unregistered")
  /\ UNCHANGED <<stored, typed, press, routes, entered, pressed>>

\* Mutant: every answer but a registration deletes the login.
AutoAnsweredStrict(v) ==
  /\ auto.pc = "asking"
  /\ auto' = [auto EXCEPT !.pc = "rereading", !.verdict = v]
  /\ chan' = chan \o IF v # "registered" THEN <<Delete, Read>> ELSE <<Read>>
  /\ erased' = (erased \/ v = "unregistered")
  /\ UNCHANGED <<stored, typed, press, routes, entered, pressed>>

\* The login page answers. "unexamined": a status in 201 .. 399, or an answer
\* without IsRegister; only IsRegister "false" deletes the login, and whether
\* the login itself was right (IsLogin) is not looked at.
AutoAnswered(v) ==
  /\ auto.pc = "asking"
  /\ auto' = [auto EXCEPT !.pc = "rereading", !.verdict = v]
  /\ chan' = chan \o AfterVerdict(v)
  /\ erased' = (erased \/ v = "unregistered")
  /\ UNCHANGED <<stored, typed, press, routes, entered, pressed>>

\* The request fails or its answer does not parse: nobody catches it.
AutoFails ==
  /\ auto.pc = "asking"
  /\ auto' = [auto EXCEPT !.pc = "dead"]
  /\ UNCHANGED <<stored, chan, typed, press, routes, entered, erased, pressed>>

\* The second answer: the home screen of the account read first, over whatever
\* is shown by now; no entry throws.
AutoReread ==
  /\ auto.pc = "reread"
  /\ IF auto.got = None
     THEN auto' = [auto EXCEPT !.pc = "dead"] /\ UNCHANGED routes
     ELSE /\ auto' = [auto EXCEPT !.pc = "home"]
          /\ routes' = <<auto.login>> \o routes
  /\ UNCHANGED <<stored, chan, typed, press, entered, erased, pressed>>

-----------------------------------------------------------------------------
(* The login form.                                                         *)

Type(l) ==
  /\ routes = <<>> /\ l # typed
  /\ typed' = l
  /\ UNCHANGED <<stored, chan, auto, press, routes, entered, erased, pressed>>

\* LOGIN: what is typed is stored first.
Press(p) ==
  /\ routes = <<>> /\ press[p].pc = "idle"
  /\ press' = [q \in Presses |->
                 IF q = p
                 THEN [pc |-> "writing", wrote |-> typed, sent |-> None, newest |-> TRUE]
                 ELSE [press[q] EXCEPT !.newest = FALSE]]
  /\ chan' = Append(chan, Write(p, typed))
  /\ entered' = None
  /\ erased' = FALSE
  /\ pressed' = TRUE
  /\ UNCHANGED <<stored, typed, auto, routes>>

\* The write was answered: the form of the e-mail in the field now decides.
Written(p) ==
  /\ press[p].pc = "written"
  /\ IF typed \in WellFormed
     THEN press' = [press EXCEPT ![p] = [@ EXCEPT !.pc = "naming"]] /\ UNCHANGED routes
     ELSE press' = [press EXCEPT ![p] = NoPress] /\ routes' = <<"Dialog">> \o routes
  /\ UNCHANGED <<stored, chan, typed, auto, entered, erased, pressed>>

\* The device's id is known: the texts of this moment go to the login page.
Named(p) ==
  /\ press[p].pc = "naming"
  /\ press' = [press EXCEPT ![p] = [@ EXCEPT !.pc = "asking", !.sent = typed]]
  /\ UNCHANGED <<stored, chan, typed, auto, routes, entered, erased, pressed>>

\* IsLogin and IsRegister are "true": the home screen of the e-mail in the field
\* at this moment. entered keeps the login if this was the last press and the
\* fields are what they were at it.
EnterHome(p) ==
  /\ press[p].pc = "asking"
  /\ routes' = <<typed>> \o routes
  /\ entered' = IF press[p].newest /\ press[p].wrote = typed /\ press[p].sent = typed
                THEN typed ELSE entered
  /\ press' = [press EXCEPT ![p] = NoPress]
  /\ UNCHANGED <<stored, chan, typed, auto, erased, pressed>>

\* Wrong login, or a device to be registered: a dialog.
AskDialog(p) ==
  /\ press[p].pc = "asking"
  /\ routes' = <<"Dialog">> \o routes
  /\ press' = [press EXCEPT ![p] = NoPress]
  /\ UNCHANGED <<stored, chan, typed, auto, entered, erased, pressed>>

\* A status in 201 .. 399, a failed request, an answer that does not parse.
PressFails(p) ==
  /\ press[p].pc = "asking"
  /\ press' = [press EXCEPT ![p] = NoPress]
  /\ UNCHANGED <<stored, chan, typed, auto, routes, entered, erased, pressed>>

\* A dialog is closed, or the phone's back button leaves a home screen.
Leave ==
  /\ routes # <<>>
  /\ routes' = Tail(routes)
  /\ UNCHANGED <<stored, chan, typed, auto, press, entered, erased, pressed>>

\* The app is killed and started again: calls the plugin has not carried out
\* are lost, what it has stored stays, and the auto-login reads it.
Restart ==
  /\ chan' = <<Read>>
  /\ typed' = Blank
  /\ auto' = NewAuto
  /\ press' = [p \in Presses |-> NoPress]
  /\ routes' = <<>>
  /\ pressed' = FALSE
  /\ UNCHANGED <<stored, entered, erased>>

-----------------------------------------------------------------------------
Init ==
  /\ stored \in Entries
  /\ chan = <<Read>>
  /\ typed = Blank
  /\ auto = NewAuto
  /\ press = [p \in Presses |-> NoPress]
  /\ routes = <<>>
  /\ entered = None
  /\ erased = FALSE
  /\ pressed = FALSE

Next ==
  \/ ServeRead
  \/ \E p \in Presses, l \in Logins : ServeWrite(p, l)
  \/ ServeDelete
  \/ AutoRead
  \/ \E v \in Verdicts : AutoAnswered(v)
  \/ AutoFails
  \/ AutoReread
  \/ \E l \in Logins : Type(l)
  \/ \E p \in Presses : Press(p)
  \/ \E p \in Presses : Written(p)
  \/ \E p \in Presses : Named(p)
  \/ \E p \in Presses : EnterHome(p)
  \/ \E p \in Presses : AskDialog(p)
  \/ \E p \in Presses : PressFails(p)
  \/ Leave
  \/ Restart

Spec == Init /\ [][Next]_vars

-----------------------------------------------------------------------------
(* Properties.                                                             *)

\* An auto-login that was told its device is not registered never opens the
\* home screen, although the deletion is not awaited and LOGIN may be storing a
\* login at that very moment (login_screen.dart:67-86): no write comes between
\* the deletion and the second read.
DeniedNeverEnters == auto.verdict = "unregistered" => auto.pc # "home"

\* A login that LOGIN brought home is what the next start of the app will find,
\* whatever older presses and the auto-login do to the entry meanwhile, unless
\* LOGIN was pressed again or an auto-login was refused after the press: its
\* late deletion erases the login that was just accepted (login_screen.dart:70,
\* body.dart:75).
RememberedUnlessErased == entered # None => stored = entered \/ erased

\* Until LOGIN is pressed the auto-login is alone: it opens one home screen at
\* most, and it is that of the login still stored when the second read was
\* answered and ever after (login_screen.dart:33-86). Once LOGIN is pressed it
\* is not so: the account read first is pushed over whatever LOGIN has shown.
AutoHomeIsStored == ~pressed => routes \in {<<>>, <<stored>>}
=============================================================================
