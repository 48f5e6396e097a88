-------------------------- MODULE OtpVerification --------------------------
(***************************************************************************)
(* The one-time code of one device and account: the code forms that are    *)
(* opened and the messages they have sent (lib/screens/otp/otp_screen.dart,*)
(* lib/screens/otp/components/body.dart and otp_form.dart), up to the home *)
(* screen or the wrong-code dialog.                                        *)
(*                                                                         *)
(* Each form asks for one message when it is created, and "resend" opens a *)
(* second form above the first. Whichever message is reported sent last    *)
(* sets the one global verificationId1, and the confirm button reads it    *)
(* whatever form it belongs to. The button stays enabled while its         *)
(* requests are under way, and so does "resend".                           *)
(*                                                                         *)
(* External: Firebase sends a message or not, in any order, and refuses    *)
(* every code but the one that goes with the id it is given; it may refuse *)
(* that one too (used up or expired).                                      *)
(***************************************************************************)
EXTENDS Integers, Sequences

CONSTANTS
  MaxForms,    \* bound: code forms opened in all
  Presses      \* bound: presses of the confirm button in flight

ASSUME OtpAssumption == MaxForms \in Nat

VARIABLES
  android,         \* the phone is an Android phone
  opened,          \* code forms opened so far
  exchange,        \* how far the message of each form has come
  verificationId1, \* the form whose message set the global id, 0 for ""
  press,           \* the presses of the confirm button in flight
  routes,          \* the routes above the login's, the top one first
  mounted,         \* forms in the tree, a popped one until its transition ends
  hasty,           \* history: a message was asked for while one was under way
  doubled          \* history: a press was made while one was in flight

vars == <<android, opened, exchange, verificationId1, press, routes, mounted, hasty, doubled>>

-----------------------------------------------------------------------------
Forms == 1 .. MaxForms

\* "asking": the phone number was asked for; "sending": Firebase was asked;
\* "sent": the message is out, codeSent is on its way; "told": codeSent ran.
Exchanges == {"none", "asking", "sending", "sent", "told", "over"}
UnderWay  == {"asking", "sending", "sent"}

PressStates == [pc : {"idle", "signing", "naming", "registering"},
                form : 0 .. MaxForms, code : 0 .. MaxForms, id : 0 .. MaxForms]
NoPress     == [pc |-> "idle", form |-> 0, code |-> 0, id |-> 0]
InFlight(p) == press[p].pc # "idle"

FormRoute(i) == [screen |-> "form", form |-> i]
Dialog       == [screen |-> "dialog", form |-> 0]
Home         == [screen |-> "home", form |-> 0]
Routes       == [screen : {"form", "dialog", "home"}, form : 0 .. MaxForms]
FormOnTop    == routes # <<>> /\ Head(routes).screen = "form"

TypeOK ==
  /\ android \in BOOLEAN
  /\ opened \in 0 .. MaxForms
  /\ exchange \in [Forms -> Exchanges]
  /\ verificationId1 \in 0 .. opened
  /\ press \in [Presses -> PressStates]
  /\ routes \in Seq(Routes)
  /\ mounted \subseteq 1 .. opened
  /\ hasty \in BOOLEAN
  /\ doubled \in BOOLEAN

-----------------------------------------------------------------------------
(* The messages.                                                           *)

\* A code form is pushed; its initState asks for a message.
OpenForm ==
  /\ opened < MaxForms
  /\ opened' = opened + 1
  /\ exchange' = [exchange EXCEPT ![opened + 1] = "asking"]
  /\ routes' = <<FormRoute(opened + 1)>> \o routes
  /\ mounted' = mounted \cup {opened + 1}
  /\ hasty' = (hasty \/ \E i \in Forms : exchange[i] \in UnderWay)
  /\ UNCHANGED <<android, verificationId1, press, doubled>>

\* From the registration dialogs of the login.
Open == routes = <<>> /\ OpenForm

\* The link under the form: the same screen once more, above.
Resend == FormOnTop /\ OpenForm

Advance(i, from, to) ==
  /\ exchange[i] = from
  /\ exchange' = [exchange EXCEPT ![i] = to]
  /\ UNCHANGED <<android, opened, press, routes, mounted, hasty, doubled>>

\* The phone number is known. Only a status outside 201 .. 399 goes on; there,
\* and where the request or the parse fails, nothing is sent and nothing shown.
UserInfo(i)      == Advance(i, "asking", "sending") /\ UNCHANGED verificationId1
UserInfoFails(i) == Advance(i, "asking", "over") /\ UNCHANGED verificationId1

\* External: Firebase sends the message, or verificationFailed is called.
Dispatch(i)   == Advance(i, "sending", "sent") /\ UNCHANGED verificationId1
SendFails(i)  == Advance(i, "sending", "over") /\ UNCHANGED verificationId1

\* Mutant: the first message's id is kept.
CodeSentOnce(i) ==
  /\ Advance(i, "sent", "told")
  /\ verificationId1' = IF verificationId1 = 0 THEN i ELSE verificationId1

\* Mutant: the resending token, codeSent's other argument, is kept as the id.
CodeSentToken(i) == Advance(i, "sent", "told") /\ verificationId1' = MaxForms + i

\* codeSent: the id goes to the global, whether or not the form is still there.
CodeSent(i) == Advance(i, "sent", "told") /\ verificationId1' = i

-----------------------------------------------------------------------------
(* The confirm button.                                                     *)

\* Codes the user can type: one of a message that was sent, or a wrong one (0).
Codes == {i \in Forms : exchange[i] \in {"sent", "told"}} \cup {0}

\* The code and the global id of this moment are sent to Firebase.
Confirm(p, c) ==
  /\ ~InFlight(p) /\ c \in Codes
  /\ FormOnTop
  /\ press' = [press EXCEPT ![p] = [pc |-> "signing", form |-> Head(routes).form,
                                    code |-> c, id |-> verificationId1]]
  /\ doubled' = (doubled \/ \E q \in Presses : InFlight(q))
  /\ UNCHANGED <<android, opened, exchange, verificationId1, routes, mounted, hasty>>

Proceed(p, from, to) ==
  /\ press[p].pc = from
  /\ press' = [press EXCEPT ![p] = [@ EXCEPT !.pc = to]]
  /\ UNCHANGED <<android, opened, exchange, verificationId1, routes, mounted, hasty, doubled>>

\* Mutant: the sign-in is not awaited.
SignedInUnawaited(p) == Proceed(p, "signing", "naming")

Accepted(p)  == press[p].pc = "signing" /\ press[p].code = press[p].id /\ press[p].id # 0
SignedIn(p)  == Accepted(p) /\ Proceed(p, "signing", "naming")
NameKnown(p) == ~android /\ Proceed(p, "naming", "registering")

\* Accepted with no user named: the test has no else, and the press is over.
NoUser(p) ==
  /\ Accepted(p)
  /\ press' = [press EXCEPT ![p] = NoPress]
  /\ UNCHANGED <<android, opened, exchange, verificationId1, routes, mounted, hasty, doubled>>

\* The press is over and shows the route r, whatever is on top by now. The
\* context of a form that is gone throws, in the handler too: nothing is shown.
Finish(p, r) ==
  /\ press' = [press EXCEPT ![p] = NoPress]
  /\ routes' = IF press[p].form \in mounted THEN <<r>> \o routes ELSE routes
  /\ UNCHANGED <<android, opened, exchange, verificationId1, mounted, hasty, doubled>>

\* Mutant: the handler logs the exception and shows nothing.
NameThrowsSilently(p) ==
  /\ android /\ press[p].pc = "naming"
  /\ press' = [press EXCEPT ![p] = NoPress]
  /\ UNCHANGED <<android, opened, exchange, verificationId1, routes, mounted, hasty, doubled>>

\* Mutant: home is shown while the registration is still under way.
RegisteredUnawaited(p) ==
  /\ press[p].pc = "registering" /\ press[p].form \in mounted
  /\ routes' = <<Home>> \o routes
  /\ UNCHANGED <<android, opened, exchange, verificationId1, press, mounted, hasty, doubled>>

Refused(p)       == press[p].pc = "signing" /\ Finish(p, Dialog)
\* iosInfo has no answer on an Android phone: it throws.
NameThrows(p)    == android /\ press[p].pc = "naming" /\ Finish(p, Dialog)
RegisterFails(p) == press[p].pc = "registering" /\ Finish(p, Dialog)
\* Whatever the registration's answer says.
Registered(p)    == press[p].pc = "registering" /\ Finish(p, Home)

-----------------------------------------------------------------------------
(* Leaving.                                                                *)

\* A dialog is closed, or the back button leaves a screen.
Back ==
  /\ routes # <<>>
  /\ routes' = Tail(routes)
  /\ UNCHANGED <<android, opened, exchange, verificationId1, press, mounted, hasty, doubled>>

\* The exit transition of a popped form is over.
Disposed(f) ==
  /\ f \in mounted /\ \A n \in 1 .. Len(routes) : routes[n] # FormRoute(f)
  /\ mounted' = mounted \ {f}
  /\ UNCHANGED <<android, opened, exchange, verificationId1, press, routes, hasty, doubled>>

\* The app is killed and started again: no answer finds it, the global is "".
Restart ==
  /\ exchange' = [i \in Forms |-> IF i <= opened THEN "over" ELSE "none"]
  /\ verificationId1' = 0
  /\ press' = [p \in Presses |-> NoPress]
  /\ routes' = <<>>
  /\ mounted' = {}
  /\ hasty' = FALSE
  /\ doubled' = FALSE
  /\ UNCHANGED <<android, opened>>

-----------------------------------------------------------------------------
Init ==
  /\ android \in BOOLEAN
  /\ opened = 0
  /\ exchange = [i \in Forms |-> "none"]
  /\ verificationId1 = 0
  /\ press = [p \in Presses |-> NoPress]
  /\ routes = <<>>
  /\ mounted = {}
  /\ hasty = FALSE
  /\ doubled = FALSE

\* The rest of a press, once the button was pressed.
Answer(p) == \/ SignedIn(p) \/ NoUser(p) \/ Refused(p) \/ NameKnown(p) \/ NameThrows(p)
             \/ Registered(p) \/ RegisterFails(p)

Next ==
  \/ Open \/ Resend
  \/ \E i \in Forms : UserInfo(i)
  \/ \E i \in Forms : UserInfoFails(i)
  \/ \E i \in Forms : Dispatch(i)
  \/ \E i \in Forms : SendFails(i)
  \/ \E i \in Forms : CodeSent(i)
  \/ \E p \in Presses, c \in 0 .. MaxForms : Confirm(p, c)
  \/ \E p \in Presses : Answer(p)
  \/ Back
  \/ \E f \in Forms : Disposed(f)
  \/ Restart

Spec == Init /\ [][Next]_vars

-----------------------------------------------------------------------------
(* Properties.                                                             *)

\* The global id is that of the newest message reported sent, so that the code
\* the user got last is the one that counts, unless a message was asked for
\* while an older one was still under way (otp_form.dart:16, 287-290).
LastMessageCounts ==
  hasty \/ \A i \in Forms : exchange[i] = "told" => i <= verificationId1

\* Nothing is shown above the home screen the code opened, no wrong-code dialog
\* and no second home screen, unless the button was pressed again before the
\* first press was over (otp_form.dart:188-249: it is never disabled).
HomeStaysOnTop ==
  doubled \/ \A n \in 2 .. Len(routes) : routes[n] # Home

\* The form lets nobody in without a message: while a home screen it opened is
\* on the stack, the message of some form was reported sent since the app was
\* started, however many forms were closed and codes guessed meanwhile. On an
\* Android phone it lets nobody in at all: iosInfo is asked for on either
\* platform (otp_form.dart:196-237).
HomeNeedsCode ==
  (\E n \in 1 .. Len(routes) : routes[n] = Home)
    => ~android /\ \E i \in Forms : exchange[i] = "told"

\* What a step of press p puts on the screen, over what was there.
Shows(p, r) == InFlight(p) /\ ~InFlight(p)' /\ routes' = <<r>> \o routes

\* No outcome is silent: a press that ends puts the home screen or the dialog
\* over what is on the screen, whatever failed or threw, unless its form was
\* gone, Firebase accepted the code and named no user, or the app was killed
\* (otp_form.dart:196-249, 209 without an else).
EndIsShown ==
  [][\A p \in Presses :
       InFlight(p) /\ ~InFlight(p)' =>
         \/ \E r \in {Dialog, Home} : Shows(p, r)
         \/ press[p].form \notin mounted
         \/ Accepted(p) /\ UNCHANGED routes
         \/ mounted' = {} /\ routes' = <<>>]_vars
=============================================================================
