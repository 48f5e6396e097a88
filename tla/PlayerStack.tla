----------------------------- MODULE PlayerStack -----------------------------
(***************************************************************************)
(* The Navigator's stack of one device over the home screen: messages of   *)
(* the web page, overload dialogs, startPlayer calls that wait for their   *)
(* list, the players they push (lib/screens/home_screen.dart), and the     *)
(* pops of those players' refused checks (media_control.dart).             *)
(*                                                                         *)
(* Nothing stops the page from sending a second message, and nothing ties  *)
(* a push or a pop to the route it was meant for: startPlayer pushes onto, *)
(* and getLastLog pops, whatever is on top when its answer arrives.        *)
(*                                                                         *)
(* What a check is answered is left open here; ViewerSession says when it  *)
(* is a refusal, LecturePlayer what it does inside one player.             *)
(***************************************************************************)
EXTENDS Integers, Sequences

CONSTANTS
  Players,     \* bound: MediaControl states that exist at the same time
  Slots,       \* bound: checks a player may have in flight
  MaxStarts    \* bound: messages and startPlayer calls in flight at a click

ASSUME PlayersAssumption == Players \cap {"Home", "Login", "Confirm", "Ended"} = {}

VARIABLES
  routes,      \* the Navigator's routes, the top one first
  life,        \* the states of the players and of the home screen
  page,        \* messages of the web page on their way
  listing,     \* startPlayer calls that wait for their list
  check,       \* getLastLog requests, by player and slot
  told,        \* history: the players whose refusal ran its course
  overlapped   \* history: a start was not pushed onto the home screen

vars == <<routes, life, page, listing, check, told, overlapped>>

-----------------------------------------------------------------------------
Screens == Players \cup {"Home"}
Routes  == Screens \cup {"Login", "Confirm", "Ended"}

\* "exiting": popped, and mounted until its exit transition is over.
Lives == {"open", "exiting", "gone"}

TypeOK ==
  /\ routes \in Seq(Routes)
  /\ life \in [Screens -> Lives]
  /\ page \in Nat
  /\ listing \in Nat
  /\ check \in [Players -> [Slots -> {"idle", "asked", "refused"}]]
  /\ told \subseteq Players
  /\ overlapped \in BOOLEAN

OnTop(r) == routes # <<>> /\ Head(routes) = r
NoChecks == [s \in Slots |-> "idle"]

\* Navigator.pop of the top route, and new on top of what is left.
PopAndPush(new) ==
  /\ routes' = new \o Tail(routes)
  /\ life' = IF Head(routes) \in Screens
             THEN [life EXCEPT ![Head(routes)] = "exiting"] ELSE life

-----------------------------------------------------------------------------
(* The home screen.                                                        *)

\* The viewer touches a lecture of the page; its message takes its time.
Click ==
  /\ OnTop("Home") /\ page + listing < MaxStarts
  /\ page' = page + 1
  /\ UNCHANGED <<routes, life, listing, check, told, overlapped>>

\* onMessageReceived with "overload": the dialog, over whatever is on top.
AskOverload ==
  /\ page > 0 /\ life["Home"] # "gone" /\ routes # <<>>
  /\ page' = page - 1
  /\ routes' = <<"Confirm">> \o routes
  /\ overlapped' = (overlapped \/ ~OnTop("Home"))
  /\ UNCHANGED <<life, listing, check, told>>

\* onMessageReceived without "overload": startPlayer asks for the list.
StartPlayer ==
  /\ page > 0 /\ life["Home"] # "gone"
  /\ page' = page - 1
  /\ listing' = listing + 1
  /\ UNCHANGED <<routes, life, check, told, overlapped>>

ConfirmYes ==
  /\ OnTop("Confirm")
  /\ PopAndPush(<<>>)
  /\ listing' = listing + 1
  /\ UNCHANGED <<page, check, told, overlapped>>

\* The list is here: Navigator.push, and initState starts the first check.
ListAnswered(i, s) ==
  /\ listing > 0 /\ life["Home"] # "gone" /\ routes # <<>>
  /\ life[i] = "gone" /\ check[i] = NoChecks
  /\ listing' = listing - 1
  /\ routes' = <<i>> \o routes
  /\ life' = [life EXCEPT ![i] = "open"]
  /\ check' = [check EXCEPT ![i][s] = "asked"]
  /\ told' = told \ {i}
  /\ overlapped' = (overlapped \/ ~OnTop("Home"))
  /\ UNCHANGED page

\* Mutant: a start is given up that was answered already.
ListFailsAnyway ==
  /\ listing' = listing - 1
  /\ UNCHANGED <<routes, life, page, check, told, overlapped>>

\* The request fails, or its home screen is gone and has no context.
ListFails ==
  /\ listing > 0
  /\ listing' = listing - 1
  /\ UNCHANGED <<routes, life, page, check, told, overlapped>>

-----------------------------------------------------------------------------
(* The players.                                                            *)

\* Previous or next lecture: one more initPlayer.
ChangeLecture(i, s) ==
  /\ OnTop(i) /\ check[i][s] = "idle"
  /\ check' = [check EXCEPT ![i][s] = "asked"]
  /\ UNCHANGED <<routes, life, page, listing, told, overlapped>>

\* The check names this device, or the request fails: no route is touched.
CheckHarmless(i, s) ==
  /\ check[i][s] = "asked"
  /\ check' = [check EXCEPT ![i][s] = "idle"]
  /\ UNCHANGED <<routes, life, page, listing, told, overlapped>>

CheckRefused(i, s) ==
  /\ check[i][s] = "asked"
  /\ check' = [check EXCEPT ![i][s] = "refused"]
  /\ UNCHANGED <<routes, life, page, listing, told, overlapped>>

\* Mutant: the dialog is shown over a player that is not popped.
EndLectureWithoutPop(i, s) ==
  /\ check[i][s] = "refused"
  /\ check' = [check EXCEPT ![i][s] = "idle"]
  /\ IF life[i] # "gone" /\ routes # <<>>
     THEN routes' = <<"Ended">> \o routes /\ told' = told \cup {i}
     ELSE UNCHANGED <<routes, told>>
  /\ UNCHANGED <<life, page, listing, overlapped>>

\* Mutant: the navigator is reached without the state's context.
EndLectureUnmounted(i, s) ==
  /\ check[i][s] = "refused"
  /\ check' = [check EXCEPT ![i][s] = "idle"]
  /\ IF routes # <<>>
     THEN PopAndPush(<<"Ended">>) /\ told' = told \cup {i}
     ELSE UNCHANGED <<routes, life, told>>
  /\ UNCHANGED <<page, listing, overlapped>>

\* getLastLog goes on after a refusal: Navigator.pop of the top route, whoever
\* it belongs to, and the "lecture ended" dialog. Once the state is disposed
\* its context throws.
EndLecture(i, s) ==
  /\ check[i][s] = "refused"
  /\ check' = [check EXCEPT ![i][s] = "idle"]
  /\ IF life[i] # "gone" /\ routes # <<>>
     THEN PopAndPush(<<"Ended">>) /\ told' = told \cup {i}
     ELSE UNCHANGED <<routes, life, told>>
  /\ UNCHANGED <<page, listing, overlapped>>

-----------------------------------------------------------------------------
\* The viewer leaves the top route: the player's arrow, the "no" of the
\* overload dialog, the OK of the other one, the phone's back button.
Leave ==
  /\ routes # <<>>
  /\ PopAndPush(<<>>)
  /\ UNCHANGED <<page, listing, check, told, overlapped>>

\* An exit transition is over. The page goes with the home screen.
Disposed(r) ==
  /\ life[r] = "exiting"
  /\ life' = [life EXCEPT ![r] = "gone"]
  /\ page' = IF r = "Home" THEN 0 ELSE page
  /\ UNCHANGED <<routes, listing, check, told, overlapped>>

Init ==
  /\ routes = <<"Home", "Login">>
  /\ life = [r \in Screens |-> IF r = "Home" THEN "open" ELSE "gone"]
  /\ page = 0
  /\ listing = 0
  /\ check = [i \in Players |-> NoChecks]
  /\ told = {}
  /\ overlapped = FALSE

\* The app is killed and started again; nothing of the stack survives.
Restart ==
  /\ routes' = <<"Home", "Login">>
  /\ life' = [r \in Screens |-> IF r = "Home" THEN "open" ELSE "gone"]
  /\ page' = 0 /\ listing' = 0
  /\ check' = [i \in Players |-> NoChecks]
  /\ told' = {}
  /\ overlapped' = FALSE

Next ==
  \/ Click
  \/ AskOverload
  \/ StartPlayer
  \/ ConfirmYes
  \/ \E i \in Players, s \in Slots : ListAnswered(i, s)
  \/ ListFails
  \/ \E i \in Players, s \in Slots : ChangeLecture(i, s)
  \/ \E i \in Players, s \in Slots : CheckHarmless(i, s)
  \/ \E i \in Players, s \in Slots : CheckRefused(i, s)
  \/ \E i \in Players, s \in Slots : EndLecture(i, s)
  \/ Leave
  \/ \E r \in Screens : Disposed(r)
  \/ Restart

Spec == Init /\ [][Next]_vars

-----------------------------------------------------------------------------
(* Properties.                                                             *)

\* Starts that come one after the other are ended one by one: a player whose
\* refusal ran its course is open only if two starts overlapped, however many
\* checks and exit transitions of earlier players were under way
\* (media_control.dart:499-505, home_screen.dart:62-98).
RefusedPlayerLeaves == ~overlapped => \A i \in told : life[i] # "open"

\* However many players are stacked, the home screen is popped only by its own
\* viewer, or by the refusal of a player that was popped already and whose exit
\* transition is not over (media_control.dart:500 and :504).
HomeLostOnlyWhileExiting ==
  [][life["Home"] = "open" /\ life'["Home"] = "exiting"
       => \/ routes' = Tail(routes)
          \/ \E i \in Players, s \in Slots :
               life[i] = "exiting" /\ check[i][s] = "refused" /\ check'[i][s] = "idle"]_vars
=============================================================================
