---------------------------- MODULE ViewerSession ----------------------------
(***************************************************************************)
(* The rule that an account watches on one device at a time: the home      *)
(* screens (lib/screens/home_screen.dart) and players (media_control.dart) *)
(* of several registered devices of one account against the backend's      *)
(* viewing log.                                                            *)
(*                                                                         *)
(* The devices never hear of each other. A device reads the log when a     *)
(* lecture is clicked (the page sends "overload" or not) and again each    *)
(* time initPlayer runs; between those moments any other device may claim  *)
(* the log, and the answers and the closing reports arrive in any order.   *)
(*                                                                         *)
(* External, modelled from how the code uses it: the page sends "overload" *)
(* exactly when the log names another device; the list request, which      *)
(* carries uid and uuid, makes its device the viewer; a report with        *)
(* fin = 'Y' from the viewer clears the log.                               *)
(***************************************************************************)
EXTENDS Integers, Sequences

CONSTANTS
  Devices,     \* the registered devices of the account
  None,        \* CurrentState "none": nobody is watching
  Slots,       \* bound: checks a device may have in flight
  MaxClaims    \* bound: list requests the backend serves

ASSUME NoneAssumption  == None \notin Devices
ASSUME BoundAssumption == MaxClaims \in Nat

VARIABLES
  viewer,      \* external: the device the viewing log names, or None
  ui,          \* what each device shows
  player,      \* the claim behind the mounted MediaControl state, 0 if none
  check,       \* getLastLog requests, by device and slot
  bye,         \* whether a report with fin = 'Y' is on its way
  confirmed,   \* history: this start was confirmed in the overload dialog
  seen,        \* history: claims served when the lecture was clicked
  owner,       \* history: the devices whose list requests were served, in order
  grant,       \* history: the last check the app took for a permission to go on
  failed       \* history: the player on the screen lost the answer of a check

vars == <<viewer, ui, player, check, bye, confirmed, seen, owner, grant, failed>>

-----------------------------------------------------------------------------
Claims == 0 .. MaxClaims

\* "listing": the list request is on its way; "listed": its answer is;
\* "ended": the "lecture ended" dialog over the home screen;
\* "out": the home screen itself was popped.
Screens == {"home", "asking", "listing", "listed", "player", "ended", "out"}

\* of: the player that asked; holder, at: the log's device and the number of
\* claims when the backend answered.
Checks    == [pc : {"idle", "asked", "answered"}, of : Claims,
              holder : Devices \cup {None}, at : Claims]
IdleCheck == [pc |-> "idle", of |-> 0, holder |-> None, at |-> 0]

Grants  == [claim : Claims, device : Devices \cup {None}]
NoGrant == [claim |-> 0, device |-> None]

TypeOK ==
  /\ viewer \in Devices \cup {None}
  /\ ui \in [Devices -> Screens]
  /\ player \in [Devices -> Claims]
  /\ check \in [Devices -> [Slots -> Checks]]
  /\ bye \in [Devices -> BOOLEAN]
  /\ confirmed \in [Devices -> BOOLEAN]
  /\ seen \in [Devices -> Claims]
  /\ owner \in Seq(Devices) /\ Len(owner) <= MaxClaims
  /\ grant \in Grants
  /\ failed \in [Devices -> BOOLEAN]

-----------------------------------------------------------------------------
(* The home screen.                                                        *)

\* The histories of a start are kept until it succeeds or is given up.
ForgetStart(d) == /\ confirmed' = [confirmed EXCEPT ![d] = FALSE]
                  /\ seen' = [seen EXCEPT ![d] = 0]

\* Mutant: the "overload" field of the message is not looked at.
ClickLectureUnasked(d) ==
  /\ ui[d] = "home" /\ player[d] = 0
  /\ seen' = [seen EXCEPT ![d] = Len(owner)]
  /\ confirmed' = [confirmed EXCEPT ![d] = FALSE]
  /\ ui' = [ui EXCEPT ![d] = "listing"]
  /\ UNCHANGED <<viewer, player, check, bye, owner, grant, failed>>

\* A lecture is clicked and the page's message arrives: the dialog if another
\* device is watching, startPlayer otherwise.
ClickLecture(d) ==
  /\ ui[d] = "home" /\ player[d] = 0
  /\ seen' = [seen EXCEPT ![d] = Len(owner)]
  /\ confirmed' = [confirmed EXCEPT ![d] = FALSE]
  /\ ui' = [ui EXCEPT ![d] = IF viewer \in {None, d} THEN "listing" ELSE "asking"]
  /\ UNCHANGED <<viewer, player, check, bye, owner, grant, failed>>

ConfirmYes(d) ==
  /\ ui[d] = "asking"
  /\ confirmed' = [confirmed EXCEPT ![d] = TRUE]
  /\ ui' = [ui EXCEPT ![d] = "listing"]
  /\ UNCHANGED <<viewer, player, check, bye, seen, owner, grant, failed>>

ConfirmNo(d) ==
  /\ ui[d] = "asking"
  /\ ui' = [ui EXCEPT ![d] = "home"]
  /\ ForgetStart(d)
  /\ UNCHANGED <<viewer, player, check, bye, owner, grant, failed>>

\* External: the backend serves the list request and writes the log.
ServeList(d) ==
  /\ ui[d] = "listing" /\ Len(owner) < MaxClaims
  /\ viewer' = d
  /\ owner' = Append(owner, d)
  /\ ui' = [ui EXCEPT ![d] = "listed"]
  /\ UNCHANGED <<player, check, bye, confirmed, seen, grant, failed>>

\* initPlayer reaches its first await: check_log is asked for.
Ask(d, k) == [pc |-> "asked", of |-> k, holder |-> None, at |-> 0]

\* Mutant: the list is not awaited before the player is pushed.
OpenPlayerUnlisted(d, s) ==
  /\ ui[d] \in {"listing", "listed"} /\ check[d][s].pc = "idle"
  /\ player' = [player EXCEPT ![d] = Len(owner)]
  /\ check' = [check EXCEPT ![d][s] = Ask(d, Len(owner))]
  /\ ui' = [ui EXCEPT ![d] = "player"]
  /\ failed' = [failed EXCEPT ![d] = FALSE]
  /\ ForgetStart(d)
  /\ UNCHANGED <<viewer, bye, owner, grant>>

\* The answer is here: Navigator.push, and initState starts the first check.
OpenPlayer(d, s) ==
  /\ ui[d] = "listed" /\ check[d][s].pc = "idle"
  /\ \E k \in 1 .. Len(owner) :
       /\ owner[k] = d /\ \A j \in k + 1 .. Len(owner) : owner[j] # d
       /\ player' = [player EXCEPT ![d] = k]
       /\ check' = [check EXCEPT ![d][s] = Ask(d, k)]
  /\ ui' = [ui EXCEPT ![d] = "player"]
  /\ failed' = [failed EXCEPT ![d] = FALSE]
  /\ ForgetStart(d)
  /\ UNCHANGED <<viewer, bye, owner, grant>>

\* The request or its answer is lost: startPlayer throws and nothing is shown.
ListFails(d) ==
  /\ ui[d] \in {"listing", "listed"}
  /\ ui' = [ui EXCEPT ![d] = "home"]
  /\ ForgetStart(d)
  /\ UNCHANGED <<viewer, player, check, bye, owner, grant, failed>>

-----------------------------------------------------------------------------
(* The player.                                                             *)

\* Previous or next lecture: one more initPlayer. Nothing else asks the log,
\* the auto-play of the next video included.
ChangeLecture(d, s) ==
  /\ ui[d] = "player" /\ check[d][s].pc = "idle"
  /\ check' = [check EXCEPT ![d][s] = Ask(d, player[d])]
  /\ UNCHANGED <<viewer, ui, player, bye, confirmed, seen, owner, grant, failed>>

\* External: the backend answers with what the log holds at this moment.
ServeCheck(d, s) ==
  /\ check[d][s].pc = "asked"
  /\ check' = [check EXCEPT ![d][s] =
                  [@ EXCEPT !.pc = "answered", !.holder = viewer, !.at = Len(owner)]]
  /\ UNCHANGED <<viewer, ui, player, bye, confirmed, seen, owner, grant, failed>>

\* Mutant: once the player is gone the next refusal adds a dialog, and no
\* longer pops the first.
AfterRefusalStacked(d) ==
  CASE ui[d] = "player" -> "ended"
    [] ui[d] = "ended"  -> "ended twice"
    [] OTHER            -> "out"

\* What the pop of a refused player's task leaves on the screen: its own route
\* goes, or the dialog an earlier refusal put there, or the home screen.
AfterRefusal(d) ==
  CASE ui[d] \in {"player", "ended"} -> "ended"
    [] OTHER                         -> "out"

\* Mutant: only the expired session is looked for, not the other device.
HandleCheckAnyDevice(d, s) ==
  LET c == check[d][s] IN
  /\ c.pc = "answered"
  /\ check' = [check EXCEPT ![d][s] = IdleCheck]
  /\ IF c.holder # None
     THEN grant' = [claim |-> c.at, device |-> d] /\ UNCHANGED ui
     ELSE /\ ui' = IF player[d] # 0 /\ player[d] = c.of
                   THEN [ui EXCEPT ![d] = AfterRefusal(d)] ELSE ui
          /\ UNCHANGED grant
  /\ UNCHANGED <<viewer, player, bye, confirmed, seen, owner, failed>>

\* Mutant: the user is told and the player stays.
HandleCheckWithoutPop(d, s) ==
  LET c == check[d][s] IN
  /\ c.pc = "answered"
  /\ check' = [check EXCEPT ![d][s] = IdleCheck]
  /\ grant' = IF c.holder = d THEN [claim |-> c.at, device |-> d] ELSE grant
  /\ UNCHANGED <<viewer, ui, player, bye, confirmed, seen, owner, failed>>

\* Mutant: the navigator is reached without the state's context, so that the
\* answer to a player that is gone takes off the one that came after it.
HandleCheckUnmounted(d, s) ==
  LET c == check[d][s] IN
  /\ c.pc = "answered"
  /\ check' = [check EXCEPT ![d][s] = IdleCheck]
  /\ IF c.holder = d
     THEN grant' = [claim |-> c.at, device |-> d] /\ UNCHANGED ui
     ELSE ui' = [ui EXCEPT ![d] = AfterRefusal(d)] /\ UNCHANGED grant
  /\ UNCHANGED <<viewer, player, bye, confirmed, seen, owner, failed>>

\* getLastLog goes on: this device's UUID lets initPlayer continue; "none" or
\* another UUID pops a route and shows the dialog, if the state that asked is
\* still mounted.
HandleCheck(d, s) ==
  LET c == check[d][s] IN
  /\ c.pc = "answered"
  /\ check' = [check EXCEPT ![d][s] = IdleCheck]
  /\ IF c.holder = d
     THEN grant' = [claim |-> c.at, device |-> d] /\ UNCHANGED ui
     ELSE /\ ui' = IF player[d] # 0 /\ player[d] = c.of
                   THEN [ui EXCEPT ![d] = AfterRefusal(d)] ELSE ui
          /\ UNCHANGED grant
  /\ UNCHANGED <<viewer, player, bye, confirmed, seen, owner, failed>>

\* The request fails: the task dies and the player plays on.
CheckFails(d, s) ==
  /\ check[d][s].pc \in {"asked", "answered"}
  /\ check' = [check EXCEPT ![d][s] = IdleCheck]
  /\ failed' = [failed EXCEPT ![d] = @ \/ (ui[d] = "player" /\ check[d][s].of = player[d])]
  /\ UNCHANGED <<viewer, ui, player, bye, confirmed, seen, owner, grant>>

\* The arrow: the closing report is sent, not awaited, and the route popped.
Back(d) ==
  /\ ui[d] = "player" /\ ~bye[d]
  /\ bye' = [bye EXCEPT ![d] = TRUE]
  /\ ui' = [ui EXCEPT ![d] = "home"]
  /\ UNCHANGED <<viewer, player, check, confirmed, seen, owner, grant, failed>>

\* The phone's back button: popped with no report.
SystemBack(d) ==
  /\ ui[d] = "player"
  /\ ui' = [ui EXCEPT ![d] = "home"]
  /\ UNCHANGED <<viewer, player, check, bye, confirmed, seen, owner, grant, failed>>

\* The exit transition is over.
Disposed(d) ==
  /\ ui[d] # "player" /\ player[d] # 0
  /\ player' = [player EXCEPT ![d] = 0]
  /\ UNCHANGED <<viewer, ui, check, bye, confirmed, seen, owner, grant, failed>>

DialogOk(d) ==
  /\ ui[d] = "ended"
  /\ ui' = [ui EXCEPT ![d] = "home"]
  /\ UNCHANGED <<viewer, player, check, bye, confirmed, seen, owner, grant, failed>>

\* External: the closing report reaches the backend, maybe late.
ServeBye(d) ==
  /\ bye[d]
  /\ bye' = [bye EXCEPT ![d] = FALSE]
  /\ viewer' = IF viewer = d THEN None ELSE viewer
  /\ UNCHANGED <<ui, player, check, confirmed, seen, owner, grant, failed>>

LoseBye(d) ==
  /\ bye[d]
  /\ bye' = [bye EXCEPT ![d] = FALSE]
  /\ UNCHANGED <<viewer, ui, player, check, confirmed, seen, owner, grant, failed>>

\* The app is killed and started again: auto-login leads to the home screen,
\* answers to the old process are dropped, what the backend knows stays.
Restart(d) ==
  /\ ui' = [ui EXCEPT ![d] = "home"]
  /\ player' = [player EXCEPT ![d] = 0]
  /\ check' = [check EXCEPT ![d] = [s \in Slots |-> IdleCheck]]
  /\ failed' = [failed EXCEPT ![d] = FALSE]
  /\ ForgetStart(d)
  /\ UNCHANGED <<viewer, bye, owner, grant>>

-----------------------------------------------------------------------------
Init ==
  /\ viewer = None
  /\ ui = [d \in Devices |-> "home"]
  /\ player = [d \in Devices |-> 0]
  /\ check = [d \in Devices |-> [s \in Slots |-> IdleCheck]]
  /\ bye = [d \in Devices |-> FALSE]
  /\ confirmed = [d \in Devices |-> FALSE]
  /\ seen = [d \in Devices |-> 0]
  /\ owner = <<>>
  /\ grant = NoGrant
  /\ failed = [d \in Devices |-> FALSE]

Next ==
  \E d \in Devices :
    \/ ClickLecture(d)
    \/ ConfirmYes(d)
    \/ ConfirmNo(d)
    \/ ServeList(d)
    \/ \E s \in Slots : OpenPlayer(d, s)
    \/ ListFails(d)
    \/ \E s \in Slots : ChangeLecture(d, s)
    \/ \E s \in Slots : ServeCheck(d, s)
    \/ \E s \in Slots : HandleCheck(d, s)
    \/ \E s \in Slots : CheckFails(d, s)
    \/ Back(d)
    \/ SystemBack(d)
    \/ Disposed(d)
    \/ DialogOk(d)
    \/ ServeBye(d)
    \/ LoseBye(d)
    \/ Restart(d)

Spec == Init /\ [][Next]_vars

\* The backend answers a check or the request fails, and the event loop runs
\* the continuation. Nothing is assumed of the viewer, and CheckFails is never
\* made to happen.
FairSpec ==
  /\ Spec
  /\ \A d \in Devices, s \in Slots : WF_vars(ServeCheck(d, s)) /\ WF_vars(HandleCheck(d, s))

-----------------------------------------------------------------------------
(* Properties.                                                             *)

\* A check is taken for a permission only by the device that made the claim
\* in force when the backend answered: between two claims at most one device
\* is let on to another lecture, however late its answer arrives.
GrantGoesToOwner ==
  grant = NoGrant \/ (grant.claim \in DOMAIN owner /\ owner[grant.claim] = grant.device)

\* A start that takes the log from another device without asking its user has
\* lost a race: some device claimed it after this one's page read it.
UnaskedTakeoverIsARace ==
  [][\A d \in Devices :
       ui[d] = "listing" /\ ui'[d] = "listed" /\ viewer \notin {None, d} /\ ~confirmed[d]
         => Len(owner) > seen[d]]_vars

\* The counterpart for those who must go: a check takes a player off the screen
\* only with an answer given after that player's own claim, and the answer
\* names nobody or the device of a later claim. An answer to an earlier player
\* of the same device, however late, ends nothing (media_control.dart:493-505).
EvictionIsCurrent ==
  [][\A d \in Devices :
       ui[d] = "player" /\ ui'[d] = "ended" =>
         \E s \in Slots :
           LET c == check[d][s] IN
           /\ c.pc = "answered" /\ check'[d][s].pc = "idle"
           /\ c.holder # d
           /\ \/ c.holder = None /\ player[d] <= c.at
              \/ owner[c.at] = c.holder /\ player[d] < c.at]_vars

\* Eviction works as far as the app asks: a player that asks the log after
\* another device took it, or after the session ended, stops, unless an answer
\* to it is lost. (A player that is never asked to change lecture never asks.)
EvictedStops ==
  \A d \in Devices, s \in Slots :
    (/\ ui[d] = "player" /\ viewer # d
     /\ check[d][s].pc = "asked" /\ check[d][s].of = player[d])
    ~> (ui[d] # "player" \/ failed[d])

\* Claim of README.md:63 (one account does not attend on two devices at once)
\* and of the dialog at home_screen.dart:106 (the device is changed). When the
\* player of a start opens that its user confirmed there, every other player
\* has stopped, or still has a check under way that can stop it. (One that lost
\* the answer of a check is left out.)
ChangeOfDeviceReachesOther ==
  [][\A d, e \in Devices :
       /\ confirmed[d] /\ ui[d] = "listed" /\ ui'[d] = "player"
       /\ d # e /\ ui[e] = "player" /\ ~failed[e]
       => \E s \in Slots : check[e][s].pc # "idle"]_vars

\* The abstract right to watch (ViewingRight.tla), seen in this state: a device
\* is entitled while the answer of its list request waits to be used.
Right == INSTANCE ViewingRight WITH
  holder   <- viewer,
  claims   <- owner,
  entitled <- {d \in Devices : ui[d] = "listed"},
  watching <- {d \in Devices : ui[d] = "player"}

\* Requests, answers out of order, refusals, lost calls and restarts add up to
\* no more than the abstract right: no player opens without a claim of its own
\* start (home_screen.dart:82-98), only the holder's closing report frees the
\* log, and nobody goes on who never claimed (media_control.dart:503).
ImplementsRight == Right!Spec
=============================================================================
