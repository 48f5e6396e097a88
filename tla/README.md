# Formal models of the eduTOPIK app

This directory holds TLA+ models of the Flutter app under `lib/`, the TLC
configurations that check them and TLAPS proofs about them. The app is a thin
client of a lecture site: it logs a user in, registers the phone as one of at
most two devices of the account, shows the site in a web view and plays
lectures, one device of an account at a time. Almost nothing in it is computed;
almost everything is a sequence of requests that nobody awaits or that another
device overtakes. That is what the models are about.

## 1. The system

| Component | Source | State | Operations | Talks to |
|---|---|---|---|---|
| Lecture player | `screens/media/media_control.dart`, `data_manager.dart`, `player.dart`, `play_time.dart`, `player_screen.dart` | the shared `PlayTime` record (`lm_num`, `current_time`), the index `currentPlaying`, the loaded controller, `_playBackSpeed` | previous, next, slower, faster, back, video end and auto-play, `initPlayer`, dispose | log, time and report endpoints; the Navigator |
| Viewing session | `home_screen.dart`, `media_control.dart` | none of its own: the backend's log, the route on the screen, requests in flight | click, overload dialog, `startPlayer`, `getLastLog`, closing report | the web page's messages; the backend's log |
| Device registration | `login/components/body.dart`, `login/dialog/dev*_dialog.dart`, `otp/components/otp_form.dart` | the dialogs on the stack, two UUIDs, the device to delete | LOGIN, dialogs, device sheet, confirm, back | login, device list and register endpoints |
| One-time code | `otp/components/otp_form.dart`, `body.dart` | global `verificationId1`, the six digits | send, resend, verify | Firebase |
| Auto-login | `login/login_screen.dart`, `login/components/body.dart` | secure storage | read, store, delete | device registration |
| Navigation | every `Navigator` call | the route stack | push, pop | all screens |
| HTTP session | `widgets/session.dart` | none | `get` (`post` has no caller) | the backend |
| Device identity | `otp/components/device_info.dart` | none | `getMobileId` | the platform |
| Volume and brightness | `media_control.dart` | `_volume`, `_brightness` | sliders | plugins |
| Start, splash, other dialogs, layout | `main.dart`, `splash_screen.dart`, the rest of `lib/` | none worth a variable | a timer, texts | |
| Backend pages | not in the repository | viewing log, viewing points, device registry | | the app |

Platform shells (`ios/`, `android/`), `ios/Pods` and `node_modules` are
generated or third-party and are left aside. All C and C++ of the repository is
in `ios/Pods` (Firebase, gRPC, nanopb), and none of it is modelled; the program
itself is the Dart code under `lib/`, about 2,800 lines, most of them layout,
and nearly every line of it that moves state is in the map of `PROJECT.json`.

### What is hard

* **Tasks nobody awaits.** Every lecture button starts an `initPlayer` and a
  progress report. Several run at once, each reads `PlayTime` after its own
  awaits, and each ends by seeking and by `setState`.
* **Pops by whoever is late.** `getLastLog` pops "the route on top" when the
  refusal arrives, not the route it was asked for.
* **Two counters for one lecture.** `lm_num` and `currentPlaying` are moved by
  separate code with different bounds, and auto-play moves only one.
* **Read, then act.** The overload field, `CountUUID` and the list of devices
  are read long before the request that relies on them.
* **Failure.** No exception of a request is caught outside the login and code
  forms; statuses 201 to 399 are half-handled; the answer of the registration
  is ignored; an app that is killed never sends its closing report.
* **Buttons that stay enabled.** LOGIN, the confirm button, "resend" and the
  page's lecture links can be used again while their requests are under way;
  the fields can be edited meanwhile, and are read again when the answer comes.
* **One global, one entry.** All code forms share `verificationId1`, and the
  LOGIN button and the auto-login share one entry of the secure storage.

`PROJECT.json` lists these hazards at their lines, with the properties that
watch them, and the ones no property watches yet. Several are cases that a
property names in its own condition: the code does go wrong there, and what the
property says is that nothing else makes it. Their notes say so.

### What makes each component correct

* *Player.* The list index never leaves the list; `lm_num` and the index differ
  only for known reasons; nothing that happens in the background damages the
  routes; a refused player stops; a report names the lecture it measured; a
  resume is for the lecture on the screen; the speed shown is the speed played.
* *Viewing session.* Only the device that claimed the log last is let on; a
  takeover is confirmed or has lost a race; an evicted player stops when asked.
* *Registration.* At most two devices; a device on its home screen is registered.
* *One-time code.* The code is checked against the newest message; no press
  ends unseen, and what it shows stays on top.
* *Auto-login.* What is stored is the login that succeeded; a login that was
  refused does not enter.
* *Navigation.* A pop meets the route it was meant for.

## 2. The modules

| Module | What it is |
|---|---|
| `LecturePlayer` | one opened player, its tasks and reports in flight, the routes around it |
| `MCLecturePlayer` | model values and symmetry for it |
| `LecturePlayerProofs` | theorems about it |
| `ViewerSession` | several devices of an account against the viewing log |
| `ViewingRight` | the abstract right to watch that `ViewerSession` implements |
| `MCViewerSession`, `ViewerSessionProofs` | model values, symmetry and theorems for `ViewerSession` |
| `DeviceRegistration` | several devices of an account against the registry |
| `Admission` | the abstract admission that `DeviceRegistration` implements |
| `MCDeviceRegistration`, `DeviceRegistrationProofs` | the same for it |
| `PlayerStack` | the routes of one device: overlapping starts, players above players |
| `MCPlayerStack`, `PlayerStackProofs` | the same for it |
| `LoginStorage` | the stored login of one device: auto-login, LOGIN, the storage's calls, restarts |
| `MCLoginStorage`, `LoginStorageProofs` | the same for it |
| `OtpVerification` | the code forms of one device, their messages, the confirm button |
| `MCOtpVerification`, `OtpVerificationProofs` | the same for it |

`PlayerStack` takes the inside of a player from `LecturePlayer` (a check that is
refused or not) and the reason of a refusal from `ViewerSession`;
`LoginStorage` stops where `DeviceRegistration` begins (a dialog) and
`DeviceRegistration` takes a correct code from `OtpVerification`. They are
joined by these shared steps and not composed into one state: the product of
their requests in flight is far beyond a model checker, and no property needs
two of them at once. Where one module leaves out what another follows, the
leaving out is checked: `LecturePlayer!StepsOfStack` says that a player, with all
that goes on inside it, makes only steps that `PlayerStack` knows.

### LecturePlayer

`lm_num` and `current_time` are the `PlayTime` fields, `currentPlaying` the
`DataManager` field, `speedShown` is `_playBackSpeed`. `video` stands for the
loaded `VideoPlayerController`: which url, whether it is initialised (seeking
is ignored before), position in minutes, whether its end was reported, speed.
`call[c]` is an `initPlayer` task with a program counter at its awaits
(`check`: `check_log` asked; `refused`: the answer is a refusal and its
continuation has not run; `time`: `get_time` asked; `got`: answered), `send[s]`
a `sendPlayTime` request, `saved` the backend's viewing points. `routes` is the
Navigator's stack; `screen` says whether the `MediaControl` state is mounted,
mounted under the exit transition of its popped route, or disposed. `skew`,
`crossed` and `told` are history variables read by no guard: what has moved
`lm_num` and the index apart, whether the list was moved while an auto-play timer
ran, and whether a refusal ran its course.

Each press is one action with all it does before the event loop runs again:
`NextPressed` reads the position, sends the report with the *old* `lm_num`,
moves `lm_num` without a bound and the index with one, loads the video and
starts the task. `EndLecture` is the continuation of a refused check: pop,
dialog, and the tail of `initPlayer`, which seeks and resets the speed shown
also then; a disposed state has no context and the task dies. `VideoEnds` moves
only the index and starts the five second timer; `AutoPlayFires` loads.

`LecturePlayer!Stack` reads one player's share of `PlayerStack` off this state:
its routes, a check that is asked, refused or neither, and a home screen that
is open while it is on the stack. A player begins where its list has been
answered, in the middle of the stack's life, so it is the steps that are
matched and not the initial state: `StepsOfStack` is `[][Stack!Next]`.

### ViewerSession

`ui[d]` is what device `d` shows, from the click on a lecture to the player.
The requests are split where the code awaits: `ServeList` is the backend's
side, `OpenPlayer` the app's; `ServeCheck` and `HandleCheck` likewise, so an
answer may be old when it is used. `player[d]` identifies the mounted player by
its claim, so that an answer for an earlier player is told apart from one for
this one: its context is gone and it pops nothing. `bye[d]` is a closing report
(`fin = 'Y'`) on its way. `Restart` keeps what the backend knows and drops the
process. `confirmed`, `seen`, `owner`, `grant` and `failed` are history
variables: no guard reads them except through `Len(owner)`, the number of
claims, which bounds the run and numbers the players.

### DeviceRegistration

`stage[d]` is the dialog, form or request the login of device `d` is at and
`under[d]` what lies below the code form and the home screen, because going
back leads there, with `sheet[d]` (`deviceUUID1`, `deviceUUID2`) and `choice[d]`
(`deleteDeviceUUID`) still set. Answers are again split into the backend's step
and the app's, so that the registry can change in between. `stale` and
`excused` are history variables read by no guard.

### Admission, and what implements it

`Admission` has no dialog, form or request: a device gets an offer (room, or two
members to choose from, or a blind one when they could not be read), only an
offer admits, a member leaves only to a device that was offered its place, and a
device goes in only after its admission was decided. Offers are not withdrawn
when the registry changes, which is what the app does and why the limit can be
exceeded. Room is offered below the limit only. `OverlookExcess` is a step of its
own and no promise: once the registry is above the limit, a new device is offered
room again, because the form compares the count with 2 for equality
(`body.dart:134`), where `README.md:102` lets the user choose a device to delete
from two on. The abstract module admits the step, openly, so that it can say what
holds beside it; the run `room_only_below_limit` shows that the claim fails.
`DeviceRegistration!Door` reads it off the detailed state: a device
holds an offer from the answer of the login page, or from the list on its sheet,
until it forgets it; it is cleared between the backend's answer and the home
screen. `ImplementsAdmission` would fail if the form sent a device that its sheet
did not show, if a dialog for a new device were opened at the limit, or if the
home screen opened before the answer. A registry above the limit takes a fourth
device to be met by a new one, which is why the run has four.

### ViewingRight, and what implements it

`ViewingRight` has no request, answer or route: a right to watch that a claim
takes from whoever has it, devices entitled by a claim they have not used yet,
devices that watch, and the last permission to go on. `ViewerSession!Right`
reads it off the detailed state: the right is the log's viewer, a device is
entitled from the answer of its list request until it opens the player, and
everything else (asking, answers on their way, refusals, reports, restarts)
either is one of its steps or does not touch it. `ImplementsRight` says so for
every behaviour; it would fail if a player could open without a claim of its
own start, or if a late closing report freed a log that another device holds.

### PlayerStack

`routes` is the Navigator's stack over the login screen, `life` says for every
`MediaControl` state and the home screen whether it is open, under its exit
transition (popped, still mounted) or disposed. `page` counts messages of the
web page on their way and `listing` the `startPlayer` calls that wait for their
list; a list pushes its player onto whatever is on top. `check[i][s]` are the
`getLastLog` requests of player `i`, and `EndLecture` is the continuation of a
refused one: it pops whatever is on top. `told` and `overlapped` are history.

### LoginStorage

`stored` is the entry `login`, `chan` the calls the storage plugin has been
given and not carried out. `auto` is `_asyncMethod` with a program counter at
its awaits, `press[p]` a press of LOGIN likewise; a press stores what is typed,
then reads the fields again for the format check, for the request, and for the
home screen or the dialog. `AfterVerdict` is the point of the module: an
unregistered device deletes the entry *without awaiting it* and reads again in
the same breath, so the two calls stand next to each other in `chan`. `Restart`
may come between any two steps and drops the calls that are on their way. The
login itself is one value; a password with a blank, which `split(' ')` cuts, is
not told apart. `entered`, `erased` and `pressed` are history.

### OtpVerification

Every form sends one message when it is created, so a form and its message have
one number. `exchange[i]` follows `sendMessage`: the phone number, Firebase,
`codeSent`, which sets the global whether or not the form is still there.
`press[p]` is a press of the confirm button with the code and the id it read
before its first await; `SignedIn`, `NameKnown` and `Registered` are its three
awaits, and `Finish` what it shows, unless its form is gone, where the context
throws in the `try` and again in the handler. `NoUser` is the branch of a code
that is accepted with no user named: the test has no `else`, and the press is over. `android` is fixed at the start:
`iosInfo` throws there, so no press on an Android phone ever reaches `Registered`.
`hasty` and `doubled` are history: they say that the user did not wait.

### What is external

The backend's pages are not in the repository. The models take from the app's
use of them: the page sends `overload` exactly when the log names another
device; the list request, the only one that carries both `uid` and `uuid` before
the player opens, makes its device the viewer; a report with `fin = 'Y'` from
the viewer clears the log; `device_register.asp` takes out `delete_device` and
puts `device_id` in. Whether it refuses a registration beyond the limit cannot
be seen and is left open: both outcomes are allowed. `flick_video_player` may or
may not drop a running auto-play timer when the video is changed: both are
allowed too. A check is answered by any verdict in `LecturePlayer`;
`ViewerSession` says which. The storage plugin carries out its calls in the order
they are made; Firebase accepts a code only with the id it was sent under, may
refuse that one too, and reports messages in any order or never.

## 3. What is checked

All runs are exhaustive for their bounds.

| Run | Question | Result |
|---|---|---|
| `player` | types; does anything but ignored presses and auto-plays separate `lm_num` from the index (`DriftAccounted`); is the loaded video the index's, timers included (`VideoIsCurrent`); until when does a report name its lecture (`ReportNamesUnlessDrifted`); are the routes whole while the player is open (`OpenPlayerOnTop`); is a refused player closed for good (`ToldPlayerIsClosed`); when can the home screen be lost (`HomeLostOnlyWhileExiting`) | holds, 3.1 million states |
| `player_stops` | does a refused player leave the screen (`RefusalClosesPlayer`); is every step one of `PlayerStack`'s (`StepsOfStack`) | holds under `FairSpec`, 252 thousand states |
| `report_names_lecture` | does a report name its lecture | violated |
| `resume_is_for_lecture` | is a resume for the loaded lecture | violated |
| `viewer` | types; is only the claimant of the moment let on (`GrantGoesToOwner`); is an unasked takeover always a lost race (`UnaskedTakeoverIsARace`); is a player put out only by an answer meant for it (`EvictionIsCurrent`); is every step one of the abstract right (`ImplementsRight`) | holds, 303 thousand states |
| `viewer_stops` | does an evicted player that asks stop (`EvictedStops`) | holds under `FairSpec` |
| `change_of_device` | does a confirmed change of device reach the device changed from (`ChangeOfDeviceReachesOther`) | violated |
| `registration` | types; is every home screen accounted for (`HomeIsAccountedFor`); what does it take to exceed the limit (`OverLimitNeedsStaleAnswer`); is every step one of the abstract admission, also where a new device meets three registered ones (`ImplementsAdmission`) | holds, 43 thousand states |
| `room_only_below_limit` | is a device told there is room only below the limit (`RoomOnlyBelowLimit`) | violated |
| `stack` | types; does a refusal close its own player when starts overlap (`RefusedPlayerLeaves`); when can the home screen be lost (`HomeLostOnlyWhileExiting`) | holds, 621 thousand states |
| `login` | types; can a refused auto-login enter (`DeniedNeverEnters`); is what LOGIN brought home still stored (`RememberedUnlessErased`); does an undisturbed auto-login show the stored account (`AutoHomeIsStored`) | holds, 96 thousand states |
| `otp` | types; is the global id the last message's (`LastMessageCounts`); does home stay on top (`HomeStaysOnTop`); is anybody let in without a message (`HomeNeedsCode`); does any press end unseen (`EndIsShown`) | holds, 2.0 million states |

### What the violations say

* `ReportNamesLecture`: press "previous" on the first lecture: `lm_num` becomes
  0, the index stays, and every later report of this player is off by one.
  After an auto-play it is off by one the other way.
* `ResumeIsForLecture`: `get_time` was asked for lecture 1, the viewer pressed
  "next", lecture 2 is loaded when the answer arrives and is sought to the
  minute of lecture 1. The property is stated only for `skew = 0`, so this is
  not the drift above but the race.
* `ChangeOfDeviceReachesOther`: a running player asks the log only when a lecture
  button is pressed. The first device's player was let on by its one check; the
  second device's page says "overload", its user confirms, its list is served and
  its player opens; the first plays on with no request under way that could stop it.
* `RoomOnlyBelowLimit`: a device list that was not read (status 201 to 399) leaves
  `"."` as the device to delete, and a third device is registered with none
  removed: the limit of `README.md:101` is exceeded. (Two devices that read "one
  registered" at the same time get there too.) The count is then not 2, and a
  fourth device gets the "new device" dialog, with nothing to delete.

The positive properties say what does hold next to each of these, and each
names in its condition what breaks it:

* `ReportNamesUnlessDrifted` is what is left of `ReportNamesLecture`: it needs that
  no press was ignored, no lecture started by itself and no timer was crossed.
  The tasks in flight are not in the condition: they never spoil a report.
* `VideoIsCurrent` needs a list that is left alone for the five seconds of an
  auto-play: a timer that the library does not drop loads a video the index has
  left, and the buttons then count from the wrong one.
* `EvictionIsCurrent` is the other side of `ChangeOfDeviceReachesOther`: who is put
  out asked for it, and lost the log after its own claim or had it freed; a late
  answer to an earlier player of the same device puts nobody out.
* `UnaskedTakeoverIsARace`: two devices that click while nobody watches both
  start without the dialog `README.md:109` speaks of.
* `RefusedPlayerLeaves` needs starts that do not overlap: with two players on
  the stack, the refusal of the lower one pops the upper one and stays itself.
* `RememberedUnlessErased` needs no refusal after the press: the auto-login's
  deletion, made after LOGIN stored its login, erases it, and the next start of
  the app finds nothing although LOGIN succeeded.
* `AutoHomeIsStored` needs a LOGIN button left alone. After a press, the
  auto-login pushes the account it read first over the one LOGIN brought home.
* `LastMessageCounts` needs a user who waits: with two messages under way the
  older one may be reported last, and the code of the newer one is refused.
* `HomeStaysOnTop` needs a user who presses once: the second press brings the
  wrong-code dialog, or a second home screen, over the first.
* `EndIsShown` counts the wrong-code dialog as an answer, and names three silent
  ends: the form is gone, Firebase accepted the code and named no user, the app was
  killed. On an Android phone the dialog is the only answer to a right code too,
  and it says that the code does not match (`incorrectAuth_dialog.dart:26`):
  `HomeNeedsCode` says that no way through the forms ever leads home there.

### Bounds, and why they are enough

* `NumLectures = 2`: a first and a last lecture; every guard of the list
  compares with an end.
* `MaxMinute = 1`: two positions, enough to tell a wrong resume from a right
  one. `MaxDrift = 1`: `lm_num` may leave the list at either end by one, where
  the guards of the list stop holding; further presses repeat the same step.
* `Calls`: two tasks, enough for one to overtake the other; `Sends`: one report
  (two reports only multiply states, no property compares them). A press waits
  for a free slot: presses while all are in flight are cut.
* Speeds: `4 .. 5` in steps of 0.25 (1.00 and 1.25) in `player_stops`, a single
  one in the other runs of the player, none of whose properties looks at it; the
  code's range is 2, 4, 8.
* `upNext` is a set: two timers for the same index count once.
* `Devices`: two for the session, four for the registry, of which two sign in and
  two at most hold places (`TwoSignIn`): one to exceed the limit, and one to race
  it or to meet the excess; any registry within the limit to start from. A third
  device that signs in adds no new kind of overtaking, and takes more than five
  minutes; the theorems hold for any number. `Slots`: two
  checks in flight for safety, one for liveness. `MaxClaims`: two starts for
  safety (a takeover), three for liveness (a takeover and a return).
* `DeviceRegistration` follows one login flow per device: LOGIN pressed twice
  and code forms stacked by the resend link are followed in `LoginStorage` and
  `OtpVerification`, without the registry. Its `Restart` ends at the login form.
* `PlayerStack`: three players at a time (one refused, one above, one leaving),
  two checks each (one to pop, one to be late), two starts in flight (the least
  that overlaps). A fourth player finds no free state and waits.
* `LoginStorage`: two accounts (the entry can hold another login than the one
  entered) and an empty form, two presses in flight (one can be overtaken). A
  third press waits for one of them to end.
* `OtpVerification`: three forms in all, across restarts (one message can overtake
  another, before or after a restart), two presses in flight.
* A device of `ViewerSession` has one `startPlayer` in flight and does not open the next player
  during the exit transition of the last. A request not yet served when its app
  is killed is lost.
* `CHECK_DEADLOCK FALSE` only for the player: after it was closed and its tasks
  ended nothing has to happen.

The proofs need none of the bounds' values.

### Fairness

`LecturePlayer!FairSpec`: weak fairness of `EndLecture(c)`, the continuation of
an answered request, which the event loop runs, and of `Disposed`, the end of
an exit transition, which the framework's ticker runs. `ViewerSession!FairSpec`:
weak fairness of `ServeCheck(d, s)` and `HandleCheck(d, s)`: the backend answers
a request or the request fails, and the continuation runs. `CheckFails` may
always happen instead, never has to, and is then recorded in `failed`, which
`EvictedStops` excuses. Nothing is assumed of the viewer.
The other modules state no liveness and no fairness.

## 4. What is proved

For every number of lectures, tasks, reports, devices, checks, claims, players,
logins, presses and forms, from the named assumptions of the modules only.

* `LecturePlayerProofs` (assumes a non-empty list, natural bounds, ordered speeds)
  * `TypeCorrect`. The index stays in the list because the two skip methods and
    `VideoEnds` compare before they move; `LmNums` is cut by the bound.
  * `DriftIsAccounted`: inductive with the type invariant; each action moves
    `lm_num`, the index and `skew` together.
  * `VideosAreCurrent`: inductive beside the type invariant; the disjunct in
    which a timer runs says that it is the only one, so that its firing leads
    back to the other. `ReportsNameUnlessDrifted` is `VideoIsCurrent` and
    `DriftAccounted` of the state before the press, taken together.
  * `OpenPlayerIsOnTop`: inductive as it stands, given lemma `RoutesChange`,
    which says which actions touch the routes and what they leave.
  * `HomeIsLostOnlyWhileExiting`: from `OpenPlayerOnTop` and the type invariant:
    while the player is open a pop meets the player, once it is gone a refusal
    pops nothing, and the dialog only pops itself.
  * `ToldPlayersAreClosed` from `RoutesInv`: an open player is on top of whole
    routes, a closed one is not on the stack, home is there once at most, and no
    open player has been told. The mount state is what makes it inductive: the
    stack alone does not say that no later step brings the player back.
  * `PlayersTakeStackSteps`: each action is matched with the stack's step of the
    same name or with none; where a pop meets is decided by `RoutesInv`
    (`PopCloses`), and `TasksStep` follows the one slot that moves.
* `ViewerSessionProofs` (assumes `None` is no device)
  * `TypeCorrect`.
  * `GrantsGoToOwners`: the property speaks of an answer long after it was given,
    so it is not inductive. `GrantInv` adds that the log names the last claimant
    or nobody, and that every answer on its way names the claimant of the claim
    it was read at; `ClaimsStay` says that the list of claims only grows.
  * `EvictionsAreCurrent` from `EvictInv`: a mounted player is numbered by a claim of
    its device, and every answer on its way was given after the claim of the
    player that asked. `EndingIsHandled`: only a handled check of the mounted
    player puts the dialog on the screen.
  * `UnaskedTakeoversAreRaces`: the invariant is that an unconfirmed start whose
    log has not changed since the click has seen no other device.
  * `SessionImplementsRight`: initial states map to initial states, and each
    step to the abstract step lemma `ScreenSteps` names or to a stutter
    (`SilentSteps`, `ScreensChange`); that a permission follows a claim of the
    same device is where `GrantInv` is needed.
* `DeviceRegistrationProofs` (assumes finitely many devices)
  * `TypeCorrect`.
  * `HomesAreAccountedFor`: strengthened to every stage that leads to the home
    screen with no further look at the registry.
  * `OverLimitNeedsStaleAnswers`: the invariant `AllInformed` says what each
    device's dialogs still know while no registration has overtaken them: a form
    without a device to delete implies room, and the sheet and the choice name
    registered devices. `ReplacingKeepsLimit` counts. `RegistrationOvertakes` is
    the one step that makes others' answers stale.
  * `RegistrationImplementsAdmission`: `OfferInv` says that a form which followed
    the sheet names one of its two devices, and one which did not names nobody.
    That room is offered by `OfferRoom` or by `OverlookExcess` and never at the
    limit is where the registry has to be finite. `DoorMoves` and `DoorStays` turn a step of one device's dialogs into a step
    of its offer or none, and three lemmas go through login, sheet and form.

* `PlayerStackProofs` (assumes that no player has the name of another route)
  * `TypeCorrect`.
  * `HomeIsLostOnlyWhileExiting`: `StackInv` says that the home screen, while
    open, has nothing but the login screen below it and that every open player is
    on the stack: so a pop that meets the home screen finds no open player, and
    a check whose player is disposed pops nothing.
  * `RefusedPlayersLeave`: as long as no starts overlapped, an open player is on
    top, so its refusal pops it and no other route.
* `LoginStorageProofs` (assumes that the empty form is a login, not a well-formed
  one, and that no login is the absent entry)
  * `TypeCorrect`, with at most one read of the auto-login on its way.
  * `DeniedNeverEnter`: neither the verdict nor the entry says it alone.
    `RefusalErases` says that after a refusal every read on its way stands right
    behind a deletion, or is next with nothing stored; LOGIN only appends, so no
    write comes between.
  * `RememberedLoginsStay`: `RememberInv` says that behind the write of the last
    press there is no other write, and no deletion but that of a refusal that
    came later; once it was carried out, the entry is that press's.
  * `AutoHomesAreStored`: `AloneInv` says at every await of an auto-login nobody
    disturbs which calls are on their way and how what it has read compares with
    the entry. After a refusal the second read finds nothing and nothing opens.
* `OtpVerificationProofs` (assumes a natural number of forms)
  * `TypeCorrect`, with no message of a form that was not opened.
  * `LastMessagesCount`: as long as nobody was hasty, only the newest form's
    message is under way, so `codeSent` can only move the id forward.
  * `HomesStayOnTop`: as long as no press was doubled there is at most one in
    flight, and none once home is shown.
  * `HomesNeedCodes`: `CodeInv` follows the id from `codeSent` to the global, to a
    press and past its awaits: every id in use is that of a message reported
    sent, and no press on an Android phone is past the device's name.
  * `EndsAreShown`: from the type invariant, over the steps that end a press:
    `Finish` shows unless the form is gone, `NoUser` has an accepted code, and a
    restart clears the screen.

Only model-checked: the liveness properties `RefusalClosesPlayer` and
`EvictedStops`, since liveness under fairness is beyond the prover. The theorems
about `Spec` cover the behaviours of `TwoSignIn`, whose steps are steps of it.

## 5. What is not modelled

* *Volume and brightness.* Four methods copy a plugin's value into a field; no
  other state depends on it, so there is no property worth a model.
* *Device identity.* `getMobileId` answers an empty id on a `PlatformException`;
  the models take the id as what identifies the phone.
* *The registry together with the code forms, and the log together with the
  player stack.* Two registrations from stacked forms of one device, and two
  claims of one device, are each followed on one side only.
* *Several accounts on one phone in `OtpVerification`.* The account of a form is
  not part of its state.
* *The order in which the backend keeps two reports for one lecture*, and what it
  does with an older viewing point: not in the repository.
* *After the home screen was lost* the viewer is at the login form;
  `PlayerStack` follows what is still under way, not the second login.
* Layout, texts, the splash screen and the dialogs that only pop themselves; the
  web page; Firebase, the storage plugin and the video library beyond how they
  are called; `Session.post`, `reAuthCode_dialog.dart` and `web_view.dart`, which
  nobody uses; all vendored code.
