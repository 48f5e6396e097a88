---------------------------- MODULE LecturePlayer ----------------------------
(***************************************************************************)
(* One opened lecture player of the app: the Player and MediaControl       *)
(* widgets (lib/screens/media/player.dart, media_control.dart), the        *)
(* DataManager that walks the play list (data_manager.dart), the PlayTime  *)
(* record they share (play_time.dart), and the backend's store of viewing  *)
(* points.                                                                 *)
(*                                                                         *)
(* The hard part is that nothing is awaited by its caller: every press of  *)
(* "previous lecture" or "next lecture" starts one more initPlayer task    *)
(* and one more progress report, and each task reads the shared PlayTime   *)
(* record after its own awaits.                                            *)
(***************************************************************************)
EXTENDS Integers, Sequences

CONSTANTS
  NumLectures,   \* length of the urls and titles lists of the play list
  MaxMinute,     \* the minute at which every video ends
  MaxDrift,      \* bound: how far lm_num may leave the list at either end
  Calls,         \* bound: initPlayer tasks that may be in flight
  Sends,         \* bound: sendPlayTime requests that may be in flight
  MinSpeed, NormalSpeed, MaxSpeed   \* in steps of 0.25; 2, 4 and 8 in the code

ASSUME ListAssumption  == NumLectures \in Nat \ {0} /\ MaxMinute \in Nat /\ MaxDrift \in Nat
ASSUME SpeedAssumption == /\ MinSpeed \in Nat /\ NormalSpeed \in Nat /\ MaxSpeed \in Nat
                          /\ MinSpeed <= NormalSpeed /\ NormalSpeed <= MaxSpeed

VARIABLES
  lm_num,          \* PlayTime.lm_num: which lecture the backend is asked about
  current_time,    \* PlayTime.current_time: minutes, or NoTime while it is null
  currentPlaying,  \* DataManager.currentPlaying: index into urls
  video,           \* the VideoPlayerController that is loaded
  upNext,          \* indices the five second auto-play timers will load
  speedShown,      \* _playBackSpeed, the number between the - and + buttons
  call,            \* initPlayer tasks, by slot
  send,            \* sendPlayTime requests on their way, by slot
  saved,           \* external: the backend's viewing point of each lecture
  screen,          \* the MediaControl state: mounted, mounted under the exit
                   \* transition of its route, or disposed
  routes,          \* the Navigator's routes, the top one first
  skew,            \* history: ignored presses and auto-plays, see DriftAccounted
  crossed,         \* history: the list was moved while an auto-play timer ran
  told             \* history: a refused check ran its course

vars == <<lm_num, current_time, currentPlaying, video, upNext, speedShown,
          call, send, saved, screen, routes, skew, crossed, told>>

-----------------------------------------------------------------------------
Indices == 0 .. NumLectures - 1
LmNums  == (1 - MaxDrift) .. (NumLectures + MaxDrift)
Minutes == 0 .. MaxMinute
Speeds  == MinSpeed .. MaxSpeed
NoTime  == -1

Videos == [index : Indices, ready : BOOLEAN, position : Minutes,
           ended : BOOLEAN, speed : Speeds]

\* A task waits for check_log ("check"), has been told to stop ("refused"),
\* waits for get_time ("time"), or holds its answer ("got").
Tasks    == [pc : {"idle", "check", "refused", "time", "got"},
             asked : LmNums, time : Minutes]
IdleTask == [pc |-> "idle", asked |-> 1, time |-> 0]

Reports  == [pending : BOOLEAN, lm : LmNums, time : Minutes]
NoReport == [pending |-> FALSE, lm |-> 1, time |-> 0]

Routes == {"Player", "Home", "Login", "Ended"}

TypeOK ==
  /\ lm_num \in LmNums
  /\ current_time \in Minutes \cup {NoTime}
  /\ currentPlaying \in Indices
  /\ video \in Videos
  /\ upNext \subseteq Indices
  /\ speedShown \in Speeds
  /\ call \in [Calls -> Tasks]
  /\ send \in [Sends -> Reports]
  /\ saved \in [LmNums -> Minutes]
  /\ screen \in {"open", "exiting", "gone"}
  /\ routes \in Seq(Routes)
  /\ skew \in Int
  /\ crossed \in BOOLEAN
  /\ told \in BOOLEAN

-----------------------------------------------------------------------------
(* DataManager and the video controller.                                   *)

\* A new VideoPlayerController: not initialised, at zero, at speed 1.0.
Load(i) == [index |-> i, ready |-> FALSE, position |-> 0, ended |-> FALSE,
            speed |-> NormalSpeed]

hasNextVideo     == currentPlaying # NumLectures - 1
hasPreviousVideo == currentPlaying # 0

\* handleChangeVideo without a duration. Whether the library then drops an
\* auto-play timer that is still running is left open.
ChangeVideo(i) ==
  /\ video' = Load(i)
  /\ upNext' \in {upNext, {}}
  /\ crossed' = (crossed \/ upNext' # {})

\* Mutant: the guard of skipToNextVideo is forgotten.
skipToNextVideoUnguarded ==
  ChangeVideo(currentPlaying + 1) /\ currentPlaying' = currentPlaying + 1

skipToNextVideo ==
  IF hasNextVideo
  THEN ChangeVideo(currentPlaying + 1) /\ currentPlaying' = currentPlaying + 1
  ELSE UNCHANGED <<video, upNext, currentPlaying, crossed>>

\* Mutant: the previous video is loaded and the index is left where it was.
skipToPreviousVideoIndexKept ==
  IF hasPreviousVideo
  THEN ChangeVideo(currentPlaying - 1) /\ UNCHANGED currentPlaying
  ELSE UNCHANGED <<video, upNext, currentPlaying, crossed>>

skipToPreviousVideo ==
  IF hasPreviousVideo
  THEN currentPlaying' = currentPlaying - 1 /\ ChangeVideo(currentPlaying - 1)
  ELSE UNCHANGED <<video, upNext, currentPlaying, crossed>>

\* The controller of the current video finishes its initialisation.
VideoReady ==
  /\ screen # "gone" /\ ~video.ready
  /\ video' = [video EXCEPT !.ready = TRUE]
  /\ UNCHANGED <<lm_num, current_time, currentPlaying, upNext, speedShown, call,
                 send, saved, screen, routes, skew, crossed, told>>

\* The video plays on, or the viewer drags the progress bar, to minute p.
Watch(p) ==
  /\ screen # "gone" /\ video.ready /\ video.position # p
  /\ video' = [video EXCEPT !.position = p, !.ended = FALSE]
  /\ UNCHANGED <<lm_num, current_time, currentPlaying, upNext, speedShown, call,
                 send, saved, screen, routes, skew, crossed, told>>

\* onVideoEnd: skipToNextVideo(Duration(seconds: 5)). Only currentPlaying
\* moves now; the video is changed by the timer.
VideoEnds ==
  /\ screen # "gone" /\ video.ready /\ video.position = MaxMinute /\ ~video.ended
  /\ video' = [video EXCEPT !.ended = TRUE]
  /\ IF hasNextVideo
     THEN /\ upNext' = upNext \cup {currentPlaying + 1}
          /\ currentPlaying' = currentPlaying + 1
          /\ skew' = skew - 1
          /\ crossed' = (crossed \/ upNext # {})
     ELSE UNCHANGED <<upNext, currentPlaying, skew, crossed>>
  /\ UNCHANGED <<lm_num, current_time, speedShown, call, send, saved, screen, routes, told>>

\* The five seconds are over.
AutoPlayFires(i) ==
  /\ screen # "gone" /\ i \in upNext
  /\ video' = Load(i)
  /\ upNext' = upNext \ {i}
  /\ UNCHANGED <<lm_num, current_time, currentPlaying, speedShown, call, send,
                 saved, screen, routes, skew, crossed, told>>

-----------------------------------------------------------------------------
(* The buttons of MediaControl.                                            *)

\* Mutant: the index, which counts from zero, is reported for the lecture.
sendPlayTimeOfIndex(s) ==
  /\ ~send[s].pending
  /\ send' = [send EXCEPT ![s] =
                [pending |-> TRUE, lm |-> currentPlaying, time |-> video.position]]

\* sendPlayTime, not awaited: the report leaves with the values of this moment.
sendPlayTime(s) ==
  /\ ~send[s].pending
  /\ send' = [send EXCEPT ![s] =
                [pending |-> TRUE, lm |-> lm_num, time |-> video.position]]

\* initPlayer up to its first await: the check_log request is sent.
initPlayer(c) ==
  /\ call[c].pc = "idle"
  /\ call' = [call EXCEPT ![c].pc = "check"]

NextPressed(c, s) ==
  /\ screen = "open"
  /\ lm_num + 1 \in LmNums
  /\ current_time' = video.position
  /\ sendPlayTime(s)
  /\ lm_num' = lm_num + 1
  /\ skipToNextVideo
  /\ initPlayer(c)
  /\ skew' = IF hasNextVideo THEN skew ELSE skew + 1
  /\ UNCHANGED <<speedShown, saved, screen, routes, told>>

PreviousPressed(c, s) ==
  /\ screen = "open"
  /\ lm_num - 1 \in LmNums
  /\ current_time' = video.position
  /\ sendPlayTime(s)
  /\ lm_num' = lm_num - 1
  /\ skipToPreviousVideo
  /\ initPlayer(c)
  /\ skew' = IF hasPreviousVideo THEN skew ELSE skew - 1
  /\ UNCHANGED <<speedShown, saved, screen, routes, told>>

\* Both speed buttons give the controller the number they show.
SetSpeed(v) ==
  /\ screen = "open"
  /\ speedShown' = v
  /\ video' = [video EXCEPT !.speed = v]
  /\ UNCHANGED <<lm_num, current_time, currentPlaying, upNext, call, send, saved,
                 screen, routes, skew, crossed, told>>

Slower == SetSpeed(IF speedShown <= MinSpeed THEN MinSpeed ELSE speedShown - 1)
Faster == SetSpeed(IF speedShown >= MaxSpeed THEN MaxSpeed ELSE speedShown + 1)

\* Navigator.pop removes whatever route is on top.
ClosedByPop == IF Head(routes) = "Player" THEN "exiting" ELSE screen

\* The arrow at the top: a last report (fin = 'Y') and a pop.
BackPressed(s) ==
  /\ screen = "open" /\ routes # <<>>
  /\ current_time' = video.position
  /\ sendPlayTime(s)
  /\ routes' = Tail(routes)
  /\ screen' = ClosedByPop
  /\ UNCHANGED <<lm_num, currentPlaying, video, upNext, speedShown, call, saved,
                 skew, crossed, told>>

\* The phone's own back button or gesture: a pop and no report.
SystemBack ==
  /\ screen = "open" /\ routes # <<>>
  /\ routes' = Tail(routes)
  /\ screen' = ClosedByPop
  /\ UNCHANGED <<lm_num, current_time, currentPlaying, video, upNext, speedShown,
                 call, send, saved, skew, crossed, told>>

\* The exit transition ends and the route's states are disposed.
Disposed ==
  /\ screen = "exiting"
  /\ screen' = "gone"
  /\ upNext' = {}
  /\ UNCHANGED <<lm_num, current_time, currentPlaying, video, speedShown, call,
                 send, saved, routes, skew, crossed, told>>

-----------------------------------------------------------------------------
(* The rest of initPlayer: getLastLog, then getPlayTime, then the resume.  *)

\* check_log answers that this device still holds the lecture; only now does
\* setPlayTime read lm_num for its second request.
CheckPassed(c) ==
  /\ call[c].pc = "check"
  /\ call' = [call EXCEPT ![c].pc = "time", ![c].asked = lm_num]
  /\ UNCHANGED <<lm_num, current_time, currentPlaying, video, upNext, speedShown,
                 send, saved, screen, routes, skew, crossed, told>>

\* check_log answers "none" or another device's UUID.
CheckRefused(c) ==
  /\ call[c].pc = "check"
  /\ call' = [call EXCEPT ![c].pc = "refused"]
  /\ UNCHANGED <<lm_num, current_time, currentPlaying, video, upNext, speedShown,
                 send, saved, screen, routes, skew, crossed, told>>

\* Seeking is ignored by a controller that is not initialised.
SeekTo(t) == IF video.ready
             THEN [video EXCEPT !.position = t, !.ended = FALSE]
             ELSE video

\* Mutant: the dialog is shown over a player that is not popped.
EndLectureWithoutPop(c) ==
  /\ call[c].pc = "refused"
  /\ call' = [call EXCEPT ![c] = IdleTask]
  /\ routes' = IF screen # "gone" THEN <<"Ended">> \o routes ELSE routes
  /\ told' = (told \/ screen # "gone")
  /\ speedShown' = NormalSpeed
  /\ UNCHANGED <<lm_num, current_time, currentPlaying, video, upNext, send, saved,
                 screen, skew, crossed>>

\* Mutant: the navigator is reached without the state's context, so that a
\* refusal still pops after the player is gone.
EndLectureUnmounted(c) ==
  /\ call[c].pc = "refused"
  /\ call' = [call EXCEPT ![c] = IdleTask]
  /\ routes' = IF routes # <<>> THEN <<"Ended">> \o Tail(routes) ELSE routes
  /\ screen' = IF routes # <<>> THEN ClosedByPop ELSE screen
  /\ told' = (told \/ routes # <<>>)
  /\ UNCHANGED <<lm_num, current_time, currentPlaying, video, upNext, speedShown,
                 send, saved, skew, crossed>>

\* The refusal is handled: pop, the "lecture ended" dialog, fin = 1, and the
\* tail of initPlayer runs all the same with the current_time it finds. Once
\* the state is disposed its context throws and the task dies.
EndLecture(c) ==
  /\ call[c].pc = "refused"
  /\ call' = [call EXCEPT ![c] = IdleTask]
  /\ IF screen # "gone" /\ routes # <<>>
     THEN /\ routes' = <<"Ended">> \o Tail(routes)
          /\ screen' = ClosedByPop
          /\ video' = SeekTo(IF current_time = NoTime THEN 0 ELSE current_time)
          /\ speedShown' = NormalSpeed
          /\ told' = TRUE
     ELSE UNCHANGED <<routes, screen, video, speedShown, told>>
  /\ UNCHANGED <<lm_num, current_time, currentPlaying, upNext, send, saved, skew, crossed>>

\* The backend answers get_time with the viewing point it has at this moment.
TimeAnswered(c) ==
  /\ call[c].pc = "time"
  /\ call' = [call EXCEPT ![c].pc = "got", ![c].time = saved[call[c].asked]]
  /\ UNCHANGED <<lm_num, current_time, currentPlaying, video, upNext, speedShown,
                 send, saved, screen, routes, skew, crossed, told>>

\* setPlayTime stores the answer; initPlayer seeks and resets the speed shown.
Resume(c) ==
  /\ call[c].pc = "got"
  /\ call' = [call EXCEPT ![c] = IdleTask]
  /\ current_time' = call[c].time
  /\ IF screen # "gone"
     THEN video' = SeekTo(call[c].time) /\ speedShown' = NormalSpeed
     ELSE UNCHANGED <<video, speedShown>>
  /\ UNCHANGED <<lm_num, currentPlaying, upNext, send, saved, screen, routes, skew,
                 crossed, told>>

\* A request fails or its answer does not parse: nobody catches the exception.
CallFails(c) ==
  /\ call[c].pc \in {"check", "time"}
  /\ call' = [call EXCEPT ![c] = IdleTask]
  /\ UNCHANGED <<lm_num, current_time, currentPlaying, video, upNext, speedShown,
                 send, saved, screen, routes, skew, crossed, told>>

-----------------------------------------------------------------------------
(* The backend's store of viewing points, and the dialog's OK button.      *)

ReportStored(s) ==
  /\ send[s].pending
  /\ saved' = [saved EXCEPT ![send[s].lm] = send[s].time]
  /\ send' = [send EXCEPT ![s] = NoReport]
  /\ UNCHANGED <<lm_num, current_time, currentPlaying, video, upNext, speedShown,
                 call, screen, routes, skew, crossed, told>>

ReportLost(s) ==
  /\ send[s].pending
  /\ send' = [send EXCEPT ![s] = NoReport]
  /\ UNCHANGED <<lm_num, current_time, currentPlaying, video, upNext, speedShown,
                 call, saved, screen, routes, skew, crossed, told>>

DialogOk ==
  /\ routes # <<>> /\ Head(routes) = "Ended"
  /\ routes' = Tail(routes)
  /\ UNCHANGED <<lm_num, current_time, currentPlaying, video, upNext, speedShown,
                 call, send, saved, screen, skew, crossed, told>>

-----------------------------------------------------------------------------
\* Player.initState and MediaControl.initState: the page chose lecture lm_num
\* of the chapter, the first initPlayer has sent its check.
Init ==
  /\ lm_num \in 1 .. NumLectures
  /\ current_time = NoTime
  /\ currentPlaying = lm_num - 1
  /\ video = Load(lm_num - 1)
  /\ upNext = {}
  /\ speedShown = NormalSpeed
  /\ call \in {[d \in Calls |-> IF d = c THEN [IdleTask EXCEPT !.pc = "check"] ELSE IdleTask]
                 : c \in Calls}
  /\ send = [s \in Sends |-> NoReport]
  /\ saved \in [LmNums -> Minutes]
  /\ screen = "open"
  /\ routes = <<"Player", "Home", "Login">>
  /\ skew = 0
  /\ crossed = FALSE
  /\ told = FALSE

Next ==
  \/ VideoReady
  \/ \E p \in Minutes : Watch(p)
  \/ VideoEnds
  \/ \E i \in Indices : AutoPlayFires(i)
  \/ \E c \in Calls, s \in Sends : NextPressed(c, s)
  \/ \E c \in Calls, s \in Sends : PreviousPressed(c, s)
  \/ Slower
  \/ Faster
  \/ \E s \in Sends : BackPressed(s)
  \/ SystemBack
  \/ Disposed
  \/ \E c \in Calls : CheckPassed(c)
  \/ \E c \in Calls : CheckRefused(c)
  \/ \E c \in Calls : EndLecture(c)
  \/ \E c \in Calls : TimeAnswered(c)
  \/ \E c \in Calls : Resume(c)
  \/ \E c \in Calls : CallFails(c)
  \/ \E s \in Sends : ReportStored(s)
  \/ \E s \in Sends : ReportLost(s)
  \/ DialogOk

Spec == Init /\ [][Next]_vars

\* The event loop runs every continuation it has queued and the exit
\* transition ends; nothing is assumed of the viewer or of the network.
FairSpec == Spec /\ WF_vars(Disposed) /\ \A c \in Calls : WF_vars(EndLecture(c))

-----------------------------------------------------------------------------
(* Properties.                                                             *)

\* Next and previous move lm_num and currentPlaying by separate code, one
\* without a bound and one with, and the end of a video moves only the index.
\* Whatever the order, the two differ by exactly the presses that found no
\* lecture to go to and the lectures that started by themselves: no task that
\* answers late and no timer adds to the difference.
DriftAccounted == lm_num - 1 - currentPlaying = skew

\* The loaded video is the one the index names, or its auto-play timer is the
\* only one running and the index is one ahead of it. This ends when the list
\* is moved while a timer runs: the timer that was not cancelled will load a
\* video the index has left (data_manager.dart:38-54).
VideoIsCurrent ==
  screen # "gone" /\ ~crossed =>
    \/ upNext = {} /\ video.index = currentPlaying
    \/ upNext = {currentPlaying} /\ video.index = currentPlaying - 1

\* What a report is worth next to the violated ReportNamesLecture: it names the
\* lecture whose position it carries as long as no press was ignored, nothing
\* started by itself and no timer was crossed, whatever the tasks in flight
\* have done to the PlayTime record (media_control.dart:255-273, :302-321).
ReportNamesUnlessDrifted ==
  [][\A s \in Sends : /\ ~send[s].pending /\ send'[s].pending
                      /\ skew = 0 /\ upNext = {} /\ ~crossed
                      => send'[s].lm = video.index + 1]_vars

\* While the player is open it is the top route and the screens under it are
\* whole: no check answered in the background has removed another route, so
\* that the arrow and the phone's back button close the player itself.
OpenPlayerOnTop == screen = "open" => routes = <<"Player", "Home", "Login">>

OnStack(r) == \E i \in DOMAIN routes : routes[i] = r

\* getLastLog pops whatever is on top. The home screen is lost to it only in
\* one window: a refusal handled during the exit transition of a player that
\* was already popped. A refusal that arrives later removes nothing.
HomeLostOnlyWhileExiting ==
  [][OnStack("Home") /\ ~OnStack("Home")' => screen = "exiting"]_vars

\* A refusal that ran its course has taken the player off the screen for good,
\* whatever other checks, reports and timers are in flight.
ToldPlayerIsClosed == told => ~OnStack("Player")

\* A player told that its session ended or that another device watches does
\* stop, however many other checks, reports and timers are in flight.
RefusalClosesPlayer ==
  \A c \in Calls : call[c].pc = "refused" ~> ~OnStack("Player")

\* This player as the stack of PlayerStack.tla sees it: one player, its tasks
\* the slots of its checks, and a home screen that is open while it is on the
\* stack.
LifeOnStack  == [r \in {"Player", "Home"} |->
                   IF r = "Player" THEN screen
                   ELSE IF OnStack("Home") THEN "open" ELSE "exiting"]
CheckSlot(c) == CASE call[c].pc = "check"   -> "asked"
                  [] call[c].pc = "refused" -> "refused"
                  [] OTHER                  -> "idle"
CheckSlots   == [i \in {"Player"} |-> [c \in Calls |-> CheckSlot(c)]]
PlayersTold  == IF told THEN {"Player"} ELSE {}

Stack == INSTANCE PlayerStack WITH
  Players <- {"Player"}, Slots <- Calls, MaxStarts <- 1,
  life <- LifeOnStack, check <- CheckSlots, told <- PlayersTold,
  page <- 0, listing <- 0, overlapped <- FALSE

\* PlayerStack leaves out what a player does inside; this is its licence: every
\* press, timer, answer and report of a player is a step of that stack, or none
\* (media_control.dart:427 and :493-552 for the pops).
StepsOfStack == [][Stack!Next]_(Stack!vars)

\* Claim of play_time.dart:7 and :10 (lm_num is the lecture within the
\* chapter, current_time its point to resume at): a progress report names the
\* lecture whose position it carries.
ReportNamesLecture ==
  [][\A s \in Sends : ~send[s].pending /\ send'[s].pending
                         => send'[s].lm = video.index + 1]_vars

\* Claim of media_control.dart:59 and :479 ("resume", "get the current viewing
\* point"): even while lm_num and the index agree, the point a resume seeks to
\* is the one of the lecture that is loaded.
ResumeIsForLecture ==
  [][\A c \in Calls : call[c].pc = "got" /\ call'[c].pc = "idle" /\ screen = "open"
                        /\ video.ready /\ skew = 0
                         => call[c].asked = video.index + 1]_vars
=============================================================================
