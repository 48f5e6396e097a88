------------------------- MODULE LecturePlayerProofs -------------------------
(***************************************************************************)
(* Proofs about LecturePlayer, for every list length, number of tasks and  *)
(* reports in flight, drift bound and speed range.                         *)
(*                                                                         *)
(* TypeOK alone is inductive. DriftAccounted and VideoIsCurrent need it    *)
(* for the arithmetic, and what they say of a moment together is what a    *)
(* report needs. OpenPlayerOnTop is inductive beside TypeOK and bears the  *)
(* action property; RoutesInv adds where a player on its way out and one   *)
(* that was told can still be on the stack. With it every step is matched  *)
(* with one of PlayerStack's.                                              *)
(***************************************************************************)
EXTENDS LecturePlayer, TLAPS

\* The type invariant: in particular the index into the play list stays in
\* range through every order of presses, video ends and timers
\* (data_manager.dart:38-54).
THEOREM TypeCorrect == Spec => []TypeOK
<1> USE ListAssumption, SpeedAssumption
<1>1. Init => TypeOK
  <2> SUFFICES ASSUME Init PROVE TypeOK
    OBVIOUS
  <2>1. lm_num \in LmNums /\ lm_num - 1 \in Indices
    BY DEF Init, LmNums, Indices
  <2>2. video \in Videos
    BY <2>1 DEF Init, Load, Videos, Minutes, Speeds
  <2>3. IdleTask \in Tasks /\ [IdleTask EXCEPT !.pc = "check"] \in Tasks /\ NoReport \in Reports
    BY DEF IdleTask, Tasks, NoReport, Reports, LmNums, Minutes
  <2>4. call \in [Calls -> Tasks]
    BY <2>3 DEF Init
  <2>5. send \in [Sends -> Reports]
    BY <2>3 DEF Init
  <2>6. routes \in Seq(Routes)
    BY DEF Init, Routes
  <2>7. crossed \in BOOLEAN /\ told \in BOOLEAN
    BY DEF Init
  <2> QED
    BY <2>1, <2>2, <2>4, <2>5, <2>6, <2>7 DEF Init, TypeOK, Speeds
<1>2. TypeOK /\ [Next]_vars => TypeOK'
  <2> SUFFICES ASSUME TypeOK, [Next]_vars PROVE TypeOK'
    OBVIOUS
  <2> USE DEF TypeOK
  <2>a. \A i \in Indices : Load(i) \in Videos
    BY DEF Load, Videos, Minutes, Speeds
  <2>b. \A t \in Minutes : SeekTo(t) \in Videos
    BY DEF SeekTo, Videos
  <2>c. \A s \in Sends : sendPlayTime(s) => send' \in [Sends -> Reports]
    BY DEF sendPlayTime, Reports, Videos
  <2>d. \A c \in Calls : initPlayer(c) => call' \in [Calls -> Tasks]
    <3>1. \A c \in Calls : [call[c] EXCEPT !.pc = "check"] \in Tasks
      BY DEF Tasks
    <3> QED
      BY <3>1 DEF initPlayer
  <2>e. IdleTask \in Tasks /\ NoReport \in Reports
    BY DEF IdleTask, Tasks, NoReport, Reports, LmNums, Minutes
  <2>1. CASE VideoReady
    BY <2>1 DEF VideoReady, Videos
  <2>2. ASSUME NEW p \in Minutes, Watch(p) PROVE TypeOK'
    BY <2>2 DEF Watch, Videos
  <2>3. CASE VideoEnds
    <3>1. video' \in Videos
      BY <2>3 DEF VideoEnds, Videos
    <3>2. currentPlaying' \in Indices /\ upNext' \subseteq Indices /\ skew' \in Int
      BY <2>3 DEF VideoEnds, hasNextVideo, Indices
    <3> QED
      BY <2>3, <3>1, <3>2 DEF VideoEnds
  <2>4. ASSUME NEW i \in Indices, AutoPlayFires(i) PROVE TypeOK'
    BY <2>4, <2>a DEF AutoPlayFires
  <2>5. ASSUME NEW c \in Calls, NEW s \in Sends, NextPressed(c, s) PROVE TypeOK'
    <3>1. currentPlaying' \in Indices /\ video' \in Videos /\ upNext' \subseteq Indices
      <4>1. CASE hasNextVideo
        <5>1. currentPlaying + 1 \in Indices
          BY <4>1 DEF hasNextVideo, Indices
        <5> QED
          BY <2>5, <4>1, <5>1, <2>a DEF NextPressed, skipToNextVideo, ChangeVideo
      <4>2. CASE ~hasNextVideo
        BY <2>5, <4>2 DEF NextPressed, skipToNextVideo
      <4> QED BY <4>1, <4>2
    <3>2. skew' \in Int /\ video.position \in Minutes
      BY <2>5 DEF NextPressed, Videos
    <3>3. crossed' \in BOOLEAN
      BY <2>5 DEF NextPressed, skipToNextVideo, ChangeVideo
    <3> QED
      BY <2>5, <2>c, <2>d, <3>1, <3>2, <3>3 DEF NextPressed
  <2>6. ASSUME NEW c \in Calls, NEW s \in Sends, PreviousPressed(c, s) PROVE TypeOK'
    <3>1. currentPlaying' \in Indices /\ video' \in Videos /\ upNext' \subseteq Indices
      <4>1. CASE hasPreviousVideo
        <5>1. currentPlaying - 1 \in Indices
          BY <4>1 DEF hasPreviousVideo, Indices
        <5> QED
          BY <2>6, <4>1, <5>1, <2>a DEF PreviousPressed, skipToPreviousVideo, ChangeVideo
      <4>2. CASE ~hasPreviousVideo
        BY <2>6, <4>2 DEF PreviousPressed, skipToPreviousVideo
      <4> QED BY <4>1, <4>2
    <3>2. skew' \in Int /\ video.position \in Minutes
      BY <2>6 DEF PreviousPressed, Videos
    <3>3. crossed' \in BOOLEAN
      BY <2>6 DEF PreviousPressed, skipToPreviousVideo, ChangeVideo
    <3> QED
      BY <2>6, <2>c, <2>d, <3>1, <3>2, <3>3 DEF PreviousPressed
  <2>f. \A v \in Speeds : SetSpeed(v) => TypeOK'
    BY DEF SetSpeed, Videos
  <2>7. CASE Slower
    BY <2>7, <2>f DEF Slower, Speeds
  <2>8. CASE Faster
    BY <2>8, <2>f DEF Faster, Speeds
  <2>9. ASSUME NEW s \in Sends, BackPressed(s) PROVE TypeOK'
    <3>1. routes' \in Seq(Routes) /\ screen' \in {"open", "exiting", "gone"}
      BY <2>9 DEF BackPressed, ClosedByPop
    <3>2. video.position \in Minutes
      BY DEF Videos
    <3> QED
      BY <2>9, <2>c, <3>1, <3>2 DEF BackPressed
  <2>10. CASE SystemBack
    BY <2>10 DEF SystemBack, ClosedByPop
  <2>11. CASE Disposed
    BY <2>11 DEF Disposed
  <2>12. ASSUME NEW c \in Calls, CheckPassed(c) PROVE TypeOK'
    BY <2>12 DEF CheckPassed, Tasks
  <2>13. ASSUME NEW c \in Calls, CheckRefused(c) PROVE TypeOK'
    BY <2>13 DEF CheckRefused, Tasks
  <2>14. ASSUME NEW c \in Calls, EndLecture(c) PROVE TypeOK'
    <3>a. \/ routes' = <<"Ended">> \o Tail(routes) /\ routes # <<>>
          \/ routes' = routes
      BY <2>14 DEF EndLecture
    <3>b. <<"Ended">> \in Seq(Routes)
      BY DEF Routes
    <3>1. routes' \in Seq(Routes) /\ screen' \in {"open", "exiting", "gone"}
      <4>1. routes' \in Seq(Routes)
        BY <3>a, <3>b
      <4>2. screen' \in {"open", "exiting", "gone"}
        BY <2>14 DEF EndLecture, ClosedByPop
      <4> QED
        BY <4>1, <4>2
    <3>2. video' \in Videos /\ speedShown' \in Speeds
      BY <2>14, <2>b DEF EndLecture, Minutes, NoTime, Speeds
    <3>3. told' \in BOOLEAN
      BY <2>14 DEF EndLecture
    <3> QED
      BY <2>14, <2>e, <3>1, <3>2, <3>3 DEF EndLecture
  <2>15. ASSUME NEW c \in Calls, TimeAnswered(c) PROVE TypeOK'
    BY <2>15 DEF TimeAnswered, Tasks
  <2>16. ASSUME NEW c \in Calls, Resume(c) PROVE TypeOK'
    <3>1. call[c].time \in Minutes
      BY DEF Tasks
    <3> QED
      BY <2>16, <2>b, <2>e, <3>1 DEF Resume, Speeds
  <2>17. ASSUME NEW c \in Calls, CallFails(c) PROVE TypeOK'
    BY <2>17, <2>e DEF CallFails
  <2>18. ASSUME NEW s \in Sends, ReportStored(s) PROVE TypeOK'
    BY <2>18, <2>e DEF ReportStored, Reports
  <2>19. ASSUME NEW s \in Sends, ReportLost(s) PROVE TypeOK'
    BY <2>19, <2>e DEF ReportLost
  <2>20. CASE DialogOk
    BY <2>20 DEF DialogOk
  <2>21. CASE UNCHANGED vars
    BY <2>21 DEF vars
  <2> QED
    BY <2>1, <2>2, <2>3, <2>4, <2>5, <2>6, <2>7, <2>8, <2>9, <2>10, <2>11, <2>12,
       <2>13, <2>14, <2>15, <2>16, <2>17, <2>18, <2>19, <2>20, <2>21 DEF Next
<1> QED
  BY <1>1, <1>2, PTL DEF Spec

-----------------------------------------------------------------------------
\* lm_num and the index differ by exactly the ignored presses and the auto-
\* plays (media_control.dart:272 and :320 against data_manager.dart:38-54).
THEOREM DriftIsAccounted == Spec => []DriftAccounted
<1>1. Init => DriftAccounted
  BY ListAssumption DEF Init, DriftAccounted
<1>2. TypeOK /\ DriftAccounted /\ [Next]_vars => DriftAccounted'
  <2> SUFFICES ASSUME TypeOK, DriftAccounted, [Next]_vars PROVE DriftAccounted'
    OBVIOUS
  <2>0. lm_num \in Int /\ currentPlaying \in Int /\ skew \in Int
    BY ListAssumption DEF TypeOK, LmNums, Indices
  <2> USE <2>0 DEF DriftAccounted
  <2>1. CASE VideoEnds
    BY <2>1 DEF VideoEnds
  <2>2. ASSUME NEW c \in Calls, NEW s \in Sends, NextPressed(c, s) PROVE DriftAccounted'
    BY <2>2 DEF NextPressed, skipToNextVideo
  <2>3. ASSUME NEW c \in Calls, NEW s \in Sends, PreviousPressed(c, s) PROVE DriftAccounted'
    BY <2>3 DEF PreviousPressed, skipToPreviousVideo
  <2>4. CASE UNCHANGED <<lm_num, currentPlaying, skew>>
    BY <2>4
  <2>5. VideoReady \/ Slower \/ Faster \/ SystemBack \/ Disposed \/ DialogOk
           => UNCHANGED <<lm_num, currentPlaying, skew>>
    BY DEF VideoReady, Slower, Faster, SetSpeed, SystemBack, Disposed, DialogOk
  <2>6. \A p \in Minutes : Watch(p) => UNCHANGED <<lm_num, currentPlaying, skew>>
    BY DEF Watch
  <2>7. \A i \in Indices : AutoPlayFires(i) => UNCHANGED <<lm_num, currentPlaying, skew>>
    BY DEF AutoPlayFires
  <2>8. \A c \in Calls : CheckPassed(c) \/ CheckRefused(c) \/ EndLecture(c) \/ TimeAnswered(c)
                           \/ Resume(c) \/ CallFails(c)
                         => UNCHANGED <<lm_num, currentPlaying, skew>>
    BY DEF CheckPassed, CheckRefused, EndLecture, TimeAnswered, Resume, CallFails
  <2>9. \A s \in Sends : BackPressed(s) \/ ReportStored(s) \/ ReportLost(s)
                         => UNCHANGED <<lm_num, currentPlaying, skew>>
    BY DEF BackPressed, ReportStored, ReportLost
  <2>10. CASE UNCHANGED vars
    BY <2>10 DEF vars
  <2> QED
    BY <2>1, <2>2, <2>3, <2>4, <2>5, <2>6, <2>7, <2>8, <2>9, <2>10 DEF Next
<1> QED
  BY <1>1, <1>2, TypeCorrect, PTL DEF Spec

-----------------------------------------------------------------------------
(* The loaded video and the index.                                         *)

\* Every action but these five leaves the index, the loaded video's index and
\* the timers alone, and brings no disposed player back.
LEMMA ListMoves ==
  ASSUME TypeOK, [Next]_vars
  PROVE  \/ /\ UNCHANGED <<currentPlaying, upNext, crossed>>
            /\ video'.index = video.index
            /\ screen' # "gone" => screen # "gone"
         \/ VideoEnds
         \/ Disposed
         \/ \E i \in Indices : AutoPlayFires(i)
         \/ \E c \in Calls, s \in Sends : NextPressed(c, s)
         \/ \E c \in Calls, s \in Sends : PreviousPressed(c, s)
<1> DEFINE Still == /\ UNCHANGED <<currentPlaying, upNext, crossed>>
                    /\ video'.index = video.index
                    /\ screen' # "gone" => screen # "gone"
<1>0. \A t \in Int : SeekTo(t).index = video.index
  BY DEF SeekTo, TypeOK, Videos
<1>1. VideoReady => Still
  BY DEF VideoReady, TypeOK, Videos
<1>2. \A p \in Minutes : Watch(p) => Still
  BY DEF Watch, TypeOK, Videos
<1>3. Slower \/ Faster => Still
  BY DEF Slower, Faster, SetSpeed, TypeOK, Videos
<1>4. \A s \in Sends : BackPressed(s) \/ ReportStored(s) \/ ReportLost(s) => Still
  BY DEF BackPressed, ReportStored, ReportLost
<1>5. SystemBack \/ DialogOk => Still
  BY DEF SystemBack, DialogOk
<1>6. \A c \in Calls : CheckPassed(c) \/ CheckRefused(c) \/ TimeAnswered(c) \/ CallFails(c)
                       => Still
  BY DEF CheckPassed, CheckRefused, TimeAnswered, CallFails
<1>7. ASSUME NEW c \in Calls, EndLecture(c) PROVE Still
  BY <1>7, <1>0, ListAssumption DEF EndLecture, TypeOK, NoTime, Minutes
<1>8. ASSUME NEW c \in Calls, Resume(c) PROVE Still
  <2>1. call[c].time \in Int
    BY ListAssumption DEF TypeOK, Tasks, Minutes
  <2> QED
    BY <1>8, <1>0, <2>1 DEF Resume
<1>9. CASE UNCHANGED vars
  BY <1>9 DEF vars
<1> QED
  BY <1>1, <1>2, <1>3, <1>4, <1>5, <1>6, <1>7, <1>8, <1>9 DEF Next

\* As long as no timer was crossed, the loaded video is the index's, or the one
\* before it with the timer running (data_manager.dart:38-54).
THEOREM VideosAreCurrent == Spec => []VideoIsCurrent
<1>1. Init => VideoIsCurrent
  BY DEF Init, VideoIsCurrent, Load
<1>2. TypeOK /\ VideoIsCurrent /\ [Next]_vars => VideoIsCurrent'
  <2> SUFFICES ASSUME TypeOK, VideoIsCurrent, [Next]_vars, screen' # "gone", ~crossed'
               PROVE  \/ upNext' = {} /\ video'.index = currentPlaying'
                      \/ upNext' = {currentPlaying'} /\ video'.index = currentPlaying' - 1
    BY DEF VideoIsCurrent
  <2>0. currentPlaying \in Int /\ video.index \in Int
    BY ListAssumption DEF TypeOK, Indices, Videos
  <2>1. CASE VideoEnds
    <3>1. video'.index = video.index /\ screen # "gone" /\ ~crossed
      BY <2>1 DEF VideoEnds, TypeOK, Videos
    <3>2. CASE hasNextVideo
      <4>1. upNext = {} /\ video.index = currentPlaying
        BY <2>1, <3>1, <3>2 DEF VideoEnds, VideoIsCurrent
      <4> QED
        BY <2>0, <2>1, <3>1, <3>2, <4>1 DEF VideoEnds
    <3>3. CASE ~hasNextVideo
      BY <2>1, <3>1, <3>3 DEF VideoEnds, VideoIsCurrent
    <3> QED
      BY <3>2, <3>3
  <2>2. ~Disposed
    BY DEF Disposed
  <2>3. ASSUME NEW i \in Indices, AutoPlayFires(i)
        PROVE  upNext' = {} /\ video'.index = currentPlaying'
    <3>1. screen # "gone" /\ ~crossed /\ i \in upNext
      BY <2>3 DEF AutoPlayFires
    <3>2. upNext = {currentPlaying} /\ i = currentPlaying
      BY <3>1 DEF VideoIsCurrent
    <3> QED
      BY <2>3, <3>2 DEF AutoPlayFires, Load
  <2>4. ASSUME NEW j \in Int, ChangeVideo(j), currentPlaying' = j
        PROVE  upNext' = {} /\ video'.index = currentPlaying'
    BY <2>4 DEF ChangeVideo, Load
  <2>5. ASSUME UNCHANGED <<video, upNext, currentPlaying, crossed>>, screen = "open"
        PROVE  VideoIsCurrent'
    BY <2>5 DEF VideoIsCurrent
  <2>6. ASSUME NEW c \in Calls, NEW s \in Sends, NextPressed(c, s)
        PROVE  VideoIsCurrent'
    BY <2>0, <2>4, <2>5, <2>6 DEF NextPressed, skipToNextVideo, VideoIsCurrent
  <2>7. ASSUME NEW c \in Calls, NEW s \in Sends, PreviousPressed(c, s)
        PROVE  VideoIsCurrent'
    BY <2>0, <2>4, <2>5, <2>7 DEF PreviousPressed, skipToPreviousVideo, VideoIsCurrent
  <2>8. CASE /\ UNCHANGED <<currentPlaying, upNext, crossed>>
             /\ video'.index = video.index
             /\ screen' # "gone" => screen # "gone"
    BY <2>8 DEF VideoIsCurrent
  <2> QED
    BY <2>1, <2>2, <2>3, <2>6, <2>7, <2>8, ListMoves DEF VideoIsCurrent
<1> QED
  BY <1>1, <1>2, TypeCorrect, PTL DEF Spec

\* A report leaves only from an open player, with the lm_num of that moment.
LEMMA ReportsLeave ==
  ASSUME TypeOK, [Next]_vars, NEW s \in Sends, ~send[s].pending, send'[s].pending
  PROVE  screen = "open" /\ send'[s].lm = lm_num
<1>1. ASSUME NEW t \in Sends, sendPlayTime(t) PROVE send'[s].lm = lm_num
  BY <1>1 DEF sendPlayTime, TypeOK
<1>2. \A c \in Calls, t \in Sends :
        NextPressed(c, t) \/ PreviousPressed(c, t) => screen = "open" /\ sendPlayTime(t)
  BY DEF NextPressed, PreviousPressed
<1>3. \A t \in Sends : BackPressed(t) => screen = "open" /\ sendPlayTime(t)
  BY DEF BackPressed
<1>4. \A t \in Sends : ~ReportStored(t) /\ ~ReportLost(t)
  BY DEF ReportStored, ReportLost, NoReport, TypeOK
<1>5. send' # send
  OBVIOUS
<1>6. ~VideoReady /\ ~VideoEnds /\ ~Slower /\ ~Faster /\ ~SystemBack /\ ~Disposed /\ ~DialogOk
  BY <1>5 DEF VideoReady, VideoEnds, Slower, Faster, SetSpeed, SystemBack, Disposed, DialogOk
<1>7. \A p \in Minutes : ~Watch(p)
  BY <1>5 DEF Watch
<1>8. \A i \in Indices : ~AutoPlayFires(i)
  BY <1>5 DEF AutoPlayFires
<1>9. \A c \in Calls : /\ ~CheckPassed(c) /\ ~CheckRefused(c) /\ ~EndLecture(c)
                       /\ ~TimeAnswered(c) /\ ~Resume(c) /\ ~CallFails(c)
  BY <1>5 DEF CheckPassed, CheckRefused, EndLecture, TimeAnswered, Resume, CallFails
<1>10. ~UNCHANGED vars
  BY <1>5 DEF vars
<1> QED
  BY <1>1, <1>2, <1>3, <1>4, <1>6, <1>7, <1>8, <1>9, <1>10 DEF Next

\* A report names the lecture it measured unless the player has drifted: the
\* index ties lm_num to the loaded video (media_control.dart:453-459).
THEOREM ReportsNameUnlessDrifted == Spec => ReportNamesUnlessDrifted
<1>1. TypeOK /\ DriftAccounted /\ VideoIsCurrent /\ [Next]_vars
        => [\A s \in Sends : /\ ~send[s].pending /\ send'[s].pending
                             /\ skew = 0 /\ upNext = {} /\ ~crossed
                             => send'[s].lm = video.index + 1]_vars
  <2> SUFFICES ASSUME TypeOK, DriftAccounted, VideoIsCurrent, [Next]_vars,
                      NEW s \in Sends, ~send[s].pending, send'[s].pending,
                      skew = 0, upNext = {}, ~crossed
               PROVE  send'[s].lm = video.index + 1
    OBVIOUS
  <2>1. screen = "open" /\ send'[s].lm = lm_num
    BY ReportsLeave
  <2>2. video.index = currentPlaying
    BY <2>1 DEF VideoIsCurrent
  <2>3. lm_num \in Int /\ currentPlaying \in Int
    BY ListAssumption DEF TypeOK, LmNums, Indices
  <2> QED
    BY <2>1, <2>2, <2>3 DEF DriftAccounted
<1> QED
  BY <1>1, TypeCorrect, DriftIsAccounted, VideosAreCurrent, PTL
     DEF Spec, ReportNamesUnlessDrifted

-----------------------------------------------------------------------------
(* What may touch the routes: pops by the viewer, a refusal, the dialog.   *)

\* Every action but these five leaves the routes alone, and only the exit
\* transition's end changes the state of the screen without them.
LEMMA RoutesChange ==
  ASSUME [Next]_vars
  PROVE  \/ UNCHANGED <<routes, screen>>
         \/ Disposed
         \/ SystemBack
         \/ DialogOk
         \/ \E s \in Sends : BackPressed(s)
         \/ \E c \in Calls : EndLecture(c)
<1>1. VideoReady \/ VideoEnds \/ Slower \/ Faster => UNCHANGED <<routes, screen>>
  BY DEF VideoReady, VideoEnds, Slower, Faster, SetSpeed
<1>2. \A p \in Minutes : Watch(p) => UNCHANGED <<routes, screen>>
  BY DEF Watch
<1>3. \A i \in Indices : AutoPlayFires(i) => UNCHANGED <<routes, screen>>
  BY DEF AutoPlayFires
<1>4. \A c \in Calls, s \in Sends : NextPressed(c, s) \/ PreviousPressed(c, s)
                                    => UNCHANGED <<routes, screen>>
  BY DEF NextPressed, PreviousPressed
<1>5. \A c \in Calls : CheckPassed(c) \/ CheckRefused(c) \/ TimeAnswered(c)
                         \/ Resume(c) \/ CallFails(c)
                       => UNCHANGED <<routes, screen>>
  BY DEF CheckPassed, CheckRefused, TimeAnswered, Resume, CallFails
<1>6. \A s \in Sends : ReportStored(s) \/ ReportLost(s) => UNCHANGED <<routes, screen>>
  BY DEF ReportStored, ReportLost
<1>7. CASE UNCHANGED vars
  BY <1>7 DEF vars
<1> QED
  BY <1>1, <1>2, <1>3, <1>4, <1>5, <1>6, <1>7 DEF Next

\* While the player is open nothing has touched the routes under it
\* (media_control.dart:427, :500 and :504 all pop the player itself).
THEOREM OpenPlayerIsOnTop == Spec => []OpenPlayerOnTop
<1>1. Init => OpenPlayerOnTop
  BY DEF Init, OpenPlayerOnTop
<1>2. OpenPlayerOnTop /\ [Next]_vars => OpenPlayerOnTop'
  <2> SUFFICES ASSUME OpenPlayerOnTop, [Next]_vars, screen' = "open"
               PROVE  routes' = <<"Player", "Home", "Login">>
    BY DEF OpenPlayerOnTop
  <2>0. screen = "open" => Head(routes) = "Player" /\ routes # <<>>
    BY DEF OpenPlayerOnTop
  <2>1. ~Disposed
    BY DEF Disposed
  <2>2. ~SystemBack /\ ~\E s \in Sends : BackPressed(s)
    BY <2>0 DEF SystemBack, BackPressed, ClosedByPop
  <2>3. ASSUME NEW c \in Calls, EndLecture(c) PROVE UNCHANGED <<routes, screen>>
    BY <2>0, <2>3 DEF EndLecture, ClosedByPop
  <2>4. ~DialogOk
    BY <2>0 DEF DialogOk
  <2>5. UNCHANGED <<routes, screen>>
    BY <2>1, <2>2, <2>3, <2>4, RoutesChange
  <2> QED
    BY <2>5 DEF OpenPlayerOnTop
<1> QED
  BY <1>1, <1>2, PTL DEF Spec

\* The home screen is lost only to a refusal handled during an exit
\* transition (media_control.dart:494-513).
THEOREM HomeIsLostOnlyWhileExiting == Spec => HomeLostOnlyWhileExiting
<1>1. TypeOK /\ OpenPlayerOnTop /\ [Next]_vars
        => [OnStack("Home") /\ ~OnStack("Home")' => screen = "exiting"]_vars
  <2> SUFFICES ASSUME TypeOK, OpenPlayerOnTop, [Next]_vars, screen # "exiting",
                      OnStack("Home")
               PROVE  OnStack("Home")'
    OBVIOUS
  <2>0. PICK h \in DOMAIN routes : routes[h] = "Home"
    BY DEF OnStack
  <2>1. screen \in {"open", "gone"}
    BY DEF TypeOK
  <2>2. CASE UNCHANGED <<routes, screen>>
    BY <2>2, <2>0 DEF OnStack
  <2>3. CASE routes' = Tail(routes) /\ routes # <<>> /\ Head(routes) # "Home"
    <3>1. h \in 2 .. Len(routes) /\ routes \in Seq(Routes)
      BY <2>0, <2>3 DEF TypeOK
    <3>2. h - 1 \in DOMAIN routes' /\ routes'[h - 1] = "Home"
      BY <2>0, <2>3, <3>1
    <3> QED
      BY <3>2 DEF OnStack
  <2>4. CASE screen = "open"
    <3>1. routes = <<"Player", "Home", "Login">>
      BY <2>4 DEF OpenPlayerOnTop
    <3>2. ASSUME NEW c \in Calls, EndLecture(c) PROVE OnStack("Home")'
      <4>1. routes' = <<"Ended", "Home", "Login">>
        BY <3>1, <3>2, <2>4 DEF EndLecture
      <4> QED
        BY <4>1 DEF OnStack
    <3>3. SystemBack \/ (\E s \in Sends : BackPressed(s)) => routes' = Tail(routes)
      BY DEF SystemBack, BackPressed
    <3>4. Head(routes) = "Player" /\ routes # <<>>
      BY <3>1
    <3> QED
      BY <2>2, <2>3, <2>4, <3>2, <3>3, <3>4, RoutesChange DEF Disposed, DialogOk
  <2>5. CASE screen = "gone"
    <3>1. \A c \in Calls : EndLecture(c) => UNCHANGED <<routes, screen>>
      BY <2>5 DEF EndLecture
    <3> QED
      BY <2>2, <2>3, <2>5, <3>1, RoutesChange DEF Disposed, SystemBack, BackPressed, DialogOk
  <2> QED
    BY <2>1, <2>4, <2>5
<1> QED
  BY <1>1, TypeCorrect, OpenPlayerIsOnTop, PTL DEF Spec, HomeLostOnlyWhileExiting
-----------------------------------------------------------------------------
(* The routes, one by one.                                                 *)

\* A pop moves every route up by one.
LEMMA PopMoves ==
  ASSUME routes \in Seq(Routes), routes # <<>>
  PROVE  /\ Len(Tail(routes)) = Len(routes) - 1
         /\ \A n \in 1 .. Len(routes) - 1 : Tail(routes)[n] = routes[n + 1]
OBVIOUS

\* A pop that leaves the dialog puts it in the place of the top route.
LEMMA EndedReplacesTop ==
  ASSUME routes \in Seq(Routes), routes # <<>>
  PROVE  /\ Len(<<"Ended">> \o Tail(routes)) = Len(routes)
         /\ (<<"Ended">> \o Tail(routes))[1] = "Ended"
         /\ \A n \in 2 .. Len(routes) : (<<"Ended">> \o Tail(routes))[n] = routes[n]
OBVIOUS

\* The invariant behind ToldPlayerIsClosed and StepsOfStack: an open player is
\* on top of whole routes, a closed one is not among them, the home screen is
\* there at most once, and no open player has a refusal behind it.
RoutesInv ==
  /\ OpenPlayerOnTop
  /\ screen # "open" => \A n \in 1 .. Len(routes) : routes[n] # "Player"
  /\ \A m, n \in 1 .. Len(routes) : routes[m] = "Home" /\ routes[n] = "Home" => m = n
  /\ told => screen # "open"

\* What only RoutesChange's actions do is also all that changes told.
LEMMA ToldChanges ==
  ASSUME [Next]_vars, ~\E c \in Calls : EndLecture(c)
  PROVE  UNCHANGED told
<1>1. VideoReady \/ VideoEnds \/ Slower \/ Faster \/ SystemBack \/ Disposed \/ DialogOk
        => UNCHANGED told
  BY DEF VideoReady, VideoEnds, Slower, Faster, SetSpeed, SystemBack, Disposed, DialogOk
<1>2. \A p \in Minutes : Watch(p) => UNCHANGED told
  BY DEF Watch
<1>3. \A i \in Indices : AutoPlayFires(i) => UNCHANGED told
  BY DEF AutoPlayFires
<1>4. \A c \in Calls, s \in Sends : NextPressed(c, s) \/ PreviousPressed(c, s) => UNCHANGED told
  BY DEF NextPressed, PreviousPressed
<1>5. \A c \in Calls : CheckPassed(c) \/ CheckRefused(c) \/ TimeAnswered(c)
                         \/ Resume(c) \/ CallFails(c)
                       => UNCHANGED told
  BY DEF CheckPassed, CheckRefused, TimeAnswered, Resume, CallFails
<1>6. \A s \in Sends : BackPressed(s) \/ ReportStored(s) \/ ReportLost(s) => UNCHANGED told
  BY DEF BackPressed, ReportStored, ReportLost
<1>7. CASE UNCHANGED vars
  BY <1>7 DEF vars
<1> QED
  BY <1>1, <1>2, <1>3, <1>4, <1>5, <1>6, <1>7 DEF Next

\* RoutesInv is inductive beside the type invariant.
LEMMA RoutesInvariant == Spec => []RoutesInv
<1>1. Init => RoutesInv
  BY DEF Init, RoutesInv, OpenPlayerOnTop
<1>2. TypeOK /\ RoutesInv /\ [Next]_vars => RoutesInv'
  <2> SUFFICES ASSUME TypeOK, RoutesInv, [Next]_vars PROVE RoutesInv'
    OBVIOUS
  <2>0. /\ routes \in Seq(Routes)
        /\ \A n \in 2 .. Len(routes) : routes[n] # "Player"
        /\ screen = "open" => routes # <<>> /\ Head(routes) = "Player"
    <3>1. routes \in Seq(Routes) /\ Len(routes) \in Nat
      BY DEF TypeOK
    <3>2. CASE screen = "open"
      <4>1. routes = <<"Player", "Home", "Login">>
        BY <3>2 DEF RoutesInv, OpenPlayerOnTop
      <4>2. /\ Len(routes) = 3 /\ routes # <<>> /\ Head(routes) = "Player"
            /\ routes[2] = "Home" /\ routes[3] = "Login"
        BY <4>1
      <4>3. \A n \in 2 .. Len(routes) : n = 2 \/ n = 3
        BY <4>2
      <4>4. \A n \in 2 .. Len(routes) : routes[n] # "Player"
        BY <4>2, <4>3
      <4> QED
        BY <3>1, <4>2, <4>4
    <3>3. CASE screen # "open"
      <4>1. \A n \in 2 .. Len(routes) : n \in 1 .. Len(routes)
        BY <3>1
      <4>2. \A n \in 2 .. Len(routes) : routes[n] # "Player"
        BY <3>3, <4>1 DEF RoutesInv
      <4> QED
        BY <3>1, <3>3, <4>2
    <3> QED
      BY <3>2, <3>3
  <2>1. ASSUME NEW c \in Calls, EndLecture(c) PROVE RoutesInv'
    <3>1. CASE screen # "gone" /\ routes # <<>>
      <4>1. routes' = <<"Ended">> \o Tail(routes)
        BY <2>1, <3>1 DEF EndLecture
      <4>2. screen' # "open"
        BY <2>0, <2>1, <3>1 DEF EndLecture, ClosedByPop
      <4>3. /\ Len(routes') = Len(routes)
            /\ routes'[1] = "Ended"
            /\ \A n \in 2 .. Len(routes) : routes'[n] = routes[n]
        BY <2>0, <3>1, <4>1, EndedReplacesTop
      <4>4. \A n \in 1 .. Len(routes) : n = 1 \/ n \in 2 .. Len(routes)
        BY <2>0
      <4>5. \A n \in 1 .. Len(routes') : routes'[n] # "Player"
        BY <2>0, <4>3, <4>4
      <4>6. \A m, n \in 1 .. Len(routes') : routes'[m] = "Home" /\ routes'[n] = "Home" => m = n
        BY <4>3, <4>4 DEF RoutesInv
      <4> QED
        BY <4>2, <4>5, <4>6 DEF RoutesInv, OpenPlayerOnTop
    <3>2. CASE ~(screen # "gone" /\ routes # <<>>)
      BY <2>1, <3>2 DEF EndLecture, RoutesInv, OpenPlayerOnTop
    <3> QED
      BY <3>1, <3>2
  <2>2. ASSUME ~\E c \in Calls : EndLecture(c), routes # <<>>, routes' = Tail(routes),
               screen' # "open"
        PROVE  RoutesInv'
    <3>1. /\ Len(routes') = Len(routes) - 1
          /\ \A n \in 1 .. Len(routes) - 1 : routes'[n] = routes[n + 1]
      BY <2>0, <2>2, PopMoves
    <3>2. \A n \in 1 .. Len(routes) - 1 : n + 1 \in 2 .. Len(routes) /\ n + 1 \in 1 .. Len(routes)
      BY <2>0
    <3>3. \A n \in 1 .. Len(routes') : routes'[n] # "Player"
      BY <2>0, <3>1, <3>2
    <3>4. \A m, n \in 1 .. Len(routes') : routes'[m] = "Home" /\ routes'[n] = "Home" => m = n
      <4> SUFFICES ASSUME NEW m \in 1 .. Len(routes'), NEW n \in 1 .. Len(routes'),
                          routes'[m] = "Home", routes'[n] = "Home"
                   PROVE  m = n
        OBVIOUS
      <4>1. m + 1 = n + 1
        BY <3>1, <3>2 DEF RoutesInv
      <4> QED
        BY <4>1
    <3> QED
      BY <2>2, <3>3, <3>4, ToldChanges DEF RoutesInv, OpenPlayerOnTop
  <2>3. SystemBack \/ (\E s \in Sends : BackPressed(s))
          => routes # <<>> /\ routes' = Tail(routes) /\ screen' # "open"
    BY <2>0 DEF SystemBack, BackPressed, ClosedByPop
  <2>4. DialogOk => routes # <<>> /\ routes' = Tail(routes) /\ screen' # "open"
    BY <2>0 DEF DialogOk
  <2>5. ASSUME ~\E c \in Calls : EndLecture(c), Disposed PROVE RoutesInv'
    BY <2>5, ToldChanges DEF Disposed, RoutesInv, OpenPlayerOnTop
  <2>6. ASSUME ~\E c \in Calls : EndLecture(c), UNCHANGED <<routes, screen>> PROVE RoutesInv'
    BY <2>6, ToldChanges DEF RoutesInv, OpenPlayerOnTop
  <2> QED
    BY <2>1, <2>2, <2>3, <2>4, <2>5, <2>6, RoutesChange
<1> QED
  BY <1>1, <1>2, TypeCorrect, PTL DEF Spec

\* A refusal that ran its course closed the player for good
\* (media_control.dart:499-505).
THEOREM ToldPlayersAreClosed == Spec => []ToldPlayerIsClosed
<1>1. TypeOK /\ RoutesInv => ToldPlayerIsClosed
  BY DEF TypeOK, RoutesInv, ToldPlayerIsClosed, OnStack
<1> QED
  BY <1>1, TypeCorrect, RoutesInvariant, PTL

-----------------------------------------------------------------------------
(* The steps of the player are steps of the stack of PlayerStack.tla.      *)

\* One task moves: as the stack sees it, one slot does.
LEMMA SlotMoves ==
  ASSUME NEW c \in Calls, \A d \in Calls \ {c} : call'[d].pc = call[d].pc
  PROVE  /\ CheckSlots["Player"][c] = CheckSlot(c)
         /\ CheckSlots' = [CheckSlots EXCEPT !["Player"][c] = CheckSlot(c)']
<1>1. \A d \in Calls \ {c} : CheckSlot(d)' = CheckSlot(d)
  BY DEF CheckSlot
<1> QED
  BY <1>1 DEF CheckSlots

\* A task that only moves beyond its check moves no slot.
LEMMA SlotStays ==
  ASSUME NEW c \in Calls, \A d \in Calls \ {c} : call'[d].pc = call[d].pc,
         CheckSlot(c)' = CheckSlot(c)
  PROVE  UNCHANGED CheckSlots
<1>1. \A d \in Calls : CheckSlot(d)' = CheckSlot(d)
  BY DEF CheckSlot
<1> QED
  BY <1>1 DEF CheckSlots

\* Nothing the stack sees has moved.
LEMMA StackStays ==
  ASSUME UNCHANGED <<routes, screen, told, CheckSlots>>
  PROVE  UNCHANGED Stack!vars
<1>1. OnStack("Home")' <=> OnStack("Home")
  BY DEF OnStack
<1>2. UNCHANGED LifeOnStack
  BY <1>1 DEF LifeOnStack
<1>3. UNCHANGED PlayersTold
  BY DEF PlayersTold
<1> QED
  BY <1>2, <1>3 DEF Stack!vars

\* A pop of the top route, with or without a dialog in its place, closes what
\* the stack says it closes.
LEMMA PopCloses ==
  ASSUME TypeOK, RoutesInv, routes # <<>>, screen' = ClosedByPop,
         routes' = Tail(routes) \/ routes' = <<"Ended">> \o Tail(routes)
  PROVE  LifeOnStack' = IF Head(routes) \in {"Player", "Home"}
                        THEN [LifeOnStack EXCEPT ![Head(routes)] = "exiting"]
                        ELSE LifeOnStack
<1>1. routes \in Seq(Routes) /\ Len(routes) \in Nat /\ Len(routes) >= 1
  BY DEF TypeOK
<1>2. OnStack("Home")' <=> \E n \in 2 .. Len(routes) : routes[n] = "Home"
  <2>1. CASE routes' = Tail(routes)
    <3>1. /\ Len(routes') = Len(routes) - 1
          /\ \A n \in 1 .. Len(routes) - 1 : routes'[n] = routes[n + 1]
          /\ routes' \in Seq(Routes)
      BY <1>1, <2>1, PopMoves
    <3>2. DOMAIN routes' = 1 .. Len(routes) - 1
      BY <1>1, <3>1
    <3>3. \A n \in 2 .. Len(routes) : n - 1 \in 1 .. Len(routes) - 1 /\ routes'[n - 1] = routes[n]
      BY <1>1, <3>1
    <3>4. \A n \in 1 .. Len(routes) - 1 : n + 1 \in 2 .. Len(routes)
      BY <1>1
    <3> QED
      BY <3>1, <3>2, <3>3, <3>4 DEF OnStack
  <2>2. CASE routes' = <<"Ended">> \o Tail(routes)
    <3>1. /\ Len(routes') = Len(routes)
          /\ routes'[1] = "Ended"
          /\ \A n \in 2 .. Len(routes) : routes'[n] = routes[n]
      BY <1>1, <2>2, EndedReplacesTop
    <3>2. routes' \in Seq(Routes)
      BY <1>1, <2>2 DEF Routes
    <3>3. DOMAIN routes' = 1 .. Len(routes)
      BY <3>1, <3>2
    <3>4. \A n \in 1 .. Len(routes) : n = 1 \/ n \in 2 .. Len(routes)
      BY <1>1
    <3>5. \A n \in 2 .. Len(routes) : n \in 1 .. Len(routes)
      BY <1>1
    <3> QED
      BY <3>1, <3>3, <3>4, <3>5 DEF OnStack
  <2> QED
    BY <2>1, <2>2
<1>3. OnStack("Home") <=> \E n \in 1 .. Len(routes) : routes[n] = "Home"
  BY <1>1 DEF OnStack
<1>4. Head(routes) = routes[1] /\ 1 \in 1 .. Len(routes)
  BY <1>1
<1>5. CASE Head(routes) = "Player"
  <2>1. screen = "open" /\ screen' = "exiting"
    BY <1>4, <1>5 DEF RoutesInv, ClosedByPop
  <2>2. routes = <<"Player", "Home", "Login">>
    BY <2>1 DEF RoutesInv, OpenPlayerOnTop
  <2>3. Len(routes) = 3 /\ routes[2] = "Home"
    BY <2>2
  <2>4. 2 \in 2 .. Len(routes) /\ 2 \in 1 .. Len(routes)
    BY <2>3
  <2>5. OnStack("Home") /\ OnStack("Home")'
    BY <1>2, <1>3, <2>3, <2>4
  <2> QED
    BY <1>5, <2>1, <2>5 DEF LifeOnStack
<1>6. CASE Head(routes) = "Home"
  <2>1. screen' = screen
    BY <1>6 DEF ClosedByPop
  <2>2. \A n \in 2 .. Len(routes) : n \in 1 .. Len(routes) /\ n # 1
    BY <1>1
  <2>3. ~\E n \in 2 .. Len(routes) : routes[n] = "Home"
    BY <1>4, <1>6, <2>2 DEF RoutesInv
  <2>4. ~OnStack("Home")'
    BY <1>2, <2>3
  <2> QED
    BY <1>6, <2>1, <2>4 DEF LifeOnStack
<1>7. CASE Head(routes) \notin {"Player", "Home"}
  <2>1. screen' = screen
    BY <1>7 DEF ClosedByPop
  <2>2. \A n \in 1 .. Len(routes) : n = 1 \/ n \in 2 .. Len(routes)
    BY <1>1
  <2>3. \A n \in 2 .. Len(routes) : n \in 1 .. Len(routes)
    BY <1>1
  <2>4. OnStack("Home")' <=> OnStack("Home")
    BY <1>2, <1>3, <1>4, <1>7, <2>2, <2>3
  <2> QED
    BY <1>7, <2>1, <2>4 DEF LifeOnStack
<1> QED
  BY <1>5, <1>6, <1>7

\* A pop that puts no dialog in the top route's place is Leave.
LEMMA PopIsLeave ==
  ASSUME TypeOK, RoutesInv, routes # <<>>, routes' = Tail(routes),
         screen' = ClosedByPop, UNCHANGED <<call, told>>
  PROVE  Stack!Leave
<1>1. UNCHANGED <<CheckSlots, PlayersTold>>
  BY DEF CheckSlots, CheckSlot, PlayersTold
<1>2. routes' = <<>> \o Tail(routes)
  BY DEF TypeOK
<1>3. LifeOnStack' = IF Head(routes) \in {"Player", "Home"}
                     THEN [LifeOnStack EXCEPT ![Head(routes)] = "exiting"]
                     ELSE LifeOnStack
  BY PopCloses
<1> QED
  BY <1>1, <1>2, <1>3 DEF Stack!Leave, Stack!PopAndPush, Stack!Screens

\* A refusal that runs its course is the stack's.
LEMMA EndIsEnd ==
  ASSUME TypeOK, RoutesInv, NEW c \in Calls, EndLecture(c)
  PROVE  Stack!EndLecture("Player", c)
<1>1. /\ call[c].pc = "refused" /\ call'[c].pc = "idle"
      /\ \A d \in Calls \ {c} : call'[d].pc = call[d].pc
  BY DEF EndLecture, TypeOK, IdleTask
<1>2. CheckSlot(c) = "refused" /\ CheckSlot(c)' = "idle"
  BY <1>1 DEF CheckSlot
<1>3. /\ CheckSlots["Player"][c] = "refused"
      /\ CheckSlots' = [CheckSlots EXCEPT !["Player"][c] = "idle"]
  BY <1>1, <1>2, SlotMoves
<1>4. LifeOnStack["Player"] = screen
  BY DEF LifeOnStack
<1>5. CASE screen # "gone" /\ routes # <<>>
  <2>1. routes' = <<"Ended">> \o Tail(routes) /\ screen' = ClosedByPop /\ told'
    BY <1>5 DEF EndLecture
  <2>2. LifeOnStack' = IF Head(routes) \in {"Player", "Home"}
                       THEN [LifeOnStack EXCEPT ![Head(routes)] = "exiting"]
                       ELSE LifeOnStack
    BY <1>5, <2>1, PopCloses
  <2>3. Stack!PopAndPush(<<"Ended">>)
    BY <2>1, <2>2 DEF Stack!PopAndPush, Stack!Screens
  <2>4. PlayersTold' = PlayersTold \cup {"Player"}
    BY <2>1 DEF PlayersTold
  <2> QED
    BY <1>3, <1>4, <1>5, <2>3, <2>4 DEF Stack!EndLecture
<1>6. CASE ~(screen # "gone" /\ routes # <<>>)
  <2>1. UNCHANGED <<routes, screen, told>>
    BY <1>6 DEF EndLecture
  <2>2. UNCHANGED <<LifeOnStack, PlayersTold>>
    BY <2>1 DEF LifeOnStack, OnStack, PlayersTold
  <2> QED
    BY <1>3, <1>4, <1>6, <2>1, <2>2 DEF Stack!EndLecture
<1> QED
  BY <1>5, <1>6

\* Any other step of a task is a step of its slot, or none.
LEMMA TasksStep ==
  ASSUME TypeOK, NEW c \in Calls,
         \/ CheckPassed(c) \/ CheckRefused(c) \/ TimeAnswered(c)
         \/ Resume(c) \/ CallFails(c)
  PROVE  \/ Stack!CheckHarmless("Player", c)
         \/ Stack!CheckRefused("Player", c)
         \/ UNCHANGED Stack!vars
<1>1. UNCHANGED <<routes, screen, told>>
  BY DEF CheckPassed, CheckRefused, TimeAnswered, Resume, CallFails
<1>2. UNCHANGED <<LifeOnStack, PlayersTold>>
  BY <1>1 DEF LifeOnStack, OnStack, PlayersTold
<1>3. \A d \in Calls \ {c} : call'[d].pc = call[d].pc
  BY DEF CheckPassed, CheckRefused, TimeAnswered, Resume, CallFails, TypeOK
<1>4. /\ CheckSlots["Player"][c] = CheckSlot(c)
      /\ CheckSlots' = [CheckSlots EXCEPT !["Player"][c] = CheckSlot(c)']
  BY <1>3, SlotMoves
<1>5. CASE CheckRefused(c)
  <2>1. call[c].pc = "check" /\ call'[c].pc = "refused"
    BY <1>5 DEF CheckRefused, TypeOK, Tasks
  <2>2. CheckSlot(c) = "asked" /\ CheckSlot(c)' = "refused"
    BY <2>1 DEF CheckSlot
  <2> QED
    BY <1>1, <1>2, <1>4, <2>2 DEF Stack!CheckRefused
<1>6. CASE CheckPassed(c) \/ (CallFails(c) /\ call[c].pc = "check")
  <2>1. call[c].pc = "check" /\ call'[c].pc \in {"time", "idle"}
    BY <1>6 DEF CheckPassed, CallFails, TypeOK, Tasks, IdleTask
  <2>2. CheckSlot(c) = "asked" /\ CheckSlot(c)' = "idle"
    BY <2>1 DEF CheckSlot
  <2> QED
    BY <1>1, <1>2, <1>4, <2>2 DEF Stack!CheckHarmless
<1>7. CASE TimeAnswered(c) \/ Resume(c) \/ (CallFails(c) /\ call[c].pc # "check")
  <2>1. call[c].pc \in {"time", "got"} /\ call'[c].pc \in {"got", "idle"}
    BY <1>7 DEF TimeAnswered, Resume, CallFails, TypeOK, Tasks, IdleTask
  <2>2. CheckSlot(c)' = CheckSlot(c)
    BY <2>1 DEF CheckSlot
  <2> QED
    BY <1>1, <1>3, <2>2, SlotStays, StackStays
<1> QED
  BY <1>5, <1>6, <1>7

\* A press of next or previous starts one more check of the player on top.
LEMMA PressIsChange ==
  ASSUME TypeOK, RoutesInv, NEW c \in Calls, NEW s \in Sends,
         NextPressed(c, s) \/ PreviousPressed(c, s)
  PROVE  Stack!ChangeLecture("Player", c)
<1>1. UNCHANGED <<routes, screen, told>> /\ screen = "open" /\ initPlayer(c)
  BY DEF NextPressed, PreviousPressed
<1>2. UNCHANGED <<LifeOnStack, PlayersTold>>
  BY <1>1 DEF LifeOnStack, OnStack, PlayersTold
<1>3. /\ call[c].pc = "idle" /\ call'[c].pc = "check"
      /\ \A d \in Calls \ {c} : call'[d].pc = call[d].pc
  BY <1>1 DEF initPlayer, TypeOK, Tasks
<1>4. CheckSlot(c) = "idle" /\ CheckSlot(c)' = "asked"
  BY <1>3 DEF CheckSlot
<1>5. /\ CheckSlots["Player"][c] = "idle"
      /\ CheckSlots' = [CheckSlots EXCEPT !["Player"][c] = "asked"]
  BY <1>3, <1>4, SlotMoves
<1>6. Stack!OnTop("Player")
  BY <1>1 DEF RoutesInv, OpenPlayerOnTop, Stack!OnTop
<1> QED
  BY <1>1, <1>2, <1>5, <1>6 DEF Stack!ChangeLecture

\* The player leaves its transition: the stack disposes of it.
LEMMA DisposedIsDisposed ==
  ASSUME TypeOK, Disposed
  PROVE  Stack!Disposed("Player")
<1>1. screen = "exiting" /\ screen' = "gone" /\ UNCHANGED <<routes, call, told>>
  BY DEF Disposed
<1>2. OnStack("Home")' <=> OnStack("Home")
  BY <1>1 DEF OnStack
<1>3. LifeOnStack["Player"] = "exiting" /\ LifeOnStack' = [LifeOnStack EXCEPT !["Player"] = "gone"]
  BY <1>1, <1>2 DEF LifeOnStack
<1>4. UNCHANGED <<CheckSlots, PlayersTold>>
  BY <1>1 DEF CheckSlots, CheckSlot, PlayersTold
<1> QED
  BY <1>1, <1>3, <1>4 DEF Stack!Disposed

\* Every step inside the player is a step of the stack of PlayerStack.tla with
\* this player on it, or none: what that module proves about the pops of its
\* players' checks speaks of the whole handlers of media_control.dart:252-552.
THEOREM PlayersTakeStackSteps == Spec => StepsOfStack
<1>1. TypeOK /\ RoutesInv /\ [Next]_vars => [Stack!Next]_(Stack!vars)
  <2> SUFFICES ASSUME TypeOK, RoutesInv, [Next]_vars
               PROVE  Stack!Next \/ UNCHANGED Stack!vars
    OBVIOUS
  <2>1. ASSUME UNCHANGED <<routes, screen, told, call>> PROVE UNCHANGED Stack!vars
    <3>1. UNCHANGED CheckSlots
      BY <2>1 DEF CheckSlots, CheckSlot
    <3> QED
      BY <2>1, <3>1, StackStays
  <2>2. CASE VideoReady \/ VideoEnds \/ Slower \/ Faster
    BY <2>1, <2>2 DEF VideoReady, VideoEnds, Slower, Faster, SetSpeed
  <2>3. ASSUME NEW p \in Minutes, Watch(p) PROVE UNCHANGED Stack!vars
    BY <2>1, <2>3 DEF Watch
  <2>4. ASSUME NEW i \in Indices, AutoPlayFires(i) PROVE UNCHANGED Stack!vars
    BY <2>1, <2>4 DEF AutoPlayFires
  <2>5. ASSUME NEW s \in Sends, ReportStored(s) \/ ReportLost(s) PROVE UNCHANGED Stack!vars
    BY <2>1, <2>5 DEF ReportStored, ReportLost
  <2>6. CASE UNCHANGED vars
    BY <2>1, <2>6 DEF vars
  <2>7. ASSUME NEW c \in Calls, NEW s \in Sends, NextPressed(c, s) \/ PreviousPressed(c, s)
        PROVE  Stack!Next
    BY <2>7, PressIsChange DEF Stack!Next
  <2>8. ASSUME NEW c \in Calls, EndLecture(c) PROVE Stack!Next
    BY <2>8, EndIsEnd DEF Stack!Next
  <2>9. ASSUME NEW c \in Calls,
               CheckPassed(c) \/ CheckRefused(c) \/ TimeAnswered(c) \/ Resume(c) \/ CallFails(c)
        PROVE  Stack!Next \/ UNCHANGED Stack!vars
    BY <2>9, TasksStep DEF Stack!Next
  <2>10. CASE Disposed
    BY <2>10, DisposedIsDisposed DEF Stack!Next, Stack!Screens
  <2>11. ASSUME routes # <<>>, routes' = Tail(routes), screen' = ClosedByPop,
                UNCHANGED <<call, told>>
         PROVE  Stack!Next
    BY <2>11, PopIsLeave DEF Stack!Next
  <2>12. CASE SystemBack
    BY <2>11, <2>12 DEF SystemBack
  <2>13. ASSUME NEW s \in Sends, BackPressed(s) PROVE Stack!Next
    BY <2>11, <2>13 DEF BackPressed
  <2>14. CASE DialogOk
    BY <2>11, <2>14 DEF DialogOk, ClosedByPop
  <2> QED
    BY <2>2, <2>3, <2>4, <2>5, <2>6, <2>7, <2>8, <2>9, <2>10, <2>12, <2>13, <2>14 DEF Next
<1> QED
  BY <1>1, TypeCorrect, RoutesInvariant, PTL DEF Spec, StepsOfStack
=============================================================================
