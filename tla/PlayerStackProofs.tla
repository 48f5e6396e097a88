-------------------------- MODULE PlayerStackProofs --------------------------
(***************************************************************************)
(* Proofs about PlayerStack, for every set of players, any number of       *)
(* checks in flight and of starts.                                         *)
(*                                                                         *)
(* Two facts carry them. Nothing but the login form is ever below the home *)
(* screen, and a screen that is open is on the stack: so the refusal of an *)
(* open player cannot meet the home screen on top. And while starts do not *)
(* overlap an open player is on top: so its refusal pops the player.       *)
(***************************************************************************)
EXTENDS PlayerStack, TLAPS

\* What PopAndPush leaves of the types.
LEMMA PopType ==
  ASSUME TypeOK, routes # <<>>, NEW new \in Seq(Routes), PopAndPush(new)
  PROVE  routes' \in Seq(Routes) /\ life' \in [Screens -> Lives]
<1>1. Tail(routes) \in Seq(Routes)
  BY DEF TypeOK
<1>2. routes' \in Seq(Routes)
  BY <1>1 DEF PopAndPush
<1> QED
  BY <1>2 DEF PopAndPush, TypeOK, Lives

\* The type invariant (home_screen.dart:43-138, media_control.dart:493-551).
THEOREM TypeCorrect == Spec => []TypeOK
<1>0. <<"Home", "Login">> \in Seq(Routes) /\ <<"Ended">> \in Seq(Routes)
        /\ <<"Confirm">> \in Seq(Routes) /\ <<>> \in Seq(Routes)
  BY DEF Routes, Screens
<1>1. Init => TypeOK
  <2> SUFFICES ASSUME Init PROVE TypeOK
    OBVIOUS
  <2>1. life \in [Screens -> Lives]
    BY DEF Init, Lives
  <2>2. check \in [Players -> [Slots -> {"idle", "asked", "refused"}]]
    BY DEF Init, NoChecks
  <2>3. routes \in Seq(Routes) /\ page \in Nat /\ listing \in Nat
    BY <1>0 DEF Init
  <2>4. told \subseteq Players /\ overlapped \in BOOLEAN
    BY DEF Init
  <2> QED
    BY <2>1, <2>2, <2>3, <2>4 DEF TypeOK
<1>2. TypeOK /\ [Next]_vars => TypeOK'
  <2> SUFFICES ASSUME TypeOK, [Next]_vars PROVE TypeOK'
    OBVIOUS
  <2> USE DEF TypeOK
  <2>1. CASE Click
    BY <2>1 DEF Click
  <2>2. CASE AskOverload
    BY <2>2, <1>0 DEF AskOverload
  <2>3. CASE StartPlayer
    BY <2>3 DEF StartPlayer
  <2>4. CASE ConfirmYes
    <3>1. routes' \in Seq(Routes) /\ life' \in [Screens -> Lives]
      BY <2>4, <1>0, PopType DEF ConfirmYes, OnTop
    <3>2. listing' \in Nat /\ UNCHANGED <<page, check, told, overlapped>>
      BY <2>4 DEF ConfirmYes
    <3> QED
      BY <3>1, <3>2
  <2>5. ASSUME NEW i \in Players, NEW s \in Slots, ListAnswered(i, s) PROVE TypeOK'
    <3>1. i \in Screens /\ <<i>> \in Seq(Routes)
      BY DEF Screens, Routes
    <3>2. routes' \in Seq(Routes)
      BY <2>5, <3>1 DEF ListAnswered
    <3>3. life' \in [Screens -> Lives]
      BY <2>5, <3>1 DEF ListAnswered, Lives
    <3>4. listing' \in Nat /\ UNCHANGED page /\ told' \subseteq Players
            /\ overlapped' \in BOOLEAN
      BY <2>5 DEF ListAnswered
    <3>5. check' \in [Players -> [Slots -> {"idle", "asked", "refused"}]]
      BY <2>5 DEF ListAnswered
    <3> QED
      BY <3>2, <3>3, <3>4, <3>5
  <2>6. CASE ListFails
    BY <2>6 DEF ListFails
  <2>7. ASSUME NEW i \in Players, NEW s \in Slots,
               ChangeLecture(i, s) \/ CheckHarmless(i, s) \/ CheckRefused(i, s)
        PROVE  TypeOK'
    BY <2>7 DEF ChangeLecture, CheckHarmless, CheckRefused
  <2>8. ASSUME NEW i \in Players, NEW s \in Slots, EndLecture(i, s) PROVE TypeOK'
    <3>1. routes' \in Seq(Routes) /\ life' \in [Screens -> Lives]
      <4>1. CASE life[i] # "gone" /\ routes # <<>>
        BY <2>8, <4>1, <1>0, PopType DEF EndLecture
      <4>2. CASE ~(life[i] # "gone" /\ routes # <<>>)
        BY <2>8, <4>2 DEF EndLecture
      <4> QED
        BY <4>1, <4>2
    <3>2. told' \subseteq Players /\ UNCHANGED <<page, listing, overlapped>>
      BY <2>8 DEF EndLecture
    <3>3. check' \in [Players -> [Slots -> {"idle", "asked", "refused"}]]
      BY <2>8 DEF EndLecture
    <3> QED
      BY <3>1, <3>2, <3>3
  <2>9. CASE Leave
    BY <2>9, <1>0, PopType DEF Leave
  <2>10. ASSUME NEW r \in Screens, Disposed(r) PROVE TypeOK'
    BY <2>10 DEF Disposed, Lives
  <2>11. CASE Restart
    BY <2>11, <1>0 DEF Restart, Lives, NoChecks
  <2>12. CASE UNCHANGED vars
    BY <2>12 DEF vars
  <2> QED
    BY <2>1, <2>2, <2>3, <2>4, <2>5, <2>6, <2>7, <2>8, <2>9, <2>10, <2>11, <2>12 DEF Next
<1> QED
  BY <1>1, <1>2, PTL DEF Spec

-----------------------------------------------------------------------------
(* The home screen.                                                        *)

OnStack(r) == \E n \in 1 .. Len(routes) : routes[n] = r

\* Below the home screen there is only the login form.
HomeAtBottom ==
  \A m, n \in 1 .. Len(routes) : n < m /\ routes[n] = "Home" => routes[m] = "Login"

\* A screen that was not popped is on the stack.
OpenOnStack == \A r \in Screens : life[r] = "open" => OnStack(r)

StackInv == HomeAtBottom /\ OpenOnStack

\* A push of anything but a home screen keeps both.
LEMMA PushKeeps ==
  ASSUME TypeOK, StackInv, NEW r \in Routes \ {"Home"}, routes' = <<r>> \o routes,
         \A q \in Screens : life'[q] = "open" => life[q] = "open" \/ q = r
  PROVE  StackInv'
<1>1. /\ Len(routes') = Len(routes) + 1 /\ routes'[1] = r
      /\ \A n \in 1 .. Len(routes) : routes'[n + 1] = routes[n]
      /\ \A n \in 2 .. Len(routes) + 1 : n - 1 \in 1 .. Len(routes)
                                          /\ routes'[n] = routes[n - 1]
  BY DEF TypeOK
<1>2. Len(routes) \in Nat
  BY DEF TypeOK
<1>3. HomeAtBottom'
  <2> SUFFICES ASSUME NEW m \in 1 .. Len(routes'), NEW n \in 1 .. Len(routes'),
                      n < m, routes'[n] = "Home"
               PROVE  routes'[m] = "Login"
    BY DEF HomeAtBottom
  <2>1. n # 1
    BY <1>1
  <2>2. n \in 2 .. Len(routes) + 1 /\ m \in 2 .. Len(routes) + 1
    BY <1>1, <1>2, <2>1
  <2>3. /\ n - 1 \in 1 .. Len(routes) /\ m - 1 \in 1 .. Len(routes) /\ n - 1 < m - 1
        /\ routes[n - 1] = "Home" /\ routes'[m] = routes[m - 1]
    BY <1>1, <2>2
  <2> QED
    BY <2>3 DEF StackInv, HomeAtBottom
<1>4. OpenOnStack'
  <2> SUFFICES ASSUME NEW q \in Screens, life'[q] = "open" PROVE OnStack(q)'
    BY DEF OpenOnStack
  <2>1. CASE q = r
    <3>1. 1 \in 1 .. Len(routes')
      BY <1>1, <1>2
    <3> QED
      BY <1>1, <2>1, <3>1 DEF OnStack
  <2>2. CASE q # r
    <3>1. PICK n \in 1 .. Len(routes) : routes[n] = q
      BY <2>2 DEF StackInv, OpenOnStack, OnStack
    <3>2. n + 1 \in 1 .. Len(routes')
      BY <1>1, <1>2
    <3> QED
      BY <1>1, <3>1, <3>2 DEF OnStack
  <2> QED
    BY <2>1, <2>2
<1> QED
  BY <1>3, <1>4 DEF StackInv

\* So does a pop, with a dialog in place of what was popped or without.
LEMMA PopKeeps ==
  ASSUME TypeOK, StackInv, routes # <<>>,
         PopAndPush(<<>>) \/ PopAndPush(<<"Ended">>)
  PROVE  StackInv'
<1> DEFINE k == IF PopAndPush(<<>>) THEN 1 ELSE 0
<1>1. k \in {0, 1} /\ Len(routes) \in Nat \ {0}
  BY DEF TypeOK
<1>2. /\ Len(routes') = Len(routes) - k
      /\ \A n \in 1 .. Len(routes') : n + k \in 2 .. Len(routes) => routes'[n] = routes[n + k]
      /\ \A n \in 2 .. Len(routes) : n - k \in 1 .. Len(routes')
      /\ k = 0 => routes'[1] = "Ended"
  <2>1. CASE PopAndPush(<<>>)
    <3>1. routes' = Tail(routes) /\ k = 1
      BY <2>1 DEF PopAndPush, TypeOK
    <3> QED
      BY <3>1, <1>1 DEF TypeOK
  <2>2. CASE ~PopAndPush(<<>>)
    <3>1. routes' = <<"Ended">> \o Tail(routes) /\ k = 0
      BY <2>2 DEF PopAndPush
    <3> QED
      BY <3>1, <1>1 DEF TypeOK
  <2> QED
    BY <2>1, <2>2
<1>3. \A r \in Screens : life'[r] = "open" => life[r] = "open" /\ r # routes[1]
  BY <1>1 DEF PopAndPush, TypeOK
<1> HIDE DEF k
<1>4. HomeAtBottom'
  <2> SUFFICES ASSUME NEW m \in 1 .. Len(routes'), NEW n \in 1 .. Len(routes'),
                      n < m, routes'[n] = "Home"
               PROVE  routes'[m] = "Login"
    BY DEF HomeAtBottom
  <2>1. n + k # 1
    BY <1>1, <1>2
  <2>2. n + k \in 2 .. Len(routes) /\ m + k \in 2 .. Len(routes)
    BY <1>1, <1>2, <2>1
  <2>3. routes[n + k] = "Home" /\ routes'[m] = routes[m + k] /\ n + k < m + k
    BY <1>1, <1>2, <2>2
  <2>4. n + k \in 1 .. Len(routes) /\ m + k \in 1 .. Len(routes)
    BY <1>1, <2>2
  <2> QED
    BY <2>3, <2>4 DEF StackInv, HomeAtBottom
<1>5. OpenOnStack'
  <2> SUFFICES ASSUME NEW r \in Screens, life'[r] = "open" PROVE OnStack(r)'
    BY DEF OpenOnStack
  <2>1. PICK n \in 1 .. Len(routes) : routes[n] = r
    BY <1>3 DEF StackInv, OpenOnStack, OnStack
  <2>2. n \in 2 .. Len(routes)
    BY <1>1, <1>3, <2>1
  <2>3. n - k \in 1 .. Len(routes') /\ (n - k) + k = n
    BY <1>1, <1>2, <2>2
  <2>4. routes'[n - k] = r
    BY <1>2, <2>1, <2>2, <2>3
  <2> QED
    BY <2>3, <2>4 DEF OnStack
<1> QED
  BY <1>4, <1>5 DEF StackInv

LEMMA StackInvariant == Spec => []StackInv
<1> USE PlayersAssumption
<1>1. ASSUME routes = <<"Home", "Login">>,
             life = [r \in Screens |-> IF r = "Home" THEN "open" ELSE "gone"]
      PROVE  StackInv
  <2>1. Len(routes) = 2 /\ routes[1] = "Home" /\ routes[2] = "Login"
    BY <1>1
  <2>2. HomeAtBottom
    BY <2>1 DEF HomeAtBottom
  <2>3. OpenOnStack
    BY <1>1, <2>1 DEF OpenOnStack, OnStack
  <2> QED
    BY <2>2, <2>3 DEF StackInv
<1>2. TypeOK /\ StackInv /\ [Next]_vars => StackInv'
  <2> SUFFICES ASSUME TypeOK, StackInv, [Next]_vars PROVE StackInv'
    OBVIOUS
  <2>a. ASSUME UNCHANGED routes, \A r \in Screens : life'[r] = "open" => life[r] = "open"
        PROVE  StackInv'
    BY <2>a DEF StackInv, HomeAtBottom, OpenOnStack, OnStack
  <2>1. CASE UNCHANGED <<routes, life>>
    BY <2>1, <2>a
  <2>2. CASE AskOverload
    BY <2>2, PushKeeps DEF AskOverload, Routes
  <2>3. CASE ConfirmYes \/ Leave
    BY <2>3, PopKeeps DEF ConfirmYes, Leave, OnTop
  <2>4. ASSUME NEW i \in Players, NEW s \in Slots, ListAnswered(i, s) PROVE StackInv'
    <3>1. i \in Routes \ {"Home"}
      BY DEF Routes, Screens
    <3>2. \A q \in Screens : life'[q] = "open" => life[q] = "open" \/ q = i
      BY <2>4 DEF ListAnswered, TypeOK
    <3> QED
      BY <2>4, <3>1, <3>2, PushKeeps DEF ListAnswered
  <2>5. ASSUME NEW i \in Players, NEW s \in Slots, EndLecture(i, s) PROVE StackInv'
    BY <2>5, <2>a, PopKeeps DEF EndLecture
  <2>6. ASSUME NEW r \in Screens, Disposed(r) PROVE StackInv'
    BY <2>6, <2>a DEF Disposed, TypeOK
  <2>7. CASE Restart
    <3>1. /\ routes' = <<"Home", "Login">>
          /\ life' = [r \in Screens |-> IF r = "Home" THEN "open" ELSE "gone"]
      BY <2>7 DEF Restart
    <3>2. Len(routes') = 2 /\ routes'[1] = "Home" /\ routes'[2] = "Login"
      BY <3>1
    <3>3. HomeAtBottom'
      BY <3>2 DEF HomeAtBottom
    <3>4. OpenOnStack'
      BY <3>1, <3>2 DEF OpenOnStack, OnStack
    <3> QED
      BY <3>3, <3>4 DEF StackInv
  <2>8. /\ Click \/ StartPlayer \/ ListFails => UNCHANGED <<routes, life>>
        /\ \A i \in Players, s \in Slots :
             ChangeLecture(i, s) \/ CheckHarmless(i, s) \/ CheckRefused(i, s)
               => UNCHANGED <<routes, life>>
    BY DEF Click, StartPlayer, ListFails, ChangeLecture, CheckHarmless, CheckRefused
  <2> QED
    BY <2>1, <2>2, <2>3, <2>4, <2>5, <2>6, <2>7, <2>8 DEF Next, vars
<1> QED
  BY <1>1, <1>2, TypeCorrect, PTL DEF Spec, Init

\* Only the viewer, or the refusal of a player that is on its way out, pops the
\* home screen, however many players are stacked (media_control.dart:500, :504).
THEOREM HomeIsLostOnlyWhileExiting == Spec => HomeLostOnlyWhileExiting
<1> DEFINE Pardoned ==
      life["Home"] = "open" /\ life'["Home"] = "exiting"
        => \/ routes' = Tail(routes)
           \/ \E i \in Players, s \in Slots :
                life[i] = "exiting" /\ check[i][s] = "refused" /\ check'[i][s] = "idle"
<1>1. TypeOK /\ StackInv /\ [Next]_vars => Pardoned
  <2> SUFFICES ASSUME TypeOK, StackInv, [Next]_vars,
                      life["Home"] = "open", life'["Home"] = "exiting"
               PROVE  \/ routes' = Tail(routes)
                      \/ \E i \in Players, s \in Slots :
                           /\ life[i] = "exiting"
                           /\ check[i][s] = "refused" /\ check'[i][s] = "idle"
    OBVIOUS
  <2>0. "Home" \in Screens /\ "Home" \notin Players
    BY PlayersAssumption DEF Screens
  <2>1. CASE ConfirmYes \/ Leave
    <3>1. routes' = <<>> \o Tail(routes) /\ routes # <<>>
      BY <2>1 DEF ConfirmYes, Leave, PopAndPush, OnTop
    <3> QED
      BY <3>1 DEF TypeOK
  <2>2. ASSUME NEW i \in Players, NEW s \in Slots, EndLecture(i, s)
        PROVE  life[i] = "exiting" /\ check[i][s] = "refused" /\ check'[i][s] = "idle"
    <3>1. routes # <<>> /\ life[i] # "gone" /\ PopAndPush(<<"Ended">>)
      BY <2>2 DEF EndLecture
    <3>2. Head(routes) = "Home"
      BY <3>1, <2>0 DEF PopAndPush, TypeOK
    <3>3. life[i] # "open"
      <4> SUFFICES ASSUME life[i] = "open" PROVE FALSE
        OBVIOUS
      <4>1. PICK n \in 1 .. Len(routes) : routes[n] = i
        BY DEF StackInv, OpenOnStack, OnStack, Screens
      <4>2. Len(routes) \in Nat \ {0} /\ routes[1] = "Home"
        BY <3>1, <3>2 DEF TypeOK
      <4>3. n # 1
        BY <4>1, <4>2, <2>0
      <4>4. routes[n] = "Login"
        BY <4>1, <4>2, <4>3 DEF StackInv, HomeAtBottom
      <4> QED
        BY <4>1, <4>4, PlayersAssumption
    <3>4. life[i] \in Lives
      BY DEF TypeOK, Screens
    <3> QED
      BY <2>2, <3>3, <3>4 DEF EndLecture, TypeOK, Lives
  <2>3. ASSUME NEW i \in Players, NEW s \in Slots, ListAnswered(i, s) PROVE FALSE
    BY <2>3, <2>0 DEF ListAnswered, TypeOK
  <2>4. ASSUME NEW r \in Screens, Disposed(r) PROVE FALSE
    BY <2>4, <2>0 DEF Disposed, TypeOK
  <2>5. CASE Restart
    BY <2>5, <2>0 DEF Restart
  <2>6. CASE UNCHANGED life
    BY <2>6
  <2>7. /\ Click \/ AskOverload \/ StartPlayer \/ ListFails => UNCHANGED life
        /\ \A i \in Players, s \in Slots :
             ChangeLecture(i, s) \/ CheckHarmless(i, s) \/ CheckRefused(i, s) => UNCHANGED life
    BY DEF Click, AskOverload, StartPlayer, ListFails, ChangeLecture, CheckHarmless,
           CheckRefused
  <2> QED
    BY <2>1, <2>2, <2>3, <2>4, <2>5, <2>6, <2>7 DEF Next, vars
<1>2. TypeOK /\ StackInv /\ [Next]_vars => [Pardoned]_vars
  BY <1>1
<1> QED
  BY <1>2, TypeCorrect, StackInvariant, PTL DEF Spec, HomeLostOnlyWhileExiting

-----------------------------------------------------------------------------
(* Starts that do not overlap.                                             *)

\* While starts do not overlap, an open player is on top.
OpenPlayerOnTop == ~overlapped => \A i \in Players : life[i] = "open" => OnTop(i)

\* Every refusal that is handled ends its player, as long as no second start
\* was pushed over it (media_control.dart:499-505, home_screen.dart:62-98).
THEOREM RefusedPlayersLeave == Spec => []RefusedPlayerLeaves
<1> DEFINE Inv == OpenPlayerOnTop /\ RefusedPlayerLeaves
<1> USE PlayersAssumption
<1>1. Init => Inv
  BY DEF Init, OpenPlayerOnTop, RefusedPlayerLeaves, Screens
<1>2. TypeOK /\ Inv /\ [Next]_vars => Inv'
  <2> SUFFICES ASSUME TypeOK, Inv, [Next]_vars PROVE Inv'
    OBVIOUS
  <2>0. Players \subseteq Screens
    BY DEF Screens
  <2>a. ASSUME UNCHANGED <<routes, overlapped, told>>,
               \A i \in Players : life'[i] = "open" => life[i] = "open"
        PROVE  Inv'
    BY <2>a DEF OpenPlayerOnTop, RefusedPlayerLeaves, OnTop, TypeOK
  <2>b. ASSUME told' \subseteq Players,
               overlapped' \/ \A i \in Players : life'[i] # "open"
        PROVE  Inv'
    BY <2>b DEF OpenPlayerOnTop, RefusedPlayerLeaves
  <2>c. ASSUME OnTop("Home"), ~overlapped PROVE \A i \in Players : life[i] # "open"
    BY <2>c DEF OpenPlayerOnTop, OnTop
  <2>d. ASSUME routes # <<>>, NEW new, PopAndPush(new), UNCHANGED overlapped,
               told' \subseteq Players
        PROVE  Inv'
    <3>1. CASE overlapped
      BY <2>b, <2>d, <3>1
    <3>2. CASE ~overlapped
      <4> SUFFICES ASSUME NEW i \in Players, life'[i] = "open" PROVE FALSE
        BY <2>b, <2>d
      <4>1. i \in Screens /\ life[i] = "open" /\ i # Head(routes)
        BY <2>0, <2>d DEF PopAndPush, TypeOK
      <4> QED
        BY <3>2, <4>1 DEF OpenPlayerOnTop, OnTop
    <3> QED
      BY <3>1, <3>2
  <2>1. CASE Click \/ StartPlayer \/ ListFails
    BY <2>1, <2>a DEF Click, StartPlayer, ListFails
  <2>2. CASE AskOverload
    <3>1. CASE overlapped'
      BY <2>2, <2>b, <3>1 DEF AskOverload, TypeOK
    <3>2. CASE ~overlapped'
      <4>1. OnTop("Home") /\ ~overlapped /\ UNCHANGED <<life, told>>
        BY <2>2, <3>2 DEF AskOverload
      <4> QED
        BY <2>b, <2>c, <4>1 DEF TypeOK
    <3> QED
      BY <3>1, <3>2
  <2>3. CASE ConfirmYes \/ Leave
    BY <2>3, <2>d DEF ConfirmYes, Leave, OnTop, TypeOK
  <2>4. ASSUME NEW i \in Players, NEW s \in Slots, ListAnswered(i, s) PROVE Inv'
    <3>1. told' \subseteq Players /\ told' = told \ {i}
      BY <2>4 DEF ListAnswered, TypeOK
    <3>2. CASE overlapped'
      BY <2>b, <3>1, <3>2
    <3>3. CASE ~overlapped'
      <4>1. OnTop("Home") /\ ~overlapped /\ life' = [life EXCEPT ![i] = "open"]
        BY <2>4, <3>3 DEF ListAnswered
      <4>2. \A j \in Players : life'[j] = "open" => j = i
        BY <2>0, <2>c, <4>1 DEF TypeOK
      <4>3. OnTop(i)'
        BY <2>4 DEF ListAnswered, OnTop, TypeOK
      <4> QED
        BY <3>1, <4>2, <4>3 DEF OpenPlayerOnTop, RefusedPlayerLeaves
    <3> QED
      BY <3>2, <3>3
  <2>5. ASSUME NEW i \in Players, NEW s \in Slots,
               ChangeLecture(i, s) \/ CheckHarmless(i, s) \/ CheckRefused(i, s)
        PROVE  Inv'
    BY <2>5, <2>a DEF ChangeLecture, CheckHarmless, CheckRefused
  <2>6. ASSUME NEW i \in Players, NEW s \in Slots, EndLecture(i, s) PROVE Inv'
    <3>1. CASE life[i] # "gone" /\ routes # <<>>
      BY <2>6, <2>d, <3>1 DEF EndLecture, TypeOK
    <3>2. CASE ~(life[i] # "gone" /\ routes # <<>>)
      BY <2>6, <2>a, <3>2 DEF EndLecture
    <3> QED
      BY <3>1, <3>2
  <2>7. ASSUME NEW r \in Screens, Disposed(r) PROVE Inv'
    <3>1. \A i \in Players : life'[i] = "open" => life[i] = "open"
      BY <2>7, <2>0 DEF Disposed, TypeOK
    <3> QED
      BY <2>7, <2>a, <3>1 DEF Disposed
  <2>8. CASE Restart
    <3>1. told' = {} /\ \A i \in Players : life'[i] # "open"
      BY <2>8, <2>0 DEF Restart
    <3> QED
      BY <2>b, <3>1
  <2>9. CASE UNCHANGED vars
    BY <2>9, <2>a DEF vars
  <2> QED
    BY <2>1, <2>2, <2>3, <2>4, <2>5, <2>6, <2>7, <2>8, <2>9 DEF Next
<1> QED
  BY <1>1, <1>2, TypeCorrect, PTL DEF Spec
=============================================================================
