----------------------- MODULE OtpVerificationProofs -----------------------
(***************************************************************************)
(* Proofs about OtpVerification, for any number of code forms and presses. *)
(*                                                                         *)
(* LastMessageCounts rests on there being one message under way, the       *)
(* newest, as long as nobody was hasty; HomeStaysOnTop on a home screen    *)
(* leaving no press in flight as long as the button was not pressed twice; *)
(* HomeNeedsCode on every id in use being that of a message that was sent; *)
(* EndIsShown on the steps that end a press, one by one.                   *)
(***************************************************************************)
EXTENDS OtpVerification, TLAPS

\* Only forms that were opened have a message.
MessagesAreOfForms == \A i \in Forms : exchange[i] # "none" => i <= opened

TypeInv == TypeOK /\ MessagesAreOfForms

LEMMA Members ==
  /\ NoPress \in PressStates /\ Dialog \in Routes /\ Home \in Routes
  /\ \A i \in 0 .. MaxForms : FormRoute(i) \in Routes /\ FormRoute(i) # Home
  /\ Dialog # Home /\ Home.screen # "form" /\ MaxForms \in Nat
<1>1. MaxForms \in Nat /\ 0 \in 0 .. MaxForms
  BY OtpAssumption
<1>2. Home.screen = "home" /\ Dialog.screen = "dialog" /\ \A i : FormRoute(i).screen = "form"
  BY DEF Home, Dialog, FormRoute
<1>3. Dialog # Home /\ Home.screen # "form" /\ \A i : FormRoute(i) # Home
  BY <1>2
<1> QED
  BY <1>1, <1>3 DEF NoPress, PressStates, Dialog, Home, FormRoute, Routes

\* A route on top of the others.
LEMMA Pushed ==
  ASSUME NEW r, NEW s, routes' = <<r>> \o routes, routes \in Seq(s)
  PROVE  /\ Len(routes) \in Nat /\ Len(routes') = Len(routes) + 1 /\ routes'[1] = r
         /\ \A n \in 2 .. Len(routes') : n - 1 \in 1 .. Len(routes) /\ routes'[n] = routes[n - 1]
         /\ r \in s => routes' \in Seq(s)
OBVIOUS

LEMMA TypeStep ==
  ASSUME TypeInv, [Next]_vars
  PROVE  TypeInv'
<1> USE DEF TypeInv
<1>1. CASE OpenForm
  <2>1. opened + 1 \in 1 .. MaxForms /\ opened' = opened + 1 /\ opened \in Nat
    BY <1>1, Members DEF OpenForm, TypeOK
  <2>2. exchange' \in [Forms -> Exchanges]
    BY <1>1 DEF OpenForm, TypeOK, Exchanges
  <2>3. routes' \in Seq(Routes)
    BY <1>1, <2>1, Members, Pushed DEF OpenForm, TypeOK
  <2>4. mounted' \subseteq 1 .. opened' /\ verificationId1' \in 0 .. opened'
    BY <1>1, <2>1 DEF OpenForm, TypeOK
  <2>5. hasty' \in BOOLEAN
    BY <1>1 DEF OpenForm, TypeOK
  <2>6. MessagesAreOfForms'
    <3>1. \A i \in Forms : i # opened + 1 => exchange'[i] = exchange[i]
      BY <1>1 DEF OpenForm, TypeOK
    <3> QED
      BY <2>1, <3>1 DEF MessagesAreOfForms, Forms
  <2> QED
    BY <1>1, <2>1, <2>2, <2>3, <2>4, <2>5, <2>6 DEF OpenForm, TypeOK
<1>2. ASSUME NEW i \in Forms, NEW from \in Exchanges \ {"none"}, NEW to \in Exchanges,
             Advance(i, from, to), verificationId1' \in {verificationId1, i}
      PROVE  TypeInv'
  <2>1. exchange' \in [Forms -> Exchanges]
    BY <1>2 DEF Advance, TypeOK
  <2>2. i <= opened /\ i \in Nat /\ opened' = opened
    BY <1>2, Members DEF Advance, MessagesAreOfForms, Forms
  <2>3. verificationId1' \in 0 .. opened'
    BY <1>2, <2>2 DEF TypeOK
  <2>4. MessagesAreOfForms'
    BY <1>2, <2>2 DEF Advance, MessagesAreOfForms, TypeOK
  <2> QED
    BY <1>2, <2>1, <2>3, <2>4 DEF Advance, TypeOK
<1>3. ASSUME NEW i \in Forms,
             \/ UserInfo(i) \/ UserInfoFails(i) \/ Dispatch(i) \/ SendFails(i) \/ CodeSent(i)
      PROVE  TypeInv'
  BY <1>2, <1>3 DEF UserInfo, UserInfoFails, Dispatch, SendFails, CodeSent, Exchanges
<1>4. ASSUME NEW p \in Presses, NEW c \in 0 .. MaxForms, Confirm(p, c) PROVE TypeInv'
  <2>1. Head(routes).form \in 0 .. MaxForms
    <3>1. routes \in Seq(Routes) /\ routes # <<>>
      BY <1>4 DEF Confirm, FormOnTop, TypeOK
    <3>2. Head(routes) \in Routes
      BY <3>1
    <3> QED
      BY <3>2 DEF Routes
  <2>2. verificationId1 \in 0 .. MaxForms
    BY Members DEF TypeOK
  <2>3. press' \in [Presses -> PressStates]
    BY <1>4, <2>1, <2>2 DEF Confirm, TypeOK, PressStates
  <2>4. doubled' \in BOOLEAN
    BY <1>4 DEF Confirm, TypeOK
  <2> QED
    BY <1>4, <2>3, <2>4 DEF Confirm, TypeOK, MessagesAreOfForms
<1>5. ASSUME NEW p \in Presses, NEW from, NEW to \in {"naming", "registering"},
             Proceed(p, from, to)
      PROVE  TypeInv'
  <2>1. press' \in [Presses -> PressStates]
    BY <1>5 DEF Proceed, TypeOK, PressStates
  <2> QED
    BY <1>5, <2>1 DEF Proceed, TypeOK, MessagesAreOfForms
<1>6. ASSUME NEW p \in Presses, NEW r \in {Dialog, Home}, Finish(p, r) PROVE TypeInv'
  <2>1. press' \in [Presses -> PressStates]
    BY <1>6, Members DEF Finish, TypeOK
  <2>2. routes' \in Seq(Routes)
    BY <1>6, Members, Pushed DEF Finish, TypeOK
  <2> QED
    BY <1>6, <2>1, <2>2 DEF Finish, TypeOK, MessagesAreOfForms
<1>12. ASSUME NEW p \in Presses, NoUser(p) PROVE TypeInv'
  <2>1. press' \in [Presses -> PressStates]
    BY <1>12, Members DEF NoUser, TypeOK
  <2> QED
    BY <1>12, <2>1 DEF NoUser, TypeOK, MessagesAreOfForms
<1>7. ASSUME NEW p \in Presses, Answer(p) PROVE TypeInv'
  BY <1>5, <1>6, <1>7, <1>12
     DEF Answer, SignedIn, Refused, NameKnown, NameThrows, Registered, RegisterFails
<1>8. CASE Back
  <2>1. routes' \in Seq(Routes)
    BY <1>8 DEF Back, TypeOK
  <2> QED
    BY <1>8, <2>1 DEF Back, TypeOK, MessagesAreOfForms
<1>9. ASSUME NEW f \in Forms, Disposed(f) PROVE TypeInv'
  BY <1>9 DEF Disposed, TypeOK, MessagesAreOfForms
<1>10. CASE Restart
  <2>1. exchange' \in [Forms -> Exchanges] /\ press' \in [Presses -> PressStates]
    BY <1>10, Members DEF Restart, Exchanges
  <2>2. verificationId1' \in 0 .. opened'
    BY <1>10 DEF Restart, TypeOK
  <2>3. MessagesAreOfForms'
    BY <1>10 DEF Restart, MessagesAreOfForms
  <2>4. routes' \in Seq(Routes) /\ mounted' = {} /\ hasty' = FALSE /\ doubled' = FALSE
        /\ UNCHANGED <<android, opened>>
    BY <1>10 DEF Restart
  <2> QED
    BY <2>1, <2>2, <2>3, <2>4 DEF TypeOK
<1>11. CASE UNCHANGED vars
  BY <1>11 DEF vars, TypeOK, MessagesAreOfForms
<1> QED
  BY <1>1, <1>3, <1>4, <1>7, <1>8, <1>9, <1>10, <1>11 DEF Next, Open, Resend

LEMMA TypeInvariant == Spec => []TypeInv
<1>1. Init => TypeInv
  <2> SUFFICES ASSUME Init PROVE TypeInv
    OBVIOUS
  <2>1. /\ android \in BOOLEAN /\ opened = 0 /\ verificationId1 = 0
        /\ routes = <<>> /\ mounted = {} /\ hasty = FALSE /\ doubled = FALSE
    BY DEF Init
  <2>2. exchange \in [Forms -> Exchanges] /\ \A i \in Forms : exchange[i] = "none"
    BY DEF Init, Exchanges
  <2>3. press \in [Presses -> PressStates]
    BY Members DEF Init
  <2>4. opened \in 0 .. MaxForms
    BY <2>1, Members
  <2>5. routes \in Seq(Routes) /\ verificationId1 \in 0 .. opened /\ mounted \subseteq 1 .. opened
    BY <2>1
  <2>6. hasty \in BOOLEAN /\ doubled \in BOOLEAN
    BY <2>1
  <2>7. TypeOK
    BY <2>1, <2>2, <2>3, <2>4, <2>5, <2>6 DEF TypeOK
  <2> QED
    BY <2>2, <2>7 DEF TypeInv, MessagesAreOfForms
<1> QED
  BY <1>1, TypeStep, PTL DEF Spec

\* The type invariant: the global id is always of a form that was opened
\* (otp_form.dart:16-293).
THEOREM TypeCorrect == Spec => []TypeOK
<1>1. TypeInv => TypeOK
  BY DEF TypeInv
<1> QED
  BY <1>1, TypeInvariant, PTL

-----------------------------------------------------------------------------
(* The message that counts.                                                *)

\* As long as nobody was hasty only the newest form's message is under way.
OneUnderWay == hasty \/ \A i \in Forms : exchange[i] \in UnderWay => i = opened

MessageInv == OneUnderWay /\ LastMessageCounts

LEMMA MessageStep ==
  ASSUME TypeInv, MessageInv, [Next]_vars
  PROVE  MessageInv'
<1> USE DEF MessageInv
<1>1. CASE OpenForm
  <2> SUFFICES ASSUME ~hasty' PROVE MessageInv'
    BY DEF OneUnderWay, LastMessageCounts
  <2>1. ~hasty /\ \A i \in Forms : exchange[i] \notin UnderWay
    BY <1>1 DEF OpenForm
  <2>2. /\ opened' = opened + 1 /\ UNCHANGED verificationId1
        /\ \A i \in Forms : i # opened + 1 => exchange'[i] = exchange[i]
        /\ opened + 1 \in Forms => exchange'[opened + 1] = "asking"
    BY <1>1 DEF OpenForm, TypeInv, TypeOK
  <2> QED
    BY <2>1, <2>2 DEF OneUnderWay, LastMessageCounts
<1>2. ASSUME NEW i \in Forms, NEW from \in UnderWay, NEW to \in UnderWay \cup {"over"},
             Advance(i, from, to), UNCHANGED verificationId1
      PROVE  MessageInv'
  <2>1. /\ UNCHANGED <<opened, hasty>> /\ exchange[i] \in UnderWay /\ exchange'[i] # "told"
        /\ \A j \in Forms : j # i => exchange'[j] = exchange[j]
    BY <1>2 DEF Advance, TypeInv, TypeOK, UnderWay
  <2> QED
    BY <1>2, <2>1 DEF OneUnderWay, LastMessageCounts
<1>3. ASSUME NEW i \in Forms, CodeSent(i) PROVE MessageInv'
  <2>1. /\ UNCHANGED <<opened, hasty>> /\ exchange[i] = "sent" /\ verificationId1' = i
        /\ exchange'[i] = "told"
        /\ \A j \in Forms : j # i => exchange'[j] = exchange[j]
    BY <1>3 DEF CodeSent, Advance, TypeInv, TypeOK
  <2>2. hasty \/ i = opened
    BY <2>1 DEF OneUnderWay, UnderWay
  <2>3. \A j \in Forms : exchange'[j] = "told" => j <= opened
    <3>1. \A j \in Forms : exchange[j] = "told" => j <= opened
      BY DEF TypeInv, MessagesAreOfForms
    <3>2. i <= opened
      BY <2>1 DEF TypeInv, MessagesAreOfForms
    <3> QED
      BY <2>1, <3>1, <3>2
  <2>4. OneUnderWay'
    BY <2>1 DEF OneUnderWay, UnderWay
  <2>5. LastMessageCounts'
    BY <2>1, <2>2, <2>3 DEF LastMessageCounts
  <2> QED
    BY <2>4, <2>5
<1>4. ASSUME NEW i \in Forms, UserInfo(i) \/ UserInfoFails(i) \/ Dispatch(i) \/ SendFails(i)
      PROVE  MessageInv'
  BY <1>2, <1>4 DEF UserInfo, UserInfoFails, Dispatch, SendFails, UnderWay
<1>5. CASE Restart
  <2>1. \A i \in Forms : exchange'[i] \notin UnderWay /\ exchange'[i] # "told"
    BY <1>5 DEF Restart, UnderWay
  <2> QED
    BY <2>1 DEF OneUnderWay, LastMessageCounts
<1>6. CASE UNCHANGED <<opened, exchange, verificationId1, hasty>>
  BY <1>6 DEF OneUnderWay, LastMessageCounts
<1>7. /\ Back => UNCHANGED <<opened, exchange, verificationId1, hasty>>
      /\ \A p \in Presses, c \in 0 .. MaxForms :
           Confirm(p, c) => UNCHANGED <<opened, exchange, verificationId1, hasty>>
      /\ \A p \in Presses : Answer(p) => UNCHANGED <<opened, exchange, verificationId1, hasty>>
      /\ \A f \in Forms : Disposed(f) => UNCHANGED <<opened, exchange, verificationId1, hasty>>
  BY DEF Back, Confirm, Disposed, Answer, SignedIn, NoUser, Refused, NameKnown, NameThrows,
         Registered, RegisterFails, Proceed, Finish
<1> QED
  BY <1>1, <1>3, <1>4, <1>5, <1>6, <1>7 DEF Next, Open, Resend, vars

\* Who waits for one message before asking for the next is checked against the
\* last one, however many forms are opened and closed (otp_form.dart:257-293).
THEOREM LastMessagesCount == Spec => []LastMessageCounts
<1>1. Init => MessageInv
  BY DEF Init, MessageInv, OneUnderWay, LastMessageCounts, UnderWay
<1>2. MessageInv => LastMessageCounts
  BY DEF MessageInv
<1> QED
  BY <1>1, <1>2, TypeInvariant, MessageStep, PTL DEF Spec

-----------------------------------------------------------------------------
(* What stays on top.                                                      *)

NoHome == \A n \in 1 .. Len(routes) : routes[n] # Home

\* As long as no press was made while one was in flight: there is at most one,
\* and none once home is shown.
OnePress ==
  doubled \/ /\ \A p, q \in Presses : InFlight(p) /\ InFlight(q) => p = q
             /\ NoHome \/ \A p \in Presses : ~InFlight(p)

HomeInv == OnePress /\ HomeStaysOnTop

LEMMA HomeStep ==
  ASSUME TypeInv, HomeInv, [Next]_vars
  PROVE  HomeInv'
<1> USE DEF HomeInv
<1>0. routes \in Seq(Routes) /\ press \in [Presses -> PressStates]
  BY DEF TypeInv, TypeOK
<1>a. (routes = <<>> \/ FormOnTop) /\ ~doubled => NoHome
  <2>1. routes # <<>> => routes[1] = Head(routes)
    BY <1>0
  <2>2. \A n \in 1 .. Len(routes) : n = 1 \/ n \in 2 .. Len(routes)
    BY <1>0
  <2> QED
    BY <1>0, <2>1, <2>2, Members DEF FormOnTop, NoHome, HomeStaysOnTop
<1>1. CASE Open \/ Resend
  <2>1. /\ UNCHANGED <<press, doubled>> /\ routes' = <<FormRoute(opened + 1)>> \o routes
        /\ ~doubled => NoHome
    BY <1>1, <1>a DEF Open, Resend, OpenForm
  <2>2. opened + 1 \in 0 .. MaxForms
    BY <1>1, Members DEF Open, Resend, OpenForm, TypeInv, TypeOK
  <2>3. routes'[1] # Home
    BY <1>0, <2>1, <2>2, Members, Pushed
  <2>4. ~doubled => NoHome'
    <3> SUFFICES ASSUME ~doubled, NEW n \in 1 .. Len(routes') PROVE routes'[n] # Home
      BY DEF NoHome
    <3>1. n = 1 \/ n \in 2 .. Len(routes')
      BY <1>0, <2>1, Pushed
    <3>2. n \in 2 .. Len(routes') => n - 1 \in 1 .. Len(routes) /\ routes'[n] = routes[n - 1]
      BY <1>0, <2>1, Pushed
    <3> QED
      BY <2>1, <2>3, <3>1, <3>2 DEF NoHome
  <2>5. \A n \in 2 .. Len(routes') : n \in 1 .. Len(routes')
    BY <1>0, <2>1, Pushed
  <2> QED
    BY <2>1, <2>4, <2>5 DEF OnePress, InFlight, NoHome, HomeStaysOnTop
<1>2. ASSUME NEW p \in Presses, NEW c \in 0 .. MaxForms, Confirm(p, c) PROVE HomeInv'
  <2> SUFFICES ASSUME ~doubled' PROVE HomeInv'
    BY DEF OnePress, HomeStaysOnTop
  <2>1. ~doubled /\ UNCHANGED routes /\ FormOnTop /\ \A q \in Presses : ~InFlight(q)
    BY <1>2 DEF Confirm
  <2>2. NoHome /\ NoHome'
    BY <1>a, <2>1 DEF NoHome
  <2>3. \A q \in Presses : q # p => ~InFlight(q)'
    BY <1>0, <1>2, <2>1 DEF Confirm, InFlight
  <2> QED
    BY <2>1, <2>2, <2>3 DEF OnePress, HomeStaysOnTop
<1>3. ASSUME NEW p \in Presses, NEW from \in {"signing", "naming"}, NEW to,
             Proceed(p, from, to)
      PROVE  HomeInv'
  <2>1. /\ UNCHANGED <<routes, doubled>> /\ InFlight(p)
        /\ \A q \in Presses : InFlight(q)' => InFlight(q)
    BY <1>0, <1>3 DEF Proceed, InFlight
  <2> QED
    BY <2>1 DEF OnePress, HomeStaysOnTop, NoHome
<1>4. ASSUME NEW p \in Presses, InFlight(p), NEW r \in {Dialog, Home}, Finish(p, r)
      PROVE  HomeInv'
  <2> SUFFICES ASSUME ~doubled PROVE HomeInv'
    BY <1>4 DEF Finish, OnePress, HomeStaysOnTop
  <2>1. UNCHANGED doubled /\ routes' \in {<<r>> \o routes, routes}
    BY <1>4 DEF Finish
  <2>2. NoHome /\ \A q \in Presses : q # p => ~InFlight(q)
    BY <1>4 DEF OnePress
  <2>3. \A q \in Presses : ~InFlight(q)'
    BY <1>0, <1>4, <2>2 DEF Finish, InFlight, NoPress
  <2>4. HomeStaysOnTop'
    <3>1. CASE routes' = routes
      BY <1>0, <2>2, <3>1 DEF NoHome, HomeStaysOnTop
    <3>2. CASE routes' = <<r>> \o routes
      <4>1. \A n \in 2 .. Len(routes') : n - 1 \in 1 .. Len(routes)
                                         /\ routes'[n] = routes[n - 1]
        BY <1>0, <3>2, Pushed
      <4> QED
        BY <2>2, <4>1 DEF NoHome, HomeStaysOnTop
    <3> QED
      BY <2>1, <3>1, <3>2
  <2> QED
    BY <2>1, <2>3, <2>4 DEF OnePress
<1>10. ASSUME NEW p \in Presses, NoUser(p) PROVE HomeInv'
  <2>1. UNCHANGED <<routes, doubled>> /\ InFlight(p)
    BY <1>10 DEF NoUser, Accepted, InFlight
  <2>2. \A q \in Presses : InFlight(q)' => InFlight(q)
    BY <1>0, <1>10 DEF NoUser, InFlight, NoPress
  <2> QED
    BY <2>1, <2>2 DEF OnePress, HomeStaysOnTop, NoHome
<1>5. ASSUME NEW p \in Presses, Answer(p) PROVE HomeInv'
  BY <1>3, <1>4, <1>5, <1>10
     DEF Answer, SignedIn, Refused, NameKnown, NameThrows, Registered, RegisterFails, InFlight
<1>6. CASE Back
  <2>1. UNCHANGED <<press, doubled>> /\ routes # <<>> /\ routes' = Tail(routes)
    BY <1>6 DEF Back
  <2>2. \A n \in 1 .. Len(routes') : n + 1 \in 2 .. Len(routes) /\ routes'[n] = routes[n + 1]
    BY <1>0, <2>1
  <2>3. ~doubled => NoHome'
    BY <2>2 DEF HomeStaysOnTop, NoHome
  <2>4. \A n \in 2 .. Len(routes') : n \in 1 .. Len(routes')
    BY <1>0, <2>1
  <2> QED
    BY <2>1, <2>3, <2>4 DEF OnePress, InFlight, NoHome, HomeStaysOnTop
<1>7. CASE Restart
  <2>1. routes' = <<>> /\ \A p \in Presses : ~InFlight(p)'
    BY <1>7 DEF Restart, InFlight, NoPress
  <2> QED
    BY <2>1 DEF OnePress, HomeStaysOnTop
<1>8. CASE UNCHANGED <<press, routes, doubled>>
  BY <1>8 DEF OnePress, HomeStaysOnTop, NoHome, InFlight
<1>9. /\ \A i \in Forms : UserInfo(i) \/ UserInfoFails(i) \/ Dispatch(i) \/ SendFails(i)
                            \/ CodeSent(i) => UNCHANGED <<press, routes, doubled>>
      /\ \A f \in Forms : Disposed(f) => UNCHANGED <<press, routes, doubled>>
  BY DEF UserInfo, UserInfoFails, Dispatch, SendFails, CodeSent, Advance, Disposed
<1> QED
  BY <1>1, <1>2, <1>5, <1>6, <1>7, <1>8, <1>9 DEF Next, vars

\* A user who presses the button once is left with the home screen on top,
\* whatever was resent meanwhile (otp_form.dart:188-249).
THEOREM HomesStayOnTop == Spec => []HomeStaysOnTop
<1>1. Init => HomeInv
  BY DEF Init, HomeInv, OnePress, HomeStaysOnTop, InFlight, NoPress
<1>2. HomeInv => HomeStaysOnTop
  BY DEF HomeInv
<1> QED
  BY <1>1, <1>2, TypeInvariant, HomeStep, PTL DEF Spec
-----------------------------------------------------------------------------
(* Who is let in.                                                          *)

Told(i) == i \in Forms /\ exchange[i] = "told"

\* Every id in use, the global one and those presses took along, is of a message
\* that was reported sent; what is past the sign-in took one along, and nothing
\* on an Android phone is past the device's name.
CodeInv ==
  /\ verificationId1 = 0 \/ Told(verificationId1)
  /\ \A p \in Presses : /\ press[p].id = 0 \/ Told(press[p].id)
                        /\ press[p].pc \in {"naming", "registering"} => press[p].id # 0
                        /\ press[p].pc = "registering" => ~android
  /\ HomeNeedsCode

HomeAbove == \E n \in 1 .. Len(routes) : routes[n] = Home

LEMMA CodeStep ==
  ASSUME TypeInv, CodeInv, [Next]_vars
  PROVE  CodeInv'
<1> USE DEF CodeInv
<1>0. /\ routes \in Seq(Routes) /\ press \in [Presses -> PressStates]
      /\ exchange \in [Forms -> Exchanges]
  BY DEF TypeInv, TypeOK
<1>a. ASSUME \A i : Told(i) => Told(i)', UNCHANGED android, HomeAbove' => HomeAbove
      PROVE  HomeNeedsCode'
  BY <1>a DEF HomeNeedsCode, HomeAbove, Told
<1>1. CASE Open \/ Resend
  <2>1. /\ UNCHANGED <<android, press, verificationId1>> /\ opened + 1 \in 1 .. MaxForms
        /\ routes' = <<FormRoute(opened + 1)>> \o routes
        /\ exchange' = [exchange EXCEPT ![opened + 1] = "asking"]
    BY <1>1, Members DEF Open, Resend, OpenForm, TypeInv, TypeOK
  <2>2. \A i : Told(i) => Told(i)'
    <3>1. ~Told(opened + 1)
      BY <2>1 DEF TypeInv, TypeOK, MessagesAreOfForms, Told
    <3> QED
      BY <1>0, <2>1, <3>1 DEF Told
  <2>3. HomeAbove' => HomeAbove
    <3>1. routes'[1] # Home
      BY <1>0, <2>1, Members, Pushed
    <3>2. \A n \in 1 .. Len(routes') :
            n = 1 \/ (n - 1 \in 1 .. Len(routes) /\ routes'[n] = routes[n - 1])
      BY <1>0, <2>1, Pushed
    <3> QED
      BY <3>1, <3>2 DEF HomeAbove
  <2> QED
    BY <1>a, <2>1, <2>2, <2>3
<1>2. ASSUME NEW i \in Forms, NEW from \in UnderWay, NEW to \in Exchanges,
             Advance(i, from, to),
             verificationId1' = verificationId1 \/ (verificationId1' = i /\ to = "told")
      PROVE  CodeInv'
  <2>1. UNCHANGED <<android, press, routes>> /\ exchange' = [exchange EXCEPT ![i] = to]
    BY <1>2 DEF Advance
  <2>2. \A j : Told(j) => Told(j)'
    BY <1>0, <1>2, <2>1 DEF Told, Advance, UnderWay
  <2>3. verificationId1' = 0 \/ Told(verificationId1)'
    BY <1>0, <1>2, <2>1, <2>2 DEF Told
  <2>4. HomeNeedsCode'
    BY <1>a, <2>1, <2>2 DEF HomeAbove
  <2> QED
    BY <2>1, <2>2, <2>3, <2>4
<1>3. ASSUME NEW i \in Forms,
             \/ UserInfo(i) \/ UserInfoFails(i) \/ Dispatch(i) \/ SendFails(i) \/ CodeSent(i)
      PROVE  CodeInv'
  BY <1>2, <1>3
     DEF UserInfo, UserInfoFails, Dispatch, SendFails, CodeSent, Exchanges, UnderWay
<1>4. ASSUME NEW p \in Presses, NEW c \in 0 .. MaxForms, Confirm(p, c) PROVE CodeInv'
  <2>1. /\ UNCHANGED <<android, exchange, verificationId1, routes>>
        /\ press'[p].pc = "signing" /\ press'[p].id = verificationId1
        /\ \A q \in Presses : q # p => press'[q] = press[q]
    BY <1>0, <1>4 DEF Confirm
  <2>2. \A i : Told(i) => Told(i)'
    BY <2>1 DEF Told
  <2>3. HomeNeedsCode'
    BY <1>a, <2>1, <2>2 DEF HomeAbove
  <2> QED
    BY <2>1, <2>2, <2>3
<1>5. ASSUME NEW p \in Presses, SignedIn(p) \/ NameKnown(p) PROVE CodeInv'
  <2>1. /\ UNCHANGED <<android, exchange, verificationId1, routes>>
        /\ press'[p].id = press[p].id /\ press[p].id # 0
        /\ press'[p].pc = "registering" => ~android
        /\ \A q \in Presses : q # p => press'[q] = press[q]
    <3>1. PICK pc \in {"naming", "registering"} :
            /\ press' = [press EXCEPT ![p] = [@ EXCEPT !.pc = pc]]
            /\ pc = "registering" => ~android
      BY <1>5 DEF SignedIn, Accepted, NameKnown, Proceed
    <3>2. press[p].id # 0
      BY <1>5 DEF SignedIn, Accepted, NameKnown, Proceed
    <3>3. /\ press'[p].id = press[p].id /\ press'[p].pc = pc
          /\ \A q \in Presses : q # p => press'[q] = press[q]
      BY ONLY <1>0, <3>1 DEF PressStates
    <3>4. UNCHANGED <<android, exchange, verificationId1, routes>>
      BY <1>5 DEF SignedIn, Accepted, NameKnown, Proceed
    <3> QED
      BY <3>1, <3>2, <3>3, <3>4
  <2>2. \A i : Told(i) => Told(i)'
    BY <2>1 DEF Told
  <2>3. HomeNeedsCode'
    BY <1>a, <2>1, <2>2 DEF HomeAbove
  <2> QED
    BY <2>1, <2>2, <2>3
<1>6. ASSUME NEW p \in Presses, NEW r \in {Dialog, Home}, Finish(p, r),
             r = Home => press[p].pc = "registering"
      PROVE  CodeInv'
  <2>1. /\ UNCHANGED <<android, exchange, verificationId1>>
        /\ routes' \in {<<r>> \o routes, routes}
        /\ \A q \in Presses : press'[q] = press[q] \/ press'[q] = NoPress
    BY <1>0, <1>6 DEF Finish
  <2>2. \A i : Told(i) => Told(i)'
    BY <2>1 DEF Told
  <2>3. CASE r = Home
    <3>1. ~android /\ \E i \in Forms : exchange[i] = "told"
      BY <1>6, <2>3 DEF Told
    <3>2. HomeNeedsCode'
      BY <2>1, <3>1 DEF HomeNeedsCode
    <3> QED
      BY <2>1, <2>2, <3>2 DEF NoPress
  <2>4. CASE r # Home
    <3>1. HomeAbove' => HomeAbove
      <4>1. CASE routes' = routes
        BY <4>1 DEF HomeAbove
      <4>2. CASE routes' = <<r>> \o routes
        <5>1. routes'[1] # Home
          BY <1>0, <2>4, <4>2, Pushed
        <5>2. \A n \in 1 .. Len(routes') :
                n = 1 \/ (n - 1 \in 1 .. Len(routes) /\ routes'[n] = routes[n - 1])
          BY <1>0, <4>2, Pushed
        <5> QED
          BY <5>1, <5>2 DEF HomeAbove
      <4> QED
        BY <2>1, <4>1, <4>2
    <3>2. HomeNeedsCode'
      BY <1>a, <2>1, <2>2, <3>1
    <3> QED
      BY <2>1, <2>2, <3>2 DEF NoPress
  <2> QED
    BY <2>3, <2>4
<1>12. ASSUME NEW p \in Presses, NoUser(p) PROVE CodeInv'
  <2>1. /\ UNCHANGED <<android, exchange, verificationId1, routes>>
        /\ \A q \in Presses : press'[q] = press[q] \/ press'[q] = NoPress
    BY <1>0, <1>12 DEF NoUser
  <2>2. \A i : Told(i) => Told(i)'
    BY <2>1 DEF Told
  <2>3. HomeNeedsCode'
    BY <1>a, <2>1, <2>2 DEF HomeAbove
  <2> QED
    BY <2>1, <2>2, <2>3 DEF NoPress
<1>7. ASSUME NEW p \in Presses, Answer(p) PROVE CodeInv'
  BY <1>5, <1>6, <1>7, <1>12, Members
     DEF Answer, Refused, NameThrows, Registered, RegisterFails
<1>8. CASE Back
  <2>1. /\ UNCHANGED <<android, exchange, verificationId1, press>>
        /\ routes # <<>> /\ routes' = Tail(routes)
    BY <1>8 DEF Back
  <2>2. \A n \in 1 .. Len(routes') : n + 1 \in 1 .. Len(routes) /\ routes'[n] = routes[n + 1]
    BY <1>0, <2>1
  <2>3. HomeNeedsCode'
    BY <1>a, <2>1, <2>2 DEF HomeAbove, Told
  <2> QED
    BY <2>1, <2>3 DEF Told
<1>9. CASE Restart
  <2>1. verificationId1' = 0 /\ routes' = <<>> /\ \A p \in Presses : press'[p] = NoPress
    BY <1>9 DEF Restart
  <2> QED
    BY <2>1 DEF NoPress, HomeNeedsCode
<1>10. CASE UNCHANGED <<android, exchange, verificationId1, press, routes>>
  BY <1>10 DEF Told, HomeNeedsCode
<1>11. \A f \in Forms :
         Disposed(f) => UNCHANGED <<android, exchange, verificationId1, press, routes>>
  BY DEF Disposed
<1> QED
  BY <1>1, <1>3, <1>4, <1>7, <1>8, <1>9, <1>10, <1>11 DEF Next, vars

\* Whatever is guessed, resent, closed and restarted, the form opens the home
\* screen only to who was sent a code, and never on an Android phone
\* (otp_form.dart:196-237).
THEOREM HomesNeedCodes == Spec => []HomeNeedsCode
<1>1. Init => CodeInv
  BY DEF Init, CodeInv, HomeNeedsCode, NoPress
<1>2. CodeInv => HomeNeedsCode
  BY DEF CodeInv
<1> QED
  BY <1>1, <1>2, TypeInvariant, CodeStep, PTL DEF Spec
-----------------------------------------------------------------------------
(* What is shown.                                                          *)

\* The ends EndIsShown allows a press.
ShownOrExcused(p) ==
  \/ \E r \in {Dialog, Home} : Shows(p, r)
  \/ press[p].form \notin mounted
  \/ Accepted(p) /\ UNCHANGED routes
  \/ mounted' = {} /\ routes' = <<>>

\* No press ends unseen, whatever was resent, popped or disposed meanwhile, but
\* for the three reasons the property names (otp_form.dart:196-249).
THEOREM EndsAreShown == Spec => EndIsShown
<1>1. ASSUME TypeInv, [Next]_vars, NEW p \in Presses, InFlight(p), ~InFlight(p)'
      PROVE  ShownOrExcused(p)
  <2>0. press \in [Presses -> PressStates]
    BY <1>1 DEF TypeInv, TypeOK
  <2>1. CASE UNCHANGED press
    BY <1>1, <2>1 DEF InFlight
  <2>2. ASSUME NEW q \in Presses, NEW c \in 0 .. MaxForms, Confirm(q, c) PROVE FALSE
    BY <1>1, <2>0, <2>2 DEF Confirm, InFlight
  <2>3. ASSUME NEW q \in Presses, NEW from, NEW to \in {"naming", "registering"},
               Proceed(q, from, to)
        PROVE  FALSE
    BY <1>1, <2>0, <2>3 DEF Proceed, InFlight, PressStates
  <2>4. ASSUME NEW q \in Presses, NEW r \in {Dialog, Home}, Finish(q, r)
        PROVE  ShownOrExcused(p)
    <3>1. p = q
      BY <1>1, <2>0, <2>4 DEF Finish, InFlight
    <3> QED
      BY <1>1, <2>4, <3>1 DEF Finish, Shows, ShownOrExcused
  <2>5. ASSUME NEW q \in Presses, NoUser(q) PROVE ShownOrExcused(p)
    <3>1. p = q
      BY <1>1, <2>0, <2>5 DEF NoUser, InFlight
    <3> QED
      BY <2>5, <3>1 DEF NoUser, ShownOrExcused
  <2>6. ASSUME NEW q \in Presses, Answer(q) PROVE ShownOrExcused(p)
    BY <2>3, <2>4, <2>5, <2>6
       DEF Answer, SignedIn, Refused, NameKnown, NameThrows, Registered, RegisterFails
  <2>7. CASE Restart
    BY <2>7 DEF Restart, ShownOrExcused
  <2>8. /\ Open \/ Resend \/ Back => UNCHANGED press
        /\ \A i \in Forms : UserInfo(i) \/ UserInfoFails(i) \/ Dispatch(i) \/ SendFails(i)
                              \/ CodeSent(i) \/ Disposed(i) => UNCHANGED press
    BY DEF Open, Resend, OpenForm, Back, UserInfo, UserInfoFails, Dispatch, SendFails,
           CodeSent, Advance, Disposed
  <2> QED
    BY <1>1, <2>1, <2>2, <2>6, <2>7, <2>8 DEF Next, vars
<1>2. TypeInv /\ [Next]_vars
        => [\A p \in Presses : InFlight(p) /\ ~InFlight(p)' =>
              \/ \E r \in {Dialog, Home} : Shows(p, r)
              \/ press[p].form \notin mounted
              \/ Accepted(p) /\ UNCHANGED routes
              \/ mounted' = {} /\ routes' = <<>>]_vars
  BY <1>1 DEF ShownOrExcused
<1> QED
  BY <1>2, TypeInvariant, PTL DEF Spec, EndIsShown
=============================================================================
