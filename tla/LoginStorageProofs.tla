------------------------- MODULE LoginStorageProofs -------------------------
(***************************************************************************)
(* Proofs about LoginStorage, for every set of logins and any number of    *)
(* presses in flight.                                                      *)
(*                                                                         *)
(* Two safety properties speak of what the storage will hold when calls    *)
(* that are still on their way have been carried out, so both need an      *)
(* invariant about the order of those calls: a read that follows a refusal *)
(* is right behind its deletion, and behind the write of the last press    *)
(* there is no other write, and no deletion but that of a later refusal.   *)
(* The third needs what one undisturbed auto-login has read at each await. *)
(***************************************************************************)
EXTENDS LoginStorage, TLAPS

\* What carrying out the oldest call leaves on its way.
LEMMA ServeLeaves ==
  ASSUME TypeOK, NEW c, Serve(c)
  PROVE  /\ chan' \in Seq(Calls)
         /\ Len(chan) \in Nat /\ Len(chan') \in Nat /\ Len(chan) = Len(chan') + 1
         /\ chan[1] = c
         /\ \A n \in 1 .. Len(chan') : chan'[n] = chan[n + 1] /\ n + 1 \in 1 .. Len(chan)
         /\ \A n \in 2 .. Len(chan) : n - 1 \in 1 .. Len(chan') /\ chan'[n - 1] = chan[n]
<1>1. chan \in Seq(Calls) /\ chan # <<>> /\ chan' = Tail(chan) /\ Head(chan) = c
  BY DEF TypeOK, Serve
<1> QED
  BY <1>1

\* A route on top of the others.
LEMMA RoutePushed ==
  ASSUME NEW r \in Routes, routes \in Seq(Routes)
  PROVE  <<r>> \o routes \in Seq(Routes)
OBVIOUS

-----------------------------------------------------------------------------
(* Types, and the one read of the auto-login.                              *)

\* A read is on its way only while the auto-login waits for it, and only one.
ReadIsAwaited ==
  /\ \A n \in 1 .. Len(chan) : chan[n] = Read => auto.pc \in {"reading", "rereading"}
  /\ \A m, n \in 1 .. Len(chan) : chan[m] = Read /\ chan[n] = Read => m = n

\* Whoever asked the login page did so for a login.
AskedForLogin ==
  auto.pc \in {"asking", "rereading", "reread", "home"} => auto.login \in Logins

AutoInv == TypeOK /\ ReadIsAwaited /\ AskedForLogin

LEMMA CallKinds ==
  /\ Read # Delete
  /\ \A p \in Presses, l \in Logins : Write(p, l) # Read /\ Write(p, l) # Delete
  /\ \A p, q \in Presses, k, l \in Logins : Write(p, k) = Write(q, l) => p = q /\ k = l
<1>1. Read.op = "read" /\ Delete.op = "delete"
  BY DEF Read, Delete
<1>2. \A p \in Presses, l \in Logins :
        Write(p, l).op = "write" /\ Write(p, l).press = p /\ Write(p, l).login = l
  BY DEF Write
<1>3. Read # Delete
  BY <1>1
<1>4. ASSUME NEW p \in Presses, NEW l \in Logins
      PROVE  Write(p, l) # Read /\ Write(p, l) # Delete
  BY <1>1, <1>2
<1>5. ASSUME NEW p \in Presses, NEW q \in Presses, NEW k \in Logins, NEW l \in Logins,
             Write(p, k) = Write(q, l)
      PROVE  p = q /\ k = l
  BY <1>2, <1>5
<1> QED
  BY <1>3, <1>4, <1>5

LEMMA Members ==
  /\ Read \in Calls /\ Delete \in Calls
  /\ \A p \in Presses, l \in Logins : Write(p, l) \in Calls
  /\ NoPress \in PressStates /\ NewAuto \in Autos
  /\ None \in Entries /\ Logins \subseteq Entries /\ Blank \in Logins
BY LoginAssumption DEF Calls, NoPress, PressStates, NewAuto, Autos, Entries

LEMMA AutoInit == Init => AutoInv
<1> SUFFICES ASSUME Init PROVE AutoInv
  OBVIOUS
<1>1. stored \in Entries /\ entered \in Entries /\ typed \in Logins
  BY Members DEF Init
<1>2. chan \in Seq(Calls) /\ routes \in Seq(Routes)
  BY Members DEF Init
<1>3. auto \in Autos /\ press \in [Presses -> PressStates]
      /\ erased \in BOOLEAN /\ pressed \in BOOLEAN
  BY Members DEF Init
<1>4. chan = <<Read>> /\ auto.pc = "reading"
  BY DEF Init, NewAuto
<1>5. ReadIsAwaited /\ AskedForLogin
  BY <1>4 DEF ReadIsAwaited, AskedForLogin
<1> QED
  BY <1>1, <1>2, <1>3, <1>5 DEF TypeOK, AutoInv

LEMMA TypeStep ==
  ASSUME AutoInv, [Next]_vars
  PROVE  TypeOK'
<1> USE DEF TypeOK, AutoInv
<1>1. CASE ServeRead
  <2>1. chan' \in Seq(Calls)
    BY <1>1, ServeLeaves DEF ServeRead
  <2>2. auto' \in Autos
    BY <1>1 DEF ServeRead, Autos
  <2> QED
    BY <1>1, <2>1, <2>2 DEF ServeRead
<1>2. ASSUME NEW p \in Presses, NEW l \in Logins, ServeWrite(p, l) PROVE TypeOK'
  <2>1. chan' \in Seq(Calls)
    BY <1>2, ServeLeaves DEF ServeWrite
  <2>2. [press[p] EXCEPT !.pc = "written"] \in PressStates
    BY DEF PressStates
  <2>3. press' \in [Presses -> PressStates]
    BY <1>2, <2>2 DEF ServeWrite
  <2> QED
    BY <1>2, Members, <2>1, <2>3 DEF ServeWrite
<1>3. CASE ServeDelete
  <2>1. chan' \in Seq(Calls)
    BY <1>3, ServeLeaves DEF ServeDelete
  <2> QED
    BY <1>3, Members, <2>1 DEF ServeDelete
<1>4. CASE AutoRead
  <2>1. auto' \in Autos
    BY <1>4 DEF AutoRead, Autos
  <2> QED
    BY <1>4, <2>1 DEF AutoRead
<1>5. ASSUME NEW v \in Verdicts, AutoAnswered(v) PROVE TypeOK'
  <2>1. auto' \in Autos
    BY <1>5 DEF AutoAnswered, Autos
  <2>2. AfterVerdict(v) \in Seq(Calls)
    BY Members DEF AfterVerdict
  <2>3. chan' \in Seq(Calls)
    BY <1>5, <2>2 DEF AutoAnswered
  <2>4. erased' \in BOOLEAN
    BY <1>5 DEF AutoAnswered
  <2> QED
    BY <1>5, <2>1, <2>3, <2>4 DEF AutoAnswered
<1>6. CASE AutoFails
  <2>1. auto' \in Autos
    BY <1>6 DEF AutoFails, Autos
  <2> QED
    BY <1>6, <2>1 DEF AutoFails
<1>7. CASE AutoReread
  <2>1. auto' \in Autos
    BY <1>7 DEF AutoReread, Autos
  <2>2. routes' \in Seq(Routes)
    <3>1. auto.login \in Routes
      BY <1>7 DEF AutoReread, AskedForLogin, Routes
    <3>2. routes' \in {routes, <<auto.login>> \o routes}
      BY <1>7 DEF AutoReread
    <3>3. <<auto.login>> \o routes \in Seq(Routes)
      BY <3>1, RoutePushed
    <3> QED
      BY <3>2, <3>3
  <2> QED
    BY <1>7, <2>1, <2>2 DEF AutoReread
<1>8. ASSUME NEW l \in Logins, Type(l) PROVE TypeOK'
  BY <1>8 DEF Type
<1>9. ASSUME NEW p \in Presses, Press(p) PROVE TypeOK'
  <2>1. chan' \in Seq(Calls)
    BY <1>9, Members DEF Press
  <2>2. [pc |-> "writing", wrote |-> typed, sent |-> None, newest |-> TRUE] \in PressStates
    BY Members DEF PressStates
  <2>3. \A q \in Presses : [press[q] EXCEPT !.newest = FALSE] \in PressStates
    BY DEF PressStates
  <2>4. press' \in [Presses -> PressStates]
    BY <1>9, <2>2, <2>3 DEF Press
  <2>5. entered' \in Entries /\ erased' \in BOOLEAN /\ pressed' \in BOOLEAN
    BY <1>9, Members DEF Press
  <2>6. UNCHANGED <<stored, typed, auto, routes>>
    BY <1>9 DEF Press
  <2> QED
    BY <2>1, <2>4, <2>5, <2>6
<1>10. ASSUME NEW p \in Presses, Written(p) PROVE TypeOK'
  <2>1. [press[p] EXCEPT !.pc = "naming"] \in PressStates
    BY DEF PressStates
  <2>2. press' \in [Presses -> PressStates]
    BY <1>10, <2>1, Members DEF Written
  <2>3. routes' \in Seq(Routes)
    <3>1. "Dialog" \in Routes
      BY DEF Routes
    <3>2. <<"Dialog">> \o routes \in Seq(Routes)
      BY <3>1, RoutePushed
    <3> QED
      BY <1>10, <3>2 DEF Written
  <2> QED
    BY <1>10, <2>2, <2>3 DEF Written
<1>11. ASSUME NEW p \in Presses, Named(p) PROVE TypeOK'
  <2>1. [press[p] EXCEPT !.pc = "asking", !.sent = typed] \in PressStates
    BY Members DEF PressStates
  <2>2. press' \in [Presses -> PressStates]
    BY <1>11, <2>1 DEF Named
  <2> QED
    BY <1>11, <2>2 DEF Named
<1>12. ASSUME NEW p \in Presses, EnterHome(p) \/ AskDialog(p) \/ PressFails(p)
       PROVE  TypeOK'
  <2>1. press' \in [Presses -> PressStates]
    BY <1>12, Members DEF EnterHome, AskDialog, PressFails
  <2>2. routes' \in {routes, <<typed>> \o routes, <<"Dialog">> \o routes}
    BY <1>12 DEF EnterHome, AskDialog, PressFails
  <2>3. routes' \in Seq(Routes)
    <3>1. typed \in Routes /\ "Dialog" \in Routes /\ routes \in Seq(Routes)
      BY DEF Routes
    <3>2. <<typed>> \o routes \in Seq(Routes) /\ <<"Dialog">> \o routes \in Seq(Routes)
      BY <3>1
    <3> QED
      BY <2>2, <3>1, <3>2
  <2>4. entered' \in Entries
    BY <1>12, Members DEF EnterHome, AskDialog, PressFails
  <2>5. UNCHANGED <<stored, chan, typed, auto, erased, pressed>>
    BY <1>12 DEF EnterHome, AskDialog, PressFails
  <2> QED
    BY <2>1, <2>3, <2>4, <2>5
<1>13. CASE Leave
  BY <1>13 DEF Leave
<1>14. CASE Restart
  <2>1. chan' \in Seq(Calls) /\ routes' \in Seq(Routes)
    BY <1>14, Members DEF Restart
  <2>2. auto' \in Autos /\ press' \in [Presses -> PressStates] /\ typed' \in Logins
    BY <1>14, Members DEF Restart
  <2> QED
    BY <1>14, <2>1, <2>2 DEF Restart
<1>15. CASE UNCHANGED vars
  BY <1>15 DEF vars
<1> QED
  BY <1>1, <1>2, <1>3, <1>4, <1>5, <1>6, <1>7, <1>8, <1>9, <1>10, <1>11, <1>12, <1>13,
     <1>14, <1>15 DEF Next

\* Steps that take nothing from the calls on their way and add no read.
LEMMA ReadsKeep ==
  ASSUME TypeOK, ReadIsAwaited,
         UNCHANGED chan \/ \E p \in Presses, l \in Logins : chan' = Append(chan, Write(p, l)),
         auto.pc \in {"reading", "rereading"} => auto'.pc \in {"reading", "rereading"}
  PROVE  ReadIsAwaited'
<1>1. CASE UNCHANGED chan
  BY <1>1 DEF ReadIsAwaited
<1>2. ASSUME NEW p \in Presses, NEW l \in Logins, chan' = Append(chan, Write(p, l))
      PROVE  ReadIsAwaited'
  <2>1. /\ Len(chan) \in Nat /\ Len(chan') = Len(chan) + 1
        /\ \A n \in 1 .. Len(chan) : chan'[n] = chan[n]
        /\ chan'[Len(chan) + 1] # Read
    BY <1>2, CallKinds DEF TypeOK
  <2>2. \A n \in 1 .. Len(chan') : chan'[n] = Read => n \in 1 .. Len(chan) /\ chan[n] = Read
    BY <2>1
  <2> QED
    BY <2>2 DEF ReadIsAwaited
<1> QED
  BY <1>1, <1>2

\* The oldest call is carried out; a read moves the auto-login on.
LEMMA ReadsServed ==
  ASSUME TypeOK, ReadIsAwaited, NEW c, Serve(c), c = Read \/ UNCHANGED auto
  PROVE  ReadIsAwaited'
<1>1. \A n \in 1 .. Len(chan') : chan'[n] = chan[n + 1] /\ n + 1 \in 1 .. Len(chan)
  BY ServeLeaves
<1>2. 1 \in 1 .. Len(chan) /\ chan[1] = c
  BY ServeLeaves
<1>3. CASE c = Read
  <2>1. ASSUME NEW n \in 1 .. Len(chan') PROVE chan'[n] # Read
    <3>1. chan'[n] = chan[n + 1] /\ n + 1 \in 1 .. Len(chan) /\ n + 1 # 1
      BY <1>1
    <3> QED
      BY <1>2, <1>3, <3>1 DEF ReadIsAwaited
  <2> QED
    BY <2>1 DEF ReadIsAwaited
<1>4. CASE c # Read
  <2>1. \A m, n \in 1 .. Len(chan') : m + 1 = n + 1 => m = n
    OBVIOUS
  <2>2. \A n \in 1 .. Len(chan') : chan'[n] = Read => chan[n + 1] = Read
    BY <1>1
  <2>3. \A m, n \in 1 .. Len(chan') : chan'[m] = Read /\ chan'[n] = Read => m + 1 = n + 1
    BY <1>1, <2>2 DEF ReadIsAwaited
  <2>4. \A n \in 1 .. Len(chan') : chan'[n] = Read => auto'.pc \in {"reading", "rereading"}
    BY <1>1, <1>4, <2>2 DEF ReadIsAwaited
  <2> QED
    BY <2>1, <2>3, <2>4 DEF ReadIsAwaited
<1> QED
  BY <1>3, <1>4

LEMMA AutoStep ==
  ASSUME AutoInv, [Next]_vars
  PROVE  AutoInv'
<1> USE DEF AutoInv
<1>0. TypeOK'
  BY TypeStep
<1>a. ASSUME UNCHANGED auto PROVE AskedForLogin'
  BY <1>a DEF AskedForLogin
<1>1. CASE ServeRead
  <2>1. auto.pc \in {"reading", "rereading"}
    <3>1. 1 \in 1 .. Len(chan) /\ chan[1] = Read
      BY <1>1, ServeLeaves DEF ServeRead
    <3> QED
      BY <3>1 DEF ReadIsAwaited
  <2>2. AskedForLogin'
    BY <1>1, <2>1 DEF ServeRead, AskedForLogin, TypeOK, Autos
  <2> QED
    BY <1>0, <1>1, <2>2, ReadsServed DEF ServeRead
<1>2. ASSUME NEW p \in Presses, NEW l \in Logins, ServeWrite(p, l) PROVE AutoInv'
  BY <1>0, <1>a, <1>2, ReadsServed DEF ServeWrite
<1>3. CASE ServeDelete
  BY <1>0, <1>a, <1>3, ReadsServed DEF ServeDelete
<1>4. CASE AutoRead
  <2>1. AskedForLogin'
    BY <1>4 DEF AutoRead, AskedForLogin, TypeOK, Autos, Entries
  <2> QED
    BY <1>0, <1>4, <2>1, ReadsKeep DEF AutoRead
<1>5. ASSUME NEW v \in Verdicts, AutoAnswered(v) PROVE AutoInv'
  <2>1. AskedForLogin' /\ auto.pc = "asking" /\ auto'.pc = "rereading"
    BY <1>5 DEF AutoAnswered, AskedForLogin, TypeOK, Autos
  <2>2. \A n \in 1 .. Len(chan) : chan[n] # Read
    BY <2>1 DEF ReadIsAwaited
  <2>3. \A m, n \in 1 .. Len(chan') : chan'[m] = Read /\ chan'[n] = Read => m = n
    <3>1. CASE v = "unregistered"
      <4>1. chan' = chan \o <<Delete, Read>>
        BY <1>5, <3>1 DEF AutoAnswered, AfterVerdict
      <4>2. /\ Len(chan) \in Nat /\ Len(chan') = Len(chan) + 2
            /\ \A n \in 1 .. Len(chan) : chan'[n] = chan[n]
            /\ chan'[Len(chan) + 1] = Delete
        BY <4>1 DEF TypeOK
      <4>3. \A n \in 1 .. Len(chan') : chan'[n] = Read => n = Len(chan) + 2
        BY <2>2, <4>2, CallKinds
      <4> QED
        BY <4>3
    <3>2. CASE v # "unregistered"
      <4>1. chan' = chan \o <<Read>>
        BY <1>5, <3>2 DEF AutoAnswered, AfterVerdict
      <4>2. /\ Len(chan) \in Nat /\ Len(chan') = Len(chan) + 1
            /\ \A n \in 1 .. Len(chan) : chan'[n] = chan[n]
        BY <4>1 DEF TypeOK
      <4>3. \A n \in 1 .. Len(chan') : chan'[n] = Read => n = Len(chan) + 1
        BY <2>2, <4>2
      <4> QED
        BY <4>3
    <3> QED
      BY <3>1, <3>2
  <2> QED
    BY <1>0, <2>1, <2>3 DEF ReadIsAwaited
<1>6. CASE AutoFails \/ AutoReread
  <2>1. AskedForLogin' /\ UNCHANGED chan
    BY <1>6 DEF AutoFails, AutoReread, AskedForLogin, TypeOK, Autos
  <2>2. auto.pc \notin {"reading", "rereading"}
    BY <1>6 DEF AutoFails, AutoReread
  <2> QED
    BY <1>0, <2>1, <2>2, ReadsKeep
<1>7. ASSUME NEW p \in Presses, Press(p) PROVE AutoInv'
  <2>1. UNCHANGED auto /\ typed \in Logins /\ chan' = Append(chan, Write(p, typed))
    BY <1>7 DEF Press, TypeOK
  <2> QED
    BY <1>0, <1>a, <2>1, ReadsKeep
<1>8. CASE Restart
  <2>1. chan' = <<Read>> /\ auto'.pc = "reading"
    BY <1>8 DEF Restart, NewAuto
  <2>2. ReadIsAwaited' /\ AskedForLogin'
    BY <2>1 DEF ReadIsAwaited, AskedForLogin
  <2> QED
    BY <1>0, <2>2
<1>9. CASE UNCHANGED <<chan, auto>>
  BY <1>0, <1>a, <1>9, ReadsKeep
<1>10. /\ Leave => UNCHANGED <<chan, auto>>
       /\ \A l \in Logins : Type(l) => UNCHANGED <<chan, auto>>
       /\ \A p \in Presses : Written(p) \/ Named(p) \/ EnterHome(p) \/ AskDialog(p)
                               \/ PressFails(p) => UNCHANGED <<chan, auto>>
  BY DEF Leave, Type, Written, Named, EnterHome, AskDialog, PressFails
<1> QED
  BY <1>1, <1>2, <1>3, <1>4, <1>5, <1>6, <1>7, <1>8, <1>9, <1>10 DEF Next, vars

LEMMA AutoInvariant == Spec => []AutoInv
BY AutoInit, AutoStep, PTL DEF Spec

\* The type invariant (login_screen.dart:33-87, body.dart:72-176).
THEOREM TypeCorrect == Spec => []TypeOK
<1>1. AutoInv => TypeOK
  BY DEF AutoInv
<1> QED
  BY <1>1, AutoInvariant, PTL

-----------------------------------------------------------------------------
(* The refused auto-login.                                                 *)

\* Once the auto-login was refused it is past asking, its second read is right
\* behind the deletion (or next, with nothing stored), and found nothing if it
\* was answered.
RefusalErases ==
  auto.verdict = "unregistered" =>
    /\ auto.pc \in {"rereading", "reread", "dead"}
    /\ auto.pc = "reread" => auto.got = None
    /\ \A n \in 1 .. Len(chan) :
         chan[n] = Read => IF n = 1 THEN stored = None ELSE chan[n - 1] = Delete

LEMMA RefusalStep ==
  ASSUME AutoInv, RefusalErases, [Next]_vars
  PROVE  RefusalErases'
<1> USE DEF AutoInv
<1>a. ASSUME NEW c, Serve(c), auto.verdict = "unregistered",
             c = Delete => stored' = None, c # Delete => c = Read \/ \E p \in Presses,
                                                       l \in Logins : c = Write(p, l)
      PROVE  \A n \in 1 .. Len(chan') :
               chan'[n] = Read => IF n = 1 THEN stored' = None ELSE chan'[n - 1] = Delete
  <2> SUFFICES ASSUME NEW n \in 1 .. Len(chan'), chan'[n] = Read
               PROVE  IF n = 1 THEN stored' = None ELSE chan'[n - 1] = Delete
    OBVIOUS
  <2>1. n + 1 \in 1 .. Len(chan) /\ chan[n + 1] = Read /\ n + 1 # 1 /\ (n + 1) - 1 = n
    BY <1>a, ServeLeaves
  <2>2. chan[n] = Delete
    BY <1>a, <2>1 DEF RefusalErases
  <2>3. CASE n = 1
    BY <1>a, <2>2, <2>3, ServeLeaves
  <2>4. CASE n # 1
    <3>1. n - 1 \in 1 .. Len(chan') /\ (n - 1) + 1 = n
      BY <2>4
    <3>2. chan'[n - 1] = chan[n]
      BY <1>a, <3>1, ServeLeaves
    <3> QED
      BY <2>2, <2>4, <3>2
  <2> QED
    BY <2>3, <2>4
<1>1. CASE ServeRead
  <2>1. Serve(Read) /\ UNCHANGED stored /\ auto'.got = stored
        /\ auto'.verdict = auto.verdict
        /\ auto'.pc = IF auto.pc = "reading" THEN "read" ELSE "reread"
    BY <1>1 DEF ServeRead, TypeOK, Autos
  <2>2. 1 \in 1 .. Len(chan) /\ chan[1] = Read
    BY <2>1, ServeLeaves
  <2>3. auto.verdict = "unregistered" => stored = None /\ auto'.pc = "reread"
    BY <2>1, <2>2 DEF RefusalErases
  <2>4. auto.verdict = "unregistered" =>
          \A n \in 1 .. Len(chan') :
            chan'[n] = Read => IF n = 1 THEN stored' = None ELSE chan'[n - 1] = Delete
    BY <1>a, <2>1, CallKinds
  <2> QED
    BY <2>1, <2>3, <2>4 DEF RefusalErases
<1>2. ASSUME NEW p \in Presses, NEW l \in Logins, ServeWrite(p, l) PROVE RefusalErases'
  <2>1. Serve(Write(p, l)) /\ UNCHANGED auto /\ Write(p, l) # Delete
    BY <1>2, CallKinds DEF ServeWrite
  <2> QED
    BY <1>a, <2>1 DEF RefusalErases
<1>3. CASE ServeDelete
  <2>1. Serve(Delete) /\ UNCHANGED auto /\ stored' = None
    BY <1>3 DEF ServeDelete
  <2> QED
    BY <1>a, <2>1 DEF RefusalErases
<1>4. CASE AutoRead
  BY <1>4 DEF AutoRead, RefusalErases, TypeOK, Autos
<1>5. ASSUME NEW v \in Verdicts, AutoAnswered(v) PROVE RefusalErases'
  <2>1. auto.pc = "asking" /\ auto'.pc = "rereading" /\ auto'.verdict = v
    BY <1>5 DEF AutoAnswered, TypeOK, Autos
  <2>2. CASE v = "unregistered"
    <3>1. chan' = chan \o <<Delete, Read>>
      BY <1>5, <2>2 DEF AutoAnswered, AfterVerdict
    <3>2. /\ Len(chan) \in Nat /\ Len(chan') = Len(chan) + 2
          /\ \A n \in 1 .. Len(chan) : chan'[n] = chan[n]
          /\ chan'[Len(chan) + 1] = Delete
      BY <3>1 DEF TypeOK
    <3>3. \A n \in 1 .. Len(chan) : chan[n] # Read
      BY <2>1 DEF ReadIsAwaited
    <3>4. \A n \in 1 .. Len(chan') : chan'[n] = Read => n = Len(chan) + 2
      BY <3>2, <3>3, CallKinds
    <3>5. \A n \in 1 .. Len(chan') : chan'[n] = Read => n # 1 /\ chan'[n - 1] = Delete
      BY <3>2, <3>4
    <3> QED
      BY <2>1, <3>5 DEF RefusalErases
  <2>3. CASE v # "unregistered"
    BY <2>1, <2>3 DEF RefusalErases
  <2> QED
    BY <2>2, <2>3
<1>6. CASE AutoFails \/ AutoReread
  <2>1. UNCHANGED <<chan, stored>> /\ auto'.verdict = auto.verdict
    BY <1>6 DEF AutoFails, AutoReread, TypeOK, Autos
  <2>2. auto.verdict = "unregistered" => auto'.pc = "dead"
    BY <1>6 DEF AutoFails, AutoReread, RefusalErases, TypeOK, Autos
  <2> QED
    BY <2>1, <2>2 DEF RefusalErases
<1>7. ASSUME NEW p \in Presses, Press(p) PROVE RefusalErases'
  <2>1. /\ UNCHANGED <<auto, stored>> /\ typed \in Logins
        /\ chan' = Append(chan, Write(p, typed)) /\ Write(p, typed) # Read
    BY <1>7, CallKinds DEF Press, TypeOK
  <2>2. /\ Len(chan) \in Nat /\ Len(chan') = Len(chan) + 1
        /\ \A n \in 1 .. Len(chan) : chan'[n] = chan[n]
        /\ chan'[Len(chan) + 1] # Read
    BY <2>1 DEF TypeOK
  <2>3. \A n \in 1 .. Len(chan') :
          chan'[n] = Read => /\ n \in 1 .. Len(chan) /\ chan[n] = Read
                             /\ n # 1 => n - 1 \in 1 .. Len(chan)
    BY <2>2
  <2> QED
    BY <2>1, <2>2, <2>3 DEF RefusalErases
<1>8. CASE Restart
  <2>1. auto'.verdict = "none"
    BY <1>8 DEF Restart, NewAuto
  <2> QED
    BY <2>1 DEF RefusalErases
<1>9. CASE UNCHANGED <<chan, auto, stored>>
  BY <1>9 DEF RefusalErases
<1>10. /\ Leave => UNCHANGED <<chan, auto, stored>>
       /\ \A l \in Logins : Type(l) => UNCHANGED <<chan, auto, stored>>
       /\ \A p \in Presses : Written(p) \/ Named(p) \/ EnterHome(p) \/ AskDialog(p)
                               \/ PressFails(p) => UNCHANGED <<chan, auto, stored>>
  BY DEF Leave, Type, Written, Named, EnterHome, AskDialog, PressFails
<1> QED
  BY <1>1, <1>2, <1>3, <1>4, <1>5, <1>6, <1>7, <1>8, <1>9, <1>10 DEF Next, vars

\* However LOGIN's writes fall among its calls, a refused auto-login never opens
\* the home screen (login_screen.dart:67-86).
THEOREM DeniedNeverEnter == Spec => []DeniedNeverEnters
<1>1. Init => RefusalErases
  BY DEF Init, NewAuto, RefusalErases
<1>2. RefusalErases => DeniedNeverEnters
  BY DEF RefusalErases, DeniedNeverEnters
<1> QED
  BY <1>1, <1>2, AutoInvariant, RefusalStep, PTL DEF Spec

-----------------------------------------------------------------------------
(* The login that is remembered.                                           *)

\* Behind position n there are only reads, and deletions of a refusal that came
\* after the last press.
Settled(n) == \A m \in n + 1 .. Len(chan) :
                chan[m] = Read \/ (chan[m] = Delete /\ erased)

\* A write on its way is that of a press that waits for it, and its only one.
WritesAreAwaited ==
  /\ \A n \in 1 .. Len(chan), p \in Presses, l \in Logins :
       chan[n] = Write(p, l) => press[p].pc = "writing"
  /\ \A m, n \in 1 .. Len(chan), p \in Presses, k, l \in Logins :
       chan[m] = Write(p, k) /\ chan[n] = Write(p, l) => m = n

\* The last press has the last write, and then the entry.
LastPressIsStored ==
  \A p \in Presses : press[p].newest =>
    /\ press[p].pc = "writing" =>
         \E n \in 1 .. Len(chan) : /\ Settled(n) /\ press[p].wrote \in Logins
                                   /\ chan[n] = Write(p, press[p].wrote)
    /\ press[p].pc # "writing" => Settled(0) /\ (stored = press[p].wrote \/ erased)

EnteredIsStored == entered # None => Settled(0) /\ (stored = entered \/ erased)

RememberInv == WritesAreAwaited /\ LastPressIsStored /\ EnteredIsStored

LEMMA SettledServed ==
  ASSUME TypeOK, NEW c, Serve(c), UNCHANGED erased
  PROVE  /\ \A n \in 1 .. Len(chan) : Settled(n) => Settled(n - 1)'
         /\ Settled(0) => Settled(0)' /\ (c = Read \/ (c = Delete /\ erased))
<1>1. ASSUME NEW n \in 0 .. Len(chan), Settled(n),
             NEW k \in Nat, k >= n - 1
      PROVE  Settled(k)'
  <2> SUFFICES ASSUME NEW m \in k + 1 .. Len(chan')
               PROVE  chan'[m] = Read \/ (chan'[m] = Delete /\ erased)
    BY DEF Settled
  <2>1. m \in 1 .. Len(chan') /\ m + 1 \in n + 1 .. Len(chan)
    BY <1>1, ServeLeaves
  <2>2. chan'[m] = chan[m + 1]
    BY <2>1, ServeLeaves
  <2> QED
    BY <1>1, <2>1, <2>2 DEF Settled
<1>2. Settled(0) => c = Read \/ (c = Delete /\ erased)
  <2>1. 1 \in 0 + 1 .. Len(chan) /\ chan[1] = c
    BY ServeLeaves
  <2> QED
    BY <2>1 DEF Settled
<1>3. ASSUME NEW n \in 1 .. Len(chan), Settled(n) PROVE Settled(n - 1)'
  <2>1. n - 1 \in Nat /\ n \in 0 .. Len(chan)
    OBVIOUS
  <2> QED
    BY <1>1, <1>3, <2>1
<1>4. Settled(0) => Settled(0)'
  <2>1. 0 \in 0 .. Len(chan)
    BY ServeLeaves
  <2> QED
    BY <1>1, <2>1
<1> QED
  BY <1>2, <1>3, <1>4

\* A read or a deletion is carried out.
LEMMA RememberServed ==
  ASSUME AutoInv, RememberInv, NEW c, Serve(c), c \in {Read, Delete},
         UNCHANGED <<press, entered, erased>>, c = Read => UNCHANGED stored
  PROVE  RememberInv'
<1> USE DEF AutoInv
<1>0. chan[1] = c /\ \A p \in Presses, l \in Logins : c # Write(p, l)
  BY ServeLeaves, CallKinds
<1>1. WritesAreAwaited'
  <2>1. \A n \in 1 .. Len(chan') : chan'[n] = chan[n + 1] /\ n + 1 \in 1 .. Len(chan)
    BY ServeLeaves
  <2>2. \A m, n \in 1 .. Len(chan') : m + 1 = n + 1 => m = n
    OBVIOUS
  <2> QED
    BY <2>1, <2>2 DEF RememberInv, WritesAreAwaited
<1>2. Settled(0) => Settled(0)' /\ \A e : stored = e \/ erased => stored' = e \/ erased
  BY SettledServed
<1>3. EnteredIsStored'
  BY <1>2 DEF RememberInv, EnteredIsStored
<1>4. LastPressIsStored'
  <2> SUFFICES ASSUME NEW p \in Presses, press[p].newest
               PROVE  /\ press[p].pc = "writing" =>
                           \E n \in 1 .. Len(chan') :
                              /\ Settled(n)' /\ press[p].wrote \in Logins
                              /\ chan'[n] = Write(p, press[p].wrote)
                      /\ press[p].pc # "writing" =>
                           Settled(0)' /\ (stored' = press[p].wrote \/ erased)
    BY DEF LastPressIsStored
  <2>1. CASE press[p].pc = "writing"
    <3>1. PICK n \in 1 .. Len(chan) : /\ Settled(n) /\ press[p].wrote \in Logins
                                      /\ chan[n] = Write(p, press[p].wrote)
      BY <2>1 DEF RememberInv, LastPressIsStored
    <3>2. n # 1
      BY <1>0, <3>1
    <3>3. n - 1 \in 1 .. Len(chan') /\ chan'[n - 1] = chan[n]
      BY <3>2, ServeLeaves
    <3>4. Settled(n - 1)'
      BY <3>1, SettledServed
    <3> QED
      BY <2>1, <3>1, <3>3, <3>4
  <2>2. CASE press[p].pc # "writing"
    BY <1>2, <2>2 DEF RememberInv, LastPressIsStored
  <2> QED
    BY <2>1, <2>2
<1> QED
  BY <1>1, <1>3, <1>4 DEF RememberInv

\* A write is carried out: the last press's, or one nobody relies on.
LEMMA RememberWritten ==
  ASSUME AutoInv, RememberInv, NEW p \in Presses, NEW l \in Logins, ServeWrite(p, l)
  PROVE  RememberInv'
<1> USE DEF AutoInv
<1>0. /\ Serve(Write(p, l)) /\ stored' = l /\ UNCHANGED <<entered, erased>>
      /\ press' = [press EXCEPT ![p] = [@ EXCEPT !.pc = "written"]]
  BY DEF ServeWrite
<1>1. chan[1] = Write(p, l) /\ 1 \in 1 .. Len(chan)
  BY <1>0, ServeLeaves
<1>2. ~Settled(0)
  BY <1>0, SettledServed, CallKinds
<1>3. /\ \A q \in Presses : q # p => press'[q] = press[q]
      /\ press'[p].pc = "written" /\ press'[p].newest = press[p].newest
      /\ press'[p].wrote = press[p].wrote
  BY <1>0 DEF TypeOK, PressStates
<1>4. WritesAreAwaited'
  <2>1. \A n \in 1 .. Len(chan') : /\ chan'[n] = chan[n + 1] /\ n + 1 \in 1 .. Len(chan)
                                   /\ n + 1 # 1
    BY <1>0, ServeLeaves
  <2>2. \A m, n \in 1 .. Len(chan') : m + 1 = n + 1 => m = n
    OBVIOUS
  <2>3. ASSUME NEW n \in 1 .. Len(chan'), NEW q \in Presses, NEW k \in Logins,
               chan'[n] = Write(q, k)
        PROVE  press'[q].pc = "writing"
    <3>1. q # p
      BY <1>1, <2>1, <2>3 DEF RememberInv, WritesAreAwaited
    <3> QED
      BY <1>3, <2>1, <2>3, <3>1 DEF RememberInv, WritesAreAwaited
  <2> QED
    BY <2>1, <2>2, <2>3 DEF RememberInv, WritesAreAwaited
<1>5. EnteredIsStored'
  BY <1>0, <1>2 DEF RememberInv, EnteredIsStored
<1>6. ASSUME NEW q \in Presses, press'[q].newest
      PROVE  /\ press'[q].pc = "writing" =>
                  \E n \in 1 .. Len(chan') : /\ Settled(n)' /\ press'[q].wrote \in Logins
                                             /\ chan'[n] = Write(q, press'[q].wrote)
             /\ press'[q].pc # "writing" =>
                  Settled(0)' /\ (stored' = press'[q].wrote \/ erased')
  <2>0. press[q].newest /\ press'[q].wrote = press[q].wrote
    BY <1>3, <1>6
  <2>1. press[q].pc = "writing"
    BY <1>2, <2>0 DEF RememberInv, LastPressIsStored
  <2>2. PICK n \in 1 .. Len(chan) : /\ Settled(n) /\ press[q].wrote \in Logins
                                    /\ chan[n] = Write(q, press[q].wrote)
    BY <2>0, <2>1 DEF RememberInv, LastPressIsStored
  <2>3. Settled(n - 1)'
    BY <1>0, <2>2, SettledServed
  <2>4. CASE q = p
    <3>1. n = 1 /\ l = press[q].wrote
      BY <1>1, <2>2, <2>4, CallKinds DEF RememberInv, WritesAreAwaited
    <3>2. n - 1 = 0
      BY <3>1
    <3> QED
      BY <1>0, <1>3, <2>0, <2>3, <2>4, <3>1, <3>2
  <2>5. CASE q # p
    <3>1. n # 1
      BY <1>1, <2>2, <2>5, CallKinds
    <3>2. n - 1 \in 1 .. Len(chan') /\ chan'[n - 1] = chan[n]
      BY <1>0, <3>1, ServeLeaves
    <3> QED
      BY <1>3, <2>0, <2>1, <2>2, <2>3, <2>5, <3>2
  <2> QED
    BY <2>4, <2>5
<1>7. LastPressIsStored'
  BY <1>6 DEF LastPressIsStored
<1> QED
  BY <1>4, <1>5, <1>7 DEF RememberInv

\* A press moves on, and the storage is not touched.
LEMMA RememberMoves ==
  ASSUME TypeOK, RememberInv, NEW p \in Presses, press[p].pc # "writing",
         UNCHANGED <<chan, stored, erased>>,
         \A q \in Presses : q # p => press'[q] = press[q],
         press'[p].pc # "writing",
         press'[p].newest => press[p].newest /\ press'[p].wrote = press[p].wrote,
         entered' # entered => press[p].newest /\ entered' = press[p].wrote
  PROVE  RememberInv'
<1>1. \A n : Settled(n)' <=> Settled(n)
  BY DEF Settled
<1>2. WritesAreAwaited'
  BY DEF RememberInv, WritesAreAwaited
<1>3. press[p].newest => Settled(0) /\ (stored = press[p].wrote \/ erased)
  BY DEF RememberInv, LastPressIsStored
<1>4. EnteredIsStored'
  BY <1>1, <1>3 DEF RememberInv, EnteredIsStored
<1>5. ASSUME NEW q \in Presses, press'[q].newest
      PROVE  /\ press'[q].pc = "writing" =>
                  \E n \in 1 .. Len(chan') : /\ Settled(n)' /\ press'[q].wrote \in Logins
                                             /\ chan'[n] = Write(q, press'[q].wrote)
             /\ press'[q].pc # "writing" =>
                  Settled(0)' /\ (stored' = press'[q].wrote \/ erased')
  <2>1. CASE q = p
    BY <1>1, <1>3, <1>5, <2>1
  <2>2. CASE q # p
    BY <1>1, <1>5, <2>2 DEF RememberInv, LastPressIsStored
  <2> QED
    BY <2>1, <2>2
<1>6. LastPressIsStored'
  BY <1>5 DEF LastPressIsStored
<1> QED
  BY <1>2, <1>4, <1>6 DEF RememberInv

\* LOGIN is pressed: its write is the last one.
LEMMA RememberPressed ==
  ASSUME AutoInv, RememberInv, NEW p \in Presses, Press(p)
  PROVE  RememberInv'
<1> USE DEF AutoInv
<1>1. /\ press[p].pc = "idle" /\ typed \in Logins /\ UNCHANGED stored /\ entered' = None
      /\ chan' = Append(chan, Write(p, typed))
  BY DEF Press, TypeOK
<1>2. /\ Len(chan) \in Nat /\ Len(chan') = Len(chan) + 1
      /\ \A n \in 1 .. Len(chan) : chan'[n] = chan[n]
      /\ chan'[Len(chan) + 1] = Write(p, typed)
  BY <1>1 DEF TypeOK
<1>3. /\ press'[p].pc = "writing" /\ press'[p].wrote = typed
      /\ \A q \in Presses : q # p => press'[q].pc = press[q].pc /\ ~press'[q].newest
  BY DEF Press, TypeOK, PressStates
<1>4. \A n \in 1 .. Len(chan), l \in Logins : chan[n] # Write(p, l)
  BY <1>1 DEF RememberInv, WritesAreAwaited
<1>5. WritesAreAwaited'
  <2>1. ASSUME NEW n \in 1 .. Len(chan'), NEW q \in Presses, NEW l \in Logins,
               chan'[n] = Write(q, l)
        PROVE  /\ press'[q].pc = "writing"
               /\ q = p => n = Len(chan) + 1
               /\ q # p => n \in 1 .. Len(chan) /\ chan[n] = Write(q, l)
    <3>0. n = Len(chan) + 1 \/ n \in 1 .. Len(chan)
      <4>1. n \in 1 .. Len(chan) + 1
        BY <1>2
      <4> HIDE DEF AutoInv
      <4> QED
        BY <1>2, <4>1, SMT
    <3>1. n = Len(chan) + 1 \/ (n \in 1 .. Len(chan) /\ chan'[n] = chan[n])
      BY <1>2, <3>0
    <3>2. n = Len(chan) + 1 => q = p
      BY <1>1, <1>2, <2>1, CallKinds
    <3>3. n \in 1 .. Len(chan) => chan[n] = Write(q, l) /\ q # p
      BY <1>2, <1>4, <2>1
    <3>4. q # p => press'[q].pc = "writing"
      BY <1>3, <2>1, <3>1, <3>2, <3>3 DEF RememberInv, WritesAreAwaited
    <3> QED
      BY <1>3, <3>1, <3>2, <3>3, <3>4
  <2> QED
    BY <2>1 DEF RememberInv, WritesAreAwaited
<1>6. EnteredIsStored'
  BY <1>1 DEF EnteredIsStored
<1>7. LastPressIsStored'
  <2>0. PICK k \in Nat : k = Len(chan) + 1
    BY <1>2
  <2>1. Settled(k)' /\ k \in 1 .. Len(chan')
    BY <1>2, <2>0 DEF Settled
  <2>2. chan'[k] = Write(p, press'[p].wrote) /\ press'[p].wrote \in Logins
    BY <1>1, <1>2, <1>3, <2>0
  <2>3. \A q \in Presses : press'[q].newest => q = p
    BY <1>3
  <2>4. ASSUME NEW q \in Presses, press'[q].newest
        PROVE  /\ press'[q].pc = "writing"
               /\ \E n \in 1 .. Len(chan') : /\ Settled(n)' /\ press'[q].wrote \in Logins
                                            /\ chan'[n] = Write(q, press'[q].wrote)
    <3>1. q = p
      BY <2>3, <2>4
    <3>2. Settled(k)' /\ press'[q].wrote \in Logins /\ chan'[k] = Write(q, press'[q].wrote)
      BY <2>1, <2>2, <3>1
    <3> QED
      BY <1>3, <2>1, <3>1, <3>2
  <2> QED
    BY <2>4 DEF LastPressIsStored
<1> QED
  BY <1>5, <1>6, <1>7 DEF RememberInv

\* The auto-login was answered: a deletion, if any, is one of a refusal.
LEMMA RememberAnswered ==
  ASSUME AutoInv, RememberInv, NEW v \in Verdicts, AutoAnswered(v)
  PROVE  RememberInv'
<1> USE DEF AutoInv
<1>1. /\ UNCHANGED <<stored, press, entered>> /\ erased \in BOOLEAN
      /\ erased' = (erased \/ v = "unregistered")
      /\ chan' = chan \o AfterVerdict(v)
  BY DEF AutoAnswered, TypeOK
<1>2. /\ AfterVerdict(v) \in Seq(Calls) /\ chan \in Seq(Calls)
      /\ \A k \in 1 .. Len(AfterVerdict(v)) :
           \/ AfterVerdict(v)[k] = Read
           \/ AfterVerdict(v)[k] = Delete /\ v = "unregistered"
  BY Members DEF AfterVerdict, TypeOK
<1>3. \A n \in 1 .. Len(chan') :
        \/ n \in 1 .. Len(chan) /\ chan'[n] = chan[n]
        \/ n - Len(chan) \in 1 .. Len(AfterVerdict(v))
           /\ chan'[n] = AfterVerdict(v)[n - Len(chan)]
  BY <1>1, <1>2
<1>4. \A n \in 1 .. Len(chan) : n \in 1 .. Len(chan') /\ chan'[n] = chan[n]
  BY <1>1, <1>2
<1>5. \A n \in 1 .. Len(chan') :
        \/ n \in 1 .. Len(chan) /\ chan'[n] = chan[n]
        \/ chan'[n] = Read
        \/ chan'[n] = Delete /\ erased'
  BY <1>1, <1>2, <1>3
<1>6. ASSUME NEW n \in Nat, Settled(n) PROVE Settled(n)'
  <2> SUFFICES ASSUME NEW m \in n + 1 .. Len(chan')
               PROVE  chan'[m] = Read \/ (chan'[m] = Delete /\ erased')
    BY DEF Settled
  <2>1. m \in 1 .. Len(chan')
    BY <1>2
  <2>2. m \in 1 .. Len(chan) => m \in n + 1 .. Len(chan)
    BY <1>2
  <2>3. CASE m \in 1 .. Len(chan) /\ chan'[m] = chan[m]
    <3>1. chan[m] = Read \/ (chan[m] = Delete /\ erased)
      BY <1>6, <2>2, <2>3 DEF Settled
    <3>2. erased => erased'
      BY <1>1
    <3> QED
      BY <2>3, <3>1, <3>2
  <2> QED
    BY <1>5, <2>1, <2>3
<1>7. WritesAreAwaited'
  <2>1. ASSUME NEW n \in 1 .. Len(chan'), NEW q \in Presses, NEW l \in Logins,
               chan'[n] = Write(q, l)
        PROVE  n \in 1 .. Len(chan) /\ chan[n] = Write(q, l)
    BY <1>5, <2>1, CallKinds
  <2>2. \A n \in 1 .. Len(chan'), q \in Presses, l \in Logins :
          chan'[n] = Write(q, l) => press'[q].pc = "writing"
    BY <1>1, <2>1 DEF RememberInv, WritesAreAwaited
  <2>3. ASSUME NEW m \in 1 .. Len(chan'), NEW n \in 1 .. Len(chan'), NEW q \in Presses,
               NEW k \in Logins, NEW l \in Logins, chan'[m] = Write(q, k),
               chan'[n] = Write(q, l)
        PROVE  m = n
    <3>1. /\ m \in 1 .. Len(chan) /\ chan[m] = Write(q, k)
          /\ n \in 1 .. Len(chan) /\ chan[n] = Write(q, l)
      BY <2>1, <2>3
    <3> HIDE DEF AutoInv
    <3> QED
      BY <3>1 DEF RememberInv, WritesAreAwaited
  <2> QED
    BY <2>2, <2>3 DEF WritesAreAwaited
<1>8. EnteredIsStored'
  BY <1>1, <1>6 DEF RememberInv, EnteredIsStored
<1>9. LastPressIsStored'
  <2> SUFFICES ASSUME NEW p \in Presses, press[p].newest
               PROVE  /\ press[p].pc = "writing" =>
                           \E n \in 1 .. Len(chan') :
                              /\ Settled(n)' /\ press[p].wrote \in Logins
                              /\ chan'[n] = Write(p, press[p].wrote)
                      /\ press[p].pc # "writing" =>
                           Settled(0)' /\ (stored = press[p].wrote \/ erased')
    BY <1>1 DEF LastPressIsStored
  <2>1. CASE press[p].pc = "writing"
    <3>1. PICK n \in 1 .. Len(chan) : /\ Settled(n) /\ press[p].wrote \in Logins
                                      /\ chan[n] = Write(p, press[p].wrote)
      BY <2>1 DEF RememberInv, LastPressIsStored
    <3> QED
      BY <1>4, <1>6, <2>1, <3>1
  <2>2. CASE press[p].pc # "writing"
    BY <1>1, <1>6, <2>2 DEF RememberInv, LastPressIsStored
  <2> QED
    BY <2>1, <2>2
<1> QED
  BY <1>7, <1>8, <1>9 DEF RememberInv

LEMMA RememberStep ==
  ASSUME AutoInv, RememberInv, [Next]_vars
  PROVE  RememberInv'
<1> USE DEF AutoInv
<1>1. CASE ServeRead
  BY <1>1, RememberServed DEF ServeRead
<1>2. ASSUME NEW p \in Presses, NEW l \in Logins, ServeWrite(p, l) PROVE RememberInv'
  BY <1>2, RememberWritten
<1>3. CASE ServeDelete
  BY <1>3, RememberServed, CallKinds DEF ServeDelete
<1>4. ASSUME NEW v \in Verdicts, AutoAnswered(v) PROVE RememberInv'
  BY <1>4, RememberAnswered
<1>5. ASSUME NEW p \in Presses, Press(p) PROVE RememberInv'
  BY <1>5, RememberPressed
<1>6. ASSUME NEW p \in Presses, Written(p) PROVE RememberInv'
  <2>1. /\ press[p].pc = "written" /\ UNCHANGED <<chan, stored, erased, entered>>
        /\ \A q \in Presses : q # p => press'[q] = press[q]
        /\ press'[p] \in {NoPress, [press[p] EXCEPT !.pc = "naming"]}
    BY <1>6 DEF Written, TypeOK
  <2>2. /\ press'[p].pc # "writing"
        /\ press'[p].newest => press[p].newest /\ press'[p].wrote = press[p].wrote
    <3>1. press[p] \in PressStates
      BY DEF TypeOK
    <3> QED
      BY <2>1, <3>1 DEF PressStates, NoPress
  <2> QED
    BY <2>1, <2>2, RememberMoves
<1>7. ASSUME NEW p \in Presses, Named(p) PROVE RememberInv'
  <2>1. /\ press[p].pc = "naming" /\ UNCHANGED <<chan, stored, erased, entered>>
        /\ \A q \in Presses : q # p => press'[q] = press[q]
        /\ press'[p] = [press[p] EXCEPT !.pc = "asking", !.sent = typed]
    BY <1>7 DEF Named, TypeOK
  <2>2. /\ press'[p].pc = "asking" /\ press'[p].newest = press[p].newest
        /\ press'[p].wrote = press[p].wrote
    <3>1. press[p] \in PressStates
      BY DEF TypeOK
    <3> QED
      BY <2>1, <3>1 DEF PressStates
  <2> QED
    BY <2>1, <2>2, RememberMoves
<1>8. ASSUME NEW p \in Presses, EnterHome(p) \/ AskDialog(p) \/ PressFails(p)
      PROVE  RememberInv'
  <2>1. /\ press[p].pc = "asking" /\ UNCHANGED <<chan, stored, erased>>
        /\ \A q \in Presses : q # p => press'[q] = press[q]
        /\ press'[p] = NoPress
    BY <1>8 DEF EnterHome, AskDialog, PressFails, TypeOK
  <2>2. entered' # entered => press[p].newest /\ entered' = press[p].wrote
    BY <1>8 DEF EnterHome, AskDialog, PressFails
  <2> QED
    BY <2>1, <2>2, RememberMoves DEF NoPress
<1>9. CASE Restart
  <2>1. /\ UNCHANGED <<stored, entered, erased>> /\ chan' = <<Read>>
        /\ \A p \in Presses : ~press'[p].newest
    BY <1>9 DEF Restart, NoPress
  <2>2. Settled(0)' /\ WritesAreAwaited'
    <3>1. \A m \in 0 + 1 .. Len(chan') : chan'[m] = Read
      BY <2>1
    <3>2. \A m \in 1 .. Len(chan') : chan'[m] = Read
      BY <2>1
    <3>3. Settled(0)'
      BY <3>1 DEF Settled
    <3> QED
      BY <3>2, <3>3, CallKinds DEF WritesAreAwaited
  <2> QED
    BY <2>1, <2>2 DEF RememberInv, LastPressIsStored, EnteredIsStored
<1>10. CASE UNCHANGED <<stored, chan, press, entered, erased>>
  BY <1>10 DEF RememberInv, WritesAreAwaited, LastPressIsStored, EnteredIsStored, Settled
<1>11. /\ AutoRead \/ AutoFails \/ AutoReread \/ Leave
            => UNCHANGED <<stored, chan, press, entered, erased>>
       /\ \A l \in Logins : Type(l) => UNCHANGED <<stored, chan, press, entered, erased>>
  BY DEF AutoRead, AutoFails, AutoReread, Leave, Type
<1> QED
  BY <1>1, <1>2, <1>3, <1>4, <1>5, <1>6, <1>7, <1>8, <1>9, <1>10, <1>11 DEF Next, vars

\* What LOGIN brought home stays stored across any number of older presses and
\* restarts, unless a refusal that came after the press erases it
\* (body.dart:75-132, login_screen.dart:67-86).
THEOREM RememberedLoginsStay == Spec => []RememberedUnlessErased
<1>1. Init => RememberInv
  <2> SUFFICES ASSUME Init PROVE RememberInv
    OBVIOUS
  <2>1. chan = <<Read>> /\ entered = None /\ \A p \in Presses : ~press[p].newest
    BY DEF Init, NoPress
  <2> QED
    BY <2>1, CallKinds DEF RememberInv, WritesAreAwaited, LastPressIsStored, EnteredIsStored
<1>2. RememberInv => RememberedUnlessErased
  BY DEF RememberInv, EnteredIsStored, RememberedUnlessErased
<1> QED
  BY <1>1, <1>2, AutoInvariant, RememberStep, PTL DEF Spec

-----------------------------------------------------------------------------
(* The auto-login alone.                                                   *)

\* Until LOGIN is pressed the calls on their way are the auto-login's own, and
\* what it read first is still stored unless it was refused.
AloneInv ==
  ~pressed =>
    /\ \A p \in Presses : press[p].pc = "idle"
    /\ chan \in CASE auto.pc = "reading"   -> {<<Read>>}
                  [] auto.pc = "rereading" -> {<<Read>>, AfterVerdict(auto.verdict)}
                  [] OTHER                 -> {<<>>}
    /\ auto.pc = "read" => auto.got = stored
    /\ auto.pc = "asking" => auto.login = stored
    /\ auto.pc \in {"rereading", "reread"} /\ auto.verdict # "unregistered"
         => auto.login = stored
    /\ routes # <<>> => auto.pc = "home" /\ routes = <<stored>>

LEMMA AloneStep ==
  ASSUME AutoInv, RefusalErases, AloneInv, [Next]_vars
  PROVE  AloneInv'
<1> USE DEF AutoInv
<1>0. SUFFICES ASSUME ~pressed \/ Restart PROVE AloneInv'
  <2>1. pressed /\ ~Restart => pressed'
    BY DEF Next, vars, ServeRead, ServeWrite, ServeDelete, AutoRead, AutoAnswered,
           AutoFails, AutoReread, Type, Press, Written, Named, EnterHome, AskDialog,
           PressFails, Leave
  <2> QED
    BY <1>0, <2>1 DEF AloneInv
<1>1. CASE Restart
  <2>1. /\ chan' = <<Read>> /\ auto'.pc = "reading" /\ routes' = <<>>
        /\ \A p \in Presses : press'[p].pc = "idle"
    BY <1>1 DEF Restart, NewAuto, NoPress
  <2> QED
    BY <2>1 DEF AloneInv
<1> SUFFICES ASSUME ~pressed PROVE AloneInv'
  BY <1>0, <1>1
<1>2. CASE ServeRead
  <2>1. /\ chan # <<>> /\ Head(chan) = Read /\ chan' = Tail(chan)
        /\ UNCHANGED <<stored, press, routes>>
        /\ auto'.got = stored /\ auto'.login = auto.login /\ auto'.verdict = auto.verdict
        /\ auto'.pc = IF auto.pc = "reading" THEN "read" ELSE "reread"
    BY <1>2 DEF ServeRead, Serve, TypeOK, Autos
  <2>2. chan = <<Read>> \/ chan = <<Delete, Read>>
    BY <2>1 DEF AloneInv, AfterVerdict
  <2>3. chan = <<Read>>
    BY <2>1, <2>2, CallKinds
  <2>4. chan' = <<>> /\ auto.pc \in {"reading", "rereading"}
    BY <2>1, <2>3 DEF AloneInv
  <2> QED
    BY <2>1, <2>4 DEF AloneInv
<1>3. CASE ServeDelete
  <2>1. /\ chan # <<>> /\ Head(chan) = Delete /\ chan' = Tail(chan)
        /\ UNCHANGED <<press, routes, auto>>
    BY <1>3 DEF ServeDelete, Serve
  <2>2. chan = <<Read>> \/ chan = <<Delete, Read>>
    BY <2>1 DEF AloneInv, AfterVerdict
  <2>3. chan = <<Delete, Read>>
    BY <2>1, <2>2, CallKinds
  <2>4. chan # <<Read>>
    BY <2>1, CallKinds
  <2>5. chan' = <<Read>> /\ auto.pc = "rereading" /\ auto.verdict = "unregistered"
    BY <2>1, <2>3, <2>4 DEF AloneInv, AfterVerdict
  <2> QED
    BY <2>1, <2>5 DEF AloneInv
<1>4. ASSUME NEW p \in Presses, NEW l \in Logins, ServeWrite(p, l) PROVE AloneInv'
  <2>1. chan # <<>> /\ Head(chan) = Write(p, l)
    BY <1>4 DEF ServeWrite, Serve
  <2>2. chan = <<Read>> \/ chan = <<Delete, Read>>
    BY <2>1 DEF AloneInv, AfterVerdict
  <2> QED
    BY <2>1, <2>2, CallKinds
<1>5. CASE AutoRead
  <2>1. /\ auto.pc = "read" /\ auto'.pc \in {"dead", "asking"}
        /\ auto'.pc = "asking" => auto'.login = auto.got
        /\ UNCHANGED <<stored, chan, press, routes>>
    BY <1>5 DEF AutoRead, TypeOK, Autos
  <2> QED
    BY <2>1 DEF AloneInv
<1>6. ASSUME NEW v \in Verdicts, AutoAnswered(v) PROVE AloneInv'
  <2>1. /\ auto.pc = "asking" /\ auto'.pc = "rereading"
        /\ auto'.verdict = v /\ auto'.login = auto.login
        /\ chan' = chan \o AfterVerdict(v) /\ UNCHANGED <<stored, press, routes>>
    BY <1>6 DEF AutoAnswered, TypeOK, Autos
  <2>2. chan = <<>>
    BY <2>1 DEF AloneInv
  <2>3. chan' = AfterVerdict(v)
    BY <2>1, <2>2 DEF AfterVerdict
  <2>4. chan' = IF v = "unregistered" THEN <<Delete, Read>> ELSE <<Read>>
    BY <2>3 DEF AfterVerdict
  <2> QED
    BY <2>1, <2>4 DEF AloneInv, AfterVerdict
<1>7. CASE AutoFails
  <2>1. /\ auto.pc = "asking" /\ auto'.pc = "dead"
        /\ UNCHANGED <<stored, chan, press, routes>>
    BY <1>7 DEF AutoFails, TypeOK, Autos
  <2> QED
    BY <2>1 DEF AloneInv
<1>8. CASE AutoReread
  <2>1. auto.pc = "reread" /\ UNCHANGED <<stored, chan, press>>
    BY <1>8 DEF AutoReread
  <2>2. chan = <<>> /\ routes = <<>>
    BY <2>1 DEF AloneInv
  <2>3. CASE auto.got = None
    <3>1. auto'.pc = "dead" /\ UNCHANGED routes
      BY <1>8, <2>3 DEF AutoReread, TypeOK, Autos
    <3> QED
      BY <2>1, <2>2, <3>1 DEF AloneInv
  <2>4. CASE auto.got # None
    <3>1. auto'.pc = "home" /\ routes' = <<auto.login>> \o routes
      BY <1>8, <2>4 DEF AutoReread, TypeOK, Autos
    <3>2. auto.verdict # "unregistered"
      BY <2>1, <2>4 DEF RefusalErases
    <3>3. auto.login = stored
      BY <2>1, <3>2 DEF AloneInv
    <3>4. routes' = <<stored>>
      BY <2>2, <3>1, <3>3
    <3> QED
      BY <2>1, <2>2, <3>1, <3>4 DEF AloneInv
  <2> QED
    BY <2>3, <2>4
<1>9. ASSUME NEW p \in Presses, Press(p) PROVE AloneInv'
  BY <1>9 DEF Press, AloneInv
<1>10. ASSUME NEW p \in Presses,
              \/ Written(p) \/ Named(p) \/ EnterHome(p) \/ AskDialog(p) \/ PressFails(p)
       PROVE  AloneInv'
  BY <1>10 DEF Written, Named, EnterHome, AskDialog, PressFails, AloneInv
<1>11. CASE Leave
  <2>1. routes = <<stored>> /\ auto.pc = "home"
    BY <1>11 DEF Leave, AloneInv
  <2>2. routes' = <<>> /\ UNCHANGED <<stored, chan, auto, press>>
    BY <1>11, <2>1 DEF Leave
  <2> QED
    BY <2>1, <2>2 DEF AloneInv
<1>12. CASE UNCHANGED <<stored, chan, auto, press, routes, pressed>>
  BY <1>12 DEF AloneInv
<1>13. \A l \in Logins : Type(l) => UNCHANGED <<stored, chan, auto, press, routes, pressed>>
  BY DEF Type
<1> QED
  BY <1>1, <1>2, <1>3, <1>4, <1>5, <1>6, <1>7, <1>8, <1>9, <1>10, <1>11, <1>12, <1>13
     DEF Next, vars

\* Until LOGIN is pressed, the one home screen there may be is that of the
\* login still stored, although neither the deletion of a refused login nor the
\* answer of the login page is tied to the second read (login_screen.dart:33-86).
THEOREM AutoHomesAreStored == Spec => []AutoHomeIsStored
<1>1. Init => AloneInv
  <2> SUFFICES ASSUME Init PROVE AloneInv
    OBVIOUS
  <2>1. /\ chan = <<Read>> /\ auto.pc = "reading" /\ routes = <<>>
        /\ \A p \in Presses : press[p].pc = "idle"
    BY DEF Init, NewAuto, NoPress
  <2> QED
    BY <2>1 DEF AloneInv
<1>2. Init => RefusalErases
  BY DEF Init, NewAuto, RefusalErases
<1>3. AloneInv => AutoHomeIsStored
  BY DEF AloneInv, AutoHomeIsStored
<1> QED
  BY <1>1, <1>2, <1>3, AutoInvariant, RefusalStep, AloneStep, PTL DEF Spec
=============================================================================
