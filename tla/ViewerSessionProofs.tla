------------------------- MODULE ViewerSessionProofs -------------------------
(***************************************************************************)
(* Proofs about ViewerSession, for every set of devices, any number of     *)
(* checks in flight and any number of claims.                              *)
(*                                                                         *)
(* GrantGoesToOwner is not inductive: an answer is granted long after it   *)
(* was given. The strengthening says of the log and of every answer on its *)
(* way what the property says of a grant. UnaskedTakeoverIsARace needs     *)
(* that a start nobody confirmed has seen a log without another device;    *)
(* EvictionIsCurrent, that a mounted player has a claim of its device and  *)
(* that no answer to its check is older than that claim. The refinement    *)
(* matches every step with one of ViewingRight.                            *)
(***************************************************************************)
EXTENDS ViewerSession, TLAPS

\* The type invariant (home_screen.dart:18-74, media_control.dart:411-513).
THEOREM TypeCorrect == Spec => []TypeOK
<1> USE NoneAssumption, BoundAssumption
<1>1. Init => TypeOK
  BY DEF Init, TypeOK, Screens, Claims, Checks, IdleCheck, Grants, NoGrant
<1>2. TypeOK /\ [Next]_vars => TypeOK'
  <2> SUFFICES ASSUME TypeOK, [Next]_vars PROVE TypeOK'
    OBVIOUS
  <2> USE DEF TypeOK
  <2>a. 0 \in Claims /\ IdleCheck \in Checks
    BY DEF Claims, Checks, IdleCheck
  <2>b. Len(owner) \in Claims
    BY DEF Claims
  <2>c. \A d \in Devices : ForgetStart(d) => confirmed' \in [Devices -> BOOLEAN]
                                              /\ seen' \in [Devices -> Claims]
    BY <2>a DEF ForgetStart
  <2>d. \A d \in Devices, k \in Claims : Ask(d, k) \in Checks
    BY <2>a DEF Ask, Checks
  <2>1. ASSUME NEW d \in Devices, ClickLecture(d) PROVE TypeOK'
    BY <2>1, <2>b DEF ClickLecture, Screens
  <2>2. ASSUME NEW d \in Devices, ConfirmYes(d) PROVE TypeOK'
    BY <2>2 DEF ConfirmYes, Screens
  <2>3. ASSUME NEW d \in Devices, ConfirmNo(d) PROVE TypeOK'
    BY <2>3, <2>c DEF ConfirmNo, Screens
  <2>4. ASSUME NEW d \in Devices, ServeList(d) PROVE TypeOK'
    BY <2>4 DEF ServeList, Screens
  <2>5. ASSUME NEW d \in Devices, NEW s \in Slots, OpenPlayer(d, s) PROVE TypeOK'
    <3>1. PICK k \in 1 .. Len(owner) : /\ player' = [player EXCEPT ![d] = k]
                                       /\ check' = [check EXCEPT ![d][s] = Ask(d, k)]
      BY <2>5 DEF OpenPlayer
    <3>2. k \in Claims
      BY DEF Claims
    <3> QED
      BY <2>5, <2>c, <2>d, <3>1, <3>2 DEF OpenPlayer, Screens
  <2>6. ASSUME NEW d \in Devices, ListFails(d) PROVE TypeOK'
    BY <2>6, <2>c DEF ListFails, Screens
  <2>7. ASSUME NEW d \in Devices, NEW s \in Slots, ChangeLecture(d, s) PROVE TypeOK'
    BY <2>7, <2>d DEF ChangeLecture
  <2>8. ASSUME NEW d \in Devices, NEW s \in Slots, ServeCheck(d, s) PROVE TypeOK'
    <3>0. check[d][s] \in Checks
      OBVIOUS
    <3>1. [check[d][s] EXCEPT !.pc = "answered", !.holder = viewer, !.at = Len(owner)]
            \in Checks
      BY <2>b, <3>0 DEF Checks
    <3> QED
      BY <2>8, <3>1 DEF ServeCheck
  <2>9. ASSUME NEW d \in Devices, NEW s \in Slots, HandleCheck(d, s) PROVE TypeOK'
    <3>1. check[d][s].at \in Claims
      BY DEF Checks
    <3>2. check' \in [Devices -> [Slots -> Checks]]
      BY <2>9, <2>a DEF HandleCheck
    <3>3. grant' \in Grants
      BY <2>9, <3>1 DEF HandleCheck, Grants
    <3>4. ui' \in [Devices -> Screens]
      BY <2>9 DEF HandleCheck, AfterRefusal, Screens
    <3> QED
      BY <2>9, <3>2, <3>3, <3>4 DEF HandleCheck
  <2>10. ASSUME NEW d \in Devices, NEW s \in Slots, CheckFails(d, s) PROVE TypeOK'
    BY <2>10, <2>a DEF CheckFails
  <2>11. ASSUME NEW d \in Devices, Back(d) PROVE TypeOK'
    BY <2>11 DEF Back, Screens
  <2>12. ASSUME NEW d \in Devices, SystemBack(d) PROVE TypeOK'
    BY <2>12 DEF SystemBack, Screens
  <2>13. ASSUME NEW d \in Devices, Disposed(d) PROVE TypeOK'
    BY <2>13, <2>a DEF Disposed
  <2>14. ASSUME NEW d \in Devices, DialogOk(d) PROVE TypeOK'
    BY <2>14 DEF DialogOk, Screens
  <2>15. ASSUME NEW d \in Devices, ServeBye(d) PROVE TypeOK'
    BY <2>15 DEF ServeBye
  <2>16. ASSUME NEW d \in Devices, LoseBye(d) PROVE TypeOK'
    BY <2>16 DEF LoseBye
  <2>17. ASSUME NEW d \in Devices, Restart(d) PROVE TypeOK'
    BY <2>17, <2>a, <2>c DEF Restart, Screens
  <2>18. CASE UNCHANGED vars
    BY <2>18 DEF vars
  <2> QED
    BY <2>1, <2>2, <2>3, <2>4, <2>5, <2>6, <2>7, <2>8, <2>9, <2>10, <2>11, <2>12,
       <2>13, <2>14, <2>15, <2>16, <2>17, <2>18 DEF Next
<1> QED
  BY <1>1, <1>2, PTL DEF Spec

-----------------------------------------------------------------------------
(* Who may go on.                                                          *)

\* Claim k was made by device d.
MadeBy(k, d) == k \in 1 .. Len(owner) /\ owner[k] = d

\* The log, while it names a device, names the last one that claimed it.
LogNamesLastClaimant == viewer # None => MadeBy(Len(owner), viewer)

\* An answer that names a device names the claimant of its moment.
AnswersNameClaimant ==
  \A d \in Devices, s \in Slots :
    check[d][s].pc = "answered" /\ check[d][s].holder # None
      => MadeBy(check[d][s].at, check[d][s].holder)

GrantInv == LogNamesLastClaimant /\ AnswersNameClaimant /\ GrantGoesToOwner

\* Only the list request makes a claim.
LEMMA OwnerSteps ==
  ASSUME [Next]_vars
  PROVE  UNCHANGED owner \/ \E d \in Devices : ServeList(d)
BY DEF Next, vars, ClickLecture, ConfirmYes, ConfirmNo, OpenPlayer, ListFails,
       ChangeLecture, ServeCheck, HandleCheck, CheckFails, Back, SystemBack, Disposed,
       DialogOk, ServeBye, LoseBye, Restart

\* Claims are only ever added: what was true of one stays true.
LEMMA ClaimsStay ==
  ASSUME TypeOK, [Next]_vars
  PROVE  \A k, d : MadeBy(k, d) => MadeBy(k, d)'
<1>1. CASE UNCHANGED owner
  BY <1>1 DEF MadeBy
<1>2. ASSUME NEW d \in Devices, ServeList(d)
      PROVE  \A k, e : MadeBy(k, e) => MadeBy(k, e)'
  BY <1>2 DEF TypeOK, ServeList, MadeBy
<1>3. UNCHANGED owner \/ \E d \in Devices : ServeList(d)
  BY OwnerSteps
<1> QED
  BY <1>1, <1>2, <1>3

\* The invariant of the log, of the answers on their way and of the last grant.
LEMMA GrantInvariant == Spec => []GrantInv
<1> USE NoneAssumption
<1>1. Init => GrantInv
  BY DEF Init, GrantInv, LogNamesLastClaimant, AnswersNameClaimant, GrantGoesToOwner,
         IdleCheck
<1>2. TypeOK /\ GrantInv /\ [Next]_vars => GrantInv'
  <2> SUFFICES ASSUME TypeOK, GrantInv, [Next]_vars PROVE GrantInv'
    OBVIOUS
  <2> USE DEF GrantInv
  <2>0. \A k, e : MadeBy(k, e) => MadeBy(k, e)'
    BY ClaimsStay
  <2>a. ASSUME UNCHANGED grant PROVE GrantGoesToOwner'
    <3>1. owner \in Seq(Devices) /\ owner' \in Seq(Devices)
      <4>1. ASSUME NEW d \in Devices, ServeList(d) PROVE owner' \in Seq(Devices)
        BY <4>1 DEF ServeList, TypeOK
      <4> QED
        BY <4>1, OwnerSteps DEF TypeOK
    <3>2. /\ grant # NoGrant => MadeBy(grant.claim, grant.device)
          /\ grant # NoGrant => MadeBy(grant.claim, grant.device)'
      <4>1. grant # NoGrant => MadeBy(grant.claim, grant.device)
        BY <3>1 DEF GrantGoesToOwner, MadeBy
      <4>2. \A k, e : k = grant.claim /\ e = grant.device => (MadeBy(k, e) => MadeBy(k, e)')
        BY <2>0
      <4> QED
        BY <2>a, <4>1, <4>2 DEF MadeBy
    <3> QED
      BY <2>a, <3>1, <3>2 DEF GrantGoesToOwner, MadeBy
  <2>b. ASSUME UNCHANGED <<viewer, owner>> PROVE LogNamesLastClaimant'
    BY <2>b DEF LogNamesLastClaimant, MadeBy
  <2>c. ASSUME \A d \in Devices, s \in Slots : \/ check'[d][s] = check[d][s]
                                               \/ check'[d][s].pc # "answered"
        PROVE  AnswersNameClaimant'
    <3> SUFFICES ASSUME NEW d \in Devices, NEW s \in Slots,
                        check'[d][s].pc = "answered", check'[d][s].holder # None
                 PROVE  MadeBy(check[d][s].at, check[d][s].holder)'
      BY DEF AnswersNameClaimant
    <3>1. check'[d][s] = check[d][s]
      BY <2>c
    <3>2. MadeBy(check[d][s].at, check[d][s].holder)
      BY <3>1 DEF AnswersNameClaimant
    <3> QED
      BY <2>0, <3>1, <3>2
  <2>1. ASSUME NEW d \in Devices, ServeList(d) PROVE GrantInv'
    <3>1. LogNamesLastClaimant'
      BY <2>1 DEF ServeList, LogNamesLastClaimant, MadeBy, TypeOK
    <3> QED
      BY <2>1, <2>a, <2>c, <3>1 DEF ServeList
  <2>2. ASSUME NEW d \in Devices, NEW s \in Slots, ServeCheck(d, s) PROVE GrantInv'
    <3>1. AnswersNameClaimant'
      <4> SUFFICES ASSUME NEW e \in Devices, NEW t \in Slots,
                          check'[e][t].pc = "answered", check'[e][t].holder # None
                   PROVE  MadeBy(check[e][t].at, check[e][t].holder)'
        BY DEF AnswersNameClaimant
      <4>1. CASE e = d /\ t = s
        <5>1. check'[e][t].at = Len(owner) /\ check'[e][t].holder = viewer
          BY <2>2, <4>1 DEF ServeCheck, TypeOK, Checks
        <5> QED
          BY <2>2, <5>1 DEF ServeCheck, LogNamesLastClaimant, MadeBy
      <4>2. CASE ~(e = d /\ t = s)
        <5>1. check'[e][t] = check[e][t]
          BY <2>2, <4>2 DEF ServeCheck, TypeOK
        <5> QED
          BY <2>0, <5>1 DEF AnswersNameClaimant
      <4> QED
        BY <4>1, <4>2
    <3> QED
      BY <2>2, <2>a, <2>b, <3>1 DEF ServeCheck
  <2>3. ASSUME NEW d \in Devices, NEW s \in Slots, HandleCheck(d, s) PROVE GrantInv'
    <3>1. GrantGoesToOwner'
      <4>1. CASE check[d][s].holder = d
        <5>1. MadeBy(check[d][s].at, d)
          BY <2>3, <4>1 DEF HandleCheck, AnswersNameClaimant
        <5>2. grant' = [claim |-> check[d][s].at, device |-> d] /\ owner' = owner
          BY <2>3, <4>1 DEF HandleCheck
        <5> QED
          BY <5>1, <5>2 DEF GrantGoesToOwner, MadeBy, TypeOK
      <4>2. CASE check[d][s].holder # d
        BY <2>3, <2>a, <4>2 DEF HandleCheck
      <4> QED
        BY <4>1, <4>2
    <3>2. \A e \in Devices, t \in Slots : \/ check'[e][t] = check[e][t]
                                          \/ check'[e][t].pc # "answered"
      BY <2>3 DEF HandleCheck, TypeOK, IdleCheck
    <3> QED
      BY <2>3, <2>b, <2>c, <3>1, <3>2 DEF HandleCheck
  <2>4. ASSUME NEW d \in Devices, ServeBye(d) PROVE GrantInv'
    BY <2>4, <2>a, <2>c DEF ServeBye, LogNamesLastClaimant, MadeBy
  <2>5. ASSUME NEW d \in Devices, NEW s \in Slots,
               OpenPlayer(d, s) \/ ChangeLecture(d, s) \/ CheckFails(d, s)
        PROVE  GrantInv'
    <3>1. \A e \in Devices, t \in Slots : \/ check'[e][t] = check[e][t]
                                          \/ check'[e][t].pc # "answered"
      BY <2>5 DEF OpenPlayer, ChangeLecture, CheckFails, Ask, IdleCheck, TypeOK
    <3>2. UNCHANGED <<viewer, owner, grant>>
      BY <2>5 DEF OpenPlayer, ChangeLecture, CheckFails
    <3> QED
      BY <2>a, <2>b, <2>c, <3>1, <3>2
  <2>6. ASSUME NEW d \in Devices, Restart(d) PROVE GrantInv'
    <3>1. \A e \in Devices, t \in Slots : \/ check'[e][t] = check[e][t]
                                          \/ check'[e][t].pc # "answered"
      BY <2>6 DEF Restart, IdleCheck, TypeOK
    <3> QED
      BY <2>6, <2>a, <2>b, <2>c, <3>1 DEF Restart
  <2>7. CASE UNCHANGED <<viewer, owner, grant, check>>
    BY <2>7, <2>a, <2>b, <2>c
  <2>8. \A d \in Devices : ClickLecture(d) \/ ConfirmYes(d) \/ ConfirmNo(d) \/ ListFails(d)
                             \/ Back(d) \/ SystemBack(d) \/ Disposed(d) \/ DialogOk(d)
                             \/ LoseBye(d)
                           => UNCHANGED <<viewer, owner, grant, check>>
    BY DEF ClickLecture, ConfirmYes, ConfirmNo, ListFails, Back, SystemBack, Disposed,
           DialogOk, LoseBye
  <2> QED
    BY <2>1, <2>2, <2>3, <2>4, <2>5, <2>6, <2>7, <2>8 DEF Next, vars
<1> QED
  BY <1>1, <1>2, TypeCorrect, PTL DEF Spec

\* However late an answer is handled, only the device that held the claim in
\* force when it was given takes it for a permission (media_control.dart:503).
THEOREM GrantsGoToOwners == Spec => []GrantGoesToOwner
<1>1. GrantInv => GrantGoesToOwner
  BY DEF GrantInv
<1> QED
  BY <1>1, GrantInvariant, PTL

-----------------------------------------------------------------------------
(* Who must go.                                                            *)

\* A player is one of its own device's claims.
PlayersClaimed == \A d \in Devices : player[d] # 0 => MadeBy(player[d], d)

\* A check is asked of a player whose claim was served, and answered later.
AnswersFollowClaims ==
  \A d \in Devices, s \in Slots :
    /\ check[d][s].of <= Len(owner)
    /\ check[d][s].pc = "answered" => check[d][s].of <= check[d][s].at

EvictInv == PlayersClaimed /\ AnswersFollowClaims

\* A step that starts and answers no check keeps what is said of all of them.
LEMMA AnswersKept ==
  ASSUME TypeOK, AnswersFollowClaims, Len(owner) <= Len(owner'), Len(owner') \in Nat,
         \A d \in Devices, s \in Slots : \/ check'[d][s] = check[d][s]
                                         \/ check'[d][s] = IdleCheck
  PROVE  AnswersFollowClaims'
<1> SUFFICES ASSUME NEW d \in Devices, NEW s \in Slots
             PROVE  /\ check'[d][s].of <= Len(owner')
                    /\ check'[d][s].pc = "answered" => check'[d][s].of <= check'[d][s].at
  BY DEF AnswersFollowClaims
<1>1. CASE check'[d][s] = check[d][s]
  <2>1. check[d][s].of \in Nat /\ Len(owner) \in Nat
    BY BoundAssumption DEF TypeOK, Checks, Claims
  <2> QED
    BY <1>1, <2>1 DEF AnswersFollowClaims
<1>2. CASE check'[d][s] = IdleCheck
  BY <1>2 DEF IdleCheck
<1> QED
  BY <1>1, <1>2

\* EvictInv is inductive beside the type invariant.
LEMMA EvictInvariant == Spec => []EvictInv
<1> USE BoundAssumption
<1>1. Init => EvictInv
  BY DEF Init, EvictInv, PlayersClaimed, AnswersFollowClaims, IdleCheck
<1>2. TypeOK /\ EvictInv /\ [Next]_vars => EvictInv'
  <2> SUFFICES ASSUME TypeOK, EvictInv, [Next]_vars PROVE EvictInv'
    OBVIOUS
  <2> USE DEF EvictInv
  <2>0. \A k, e : MadeBy(k, e) => MadeBy(k, e)'
    BY ClaimsStay
  <2>a. ASSUME \A d \in Devices : player'[d] = player[d] \/ player'[d] = 0
        PROVE  PlayersClaimed'
    <3> SUFFICES ASSUME NEW d \in Devices, player'[d] # 0
                 PROVE  MadeBy(player[d], d)' 
      BY DEF PlayersClaimed
    <3>1. player'[d] = player[d] /\ MadeBy(player[d], d)
      BY <2>a DEF PlayersClaimed
    <3>2. player[d] \in 1 .. Len(owner') /\ owner'[player[d]] = d
      BY <2>0, <3>1 DEF MadeBy
    <3> QED
      BY <3>1, <3>2 DEF MadeBy
  <2>b. Len(owner) <= Len(owner') /\ Len(owner) \in Nat /\ Len(owner') \in Nat
    <3>1. ASSUME NEW d \in Devices, ServeList(d)
          PROVE  Len(owner) <= Len(owner') /\ Len(owner) \in Nat /\ Len(owner') \in Nat
      BY <3>1 DEF ServeList, TypeOK
    <3> QED
      BY <3>1, OwnerSteps DEF TypeOK
  <2>1. ASSUME NEW d \in Devices, NEW s \in Slots, OpenPlayer(d, s) PROVE EvictInv'
    <3>1. PICK k \in 1 .. Len(owner) : /\ owner[k] = d
                                       /\ player' = [player EXCEPT ![d] = k]
                                       /\ check' = [check EXCEPT ![d][s] = Ask(d, k)]
      BY <2>1 DEF OpenPlayer
    <3>2. owner' = owner
      BY <2>1 DEF OpenPlayer
    <3>3. PlayersClaimed'
      BY <3>1, <3>2 DEF PlayersClaimed, MadeBy, TypeOK
    <3>4. /\ check'[d][s] = Ask(d, k)
          /\ \A e \in Devices, t \in Slots : (e # d \/ t # s) => check'[e][t] = check[e][t]
      BY <3>1 DEF TypeOK
    <3>5. AnswersFollowClaims'
      BY <3>2, <3>4, <2>b DEF AnswersFollowClaims, Ask
    <3> QED
      BY <3>3, <3>5
  <2>2. ASSUME NEW d \in Devices, NEW s \in Slots, ChangeLecture(d, s) PROVE EvictInv'
    <3>1. UNCHANGED <<owner, player>>
      BY <2>2 DEF ChangeLecture
    <3>2. player[d] <= Len(owner)
      BY <2>b DEF PlayersClaimed, MadeBy
    <3>3. /\ check'[d][s] = Ask(d, player[d])
          /\ \A e \in Devices, t \in Slots : (e # d \/ t # s) => check'[e][t] = check[e][t]
      BY <2>2 DEF ChangeLecture, TypeOK
    <3>4. AnswersFollowClaims'
      BY <3>1, <3>2, <3>3 DEF AnswersFollowClaims, Ask
    <3> QED
      BY <2>a, <3>1, <3>4
  <2>3. ASSUME NEW d \in Devices, NEW s \in Slots, ServeCheck(d, s) PROVE EvictInv'
    <3>1. UNCHANGED <<owner, player>>
      BY <2>3 DEF ServeCheck
    <3>2. /\ check'[d][s].of = check[d][s].of
          /\ check'[d][s].at = Len(owner)
          /\ \A e \in Devices, t \in Slots : (e # d \/ t # s) => check'[e][t] = check[e][t]
      BY <2>3 DEF ServeCheck, TypeOK, Checks
    <3>3. AnswersFollowClaims'
      BY <3>1, <3>2 DEF AnswersFollowClaims
    <3> QED
      BY <2>a, <3>1, <3>3
  <2>c. ASSUME \A d \in Devices : player'[d] = player[d] \/ player'[d] = 0,
               \A d \in Devices, s \in Slots : \/ check'[d][s] = check[d][s]
                                               \/ check'[d][s] = IdleCheck
        PROVE  EvictInv'
    BY <2>a, <2>b, <2>c, AnswersKept
  <2>4. ASSUME NEW d \in Devices, NEW s \in Slots, HandleCheck(d, s) \/ CheckFails(d, s)
        PROVE  EvictInv'
    <3>1. player' = player /\ check' = [check EXCEPT ![d][s] = IdleCheck]
      BY <2>4 DEF HandleCheck, CheckFails
    <3>2. \A e \in Devices, t \in Slots : \/ check'[e][t] = check[e][t]
                                          \/ check'[e][t] = IdleCheck
      BY <3>1 DEF TypeOK
    <3> QED
      BY <2>c, <3>1, <3>2
  <2>5. ASSUME NEW d \in Devices, Disposed(d) \/ Restart(d) PROVE EvictInv'
    <3>1. \A e \in Devices : player'[e] = player[e] \/ player'[e] = 0
      BY <2>5 DEF Disposed, Restart, TypeOK
    <3>2. \A e \in Devices, t \in Slots : \/ check'[e][t] = check[e][t]
                                          \/ check'[e][t] = IdleCheck
      <4>1. \/ check' = check
            \/ check' = [check EXCEPT ![d] = [s \in Slots |-> IdleCheck]]
        BY <2>5 DEF Disposed, Restart
      <4>2. check \in [Devices -> [Slots -> Checks]]
        BY DEF TypeOK
      <4> QED
        BY ONLY <4>1, <4>2
    <3> QED
      BY <2>c, <3>1, <3>2
  <2>6. CASE UNCHANGED <<player, check>>
    BY <2>6, <2>c
  <2>7. \A d \in Devices : ClickLecture(d) \/ ConfirmYes(d) \/ ConfirmNo(d) \/ ServeList(d)
                             \/ ListFails(d) \/ Back(d) \/ SystemBack(d) \/ DialogOk(d)
                             \/ ServeBye(d) \/ LoseBye(d)
                           => UNCHANGED <<player, check>>
    BY DEF ClickLecture, ConfirmYes, ConfirmNo, ServeList, ListFails, Back, SystemBack,
           DialogOk, ServeBye, LoseBye
  <2> QED
    BY <2>1, <2>2, <2>3, <2>4, <2>5, <2>6, <2>7 DEF Next, vars
<1> QED
  BY <1>1, <1>2, TypeCorrect, PTL DEF Spec

\* Only a handled check puts the dialog where a player was.
LEMMA EndingIsHandled ==
  ASSUME TypeOK, Next, NEW d \in Devices, ui[d] = "player", ui'[d] = "ended"
  PROVE  \E s \in Slots : HandleCheck(d, s) /\ check[d][s].holder # d
                            /\ player[d] # 0 /\ player[d] = check[d][s].of
<1>1. ASSUME NEW e \in Devices, UNCHANGED ui \/ (\E v \in Screens \ {"ended"} : ui' = [ui EXCEPT ![e] = v])
      PROVE  FALSE
  BY <1>1 DEF TypeOK
<1>2. \A e \in Devices : ClickLecture(e) \/ ConfirmYes(e) \/ ConfirmNo(e) \/ ServeList(e)
                           \/ ListFails(e) \/ Back(e) \/ SystemBack(e) \/ Disposed(e)
                           \/ DialogOk(e) \/ ServeBye(e) \/ LoseBye(e) \/ Restart(e)
                         => UNCHANGED ui \/ (\E v \in Screens \ {"ended"} : ui' = [ui EXCEPT ![e] = v])
  BY DEF ClickLecture, ConfirmYes, ConfirmNo, ServeList, ListFails, Back, SystemBack,
         Disposed, DialogOk, ServeBye, LoseBye, Restart, Screens
<1>3. \A e \in Devices, s \in Slots :
        OpenPlayer(e, s) \/ ChangeLecture(e, s) \/ ServeCheck(e, s) \/ CheckFails(e, s)
        => UNCHANGED ui \/ (\E v \in Screens \ {"ended"} : ui' = [ui EXCEPT ![e] = v])
  BY DEF OpenPlayer, ChangeLecture, ServeCheck, CheckFails, Screens
<1>4. PICK e \in Devices : \E s \in Slots : HandleCheck(e, s)
  BY <1>1, <1>2, <1>3 DEF Next
<1>5. PICK s \in Slots : HandleCheck(e, s)
  BY <1>4
<1>6. ui' = ui \/ (ui' = [ui EXCEPT ![e] = AfterRefusal(e)] /\ check[e][s].holder # e
                    /\ player[e] # 0 /\ player[e] = check[e][s].of)
  BY <1>5 DEF HandleCheck
<1>7. e = d
  BY <1>6 DEF TypeOK
<1> QED
  BY <1>5, <1>6, <1>7

\* A device is evicted only by an answer to the player it shows, and that answer
\* tells of a claim made after its own or of a log that was freed: neither late
\* answers nor stacked checks end a player for something its predecessor lost
\* (media_control.dart:493-505).
THEOREM EvictionsAreCurrent == Spec => EvictionIsCurrent
<1>1. TypeOK /\ GrantInv /\ EvictInv /\ [Next]_vars =>
        [\A d \in Devices :
           ui[d] = "player" /\ ui'[d] = "ended" =>
             \E s \in Slots :
               LET c == check[d][s] IN
               /\ c.pc = "answered" /\ check'[d][s].pc = "idle"
               /\ c.holder # d
               /\ \/ c.holder = None /\ player[d] <= c.at
                  \/ owner[c.at] = c.holder /\ player[d] < c.at]_vars
  <2> SUFFICES ASSUME TypeOK, GrantInv, EvictInv, Next, NEW d \in Devices,
                      ui[d] = "player", ui'[d] = "ended"
               PROVE  \E s \in Slots :
                        /\ check[d][s].pc = "answered" /\ check'[d][s].pc = "idle"
                        /\ check[d][s].holder # d
                        /\ \/ check[d][s].holder = None /\ player[d] <= check[d][s].at
                           \/ owner[check[d][s].at] = check[d][s].holder /\ player[d] < check[d][s].at
    OBVIOUS
  <2>1. PICK s \in Slots : HandleCheck(d, s) /\ check[d][s].holder # d
                             /\ player[d] # 0 /\ player[d] = check[d][s].of
    BY EndingIsHandled
  <2>2. check[d][s].pc = "answered" /\ check'[d][s].pc = "idle"
    BY <2>1 DEF HandleCheck, TypeOK, IdleCheck
  <2>3. player[d] <= check[d][s].at
    BY <2>1, <2>2 DEF EvictInv, AnswersFollowClaims
  <2>4. MadeBy(player[d], d)
    BY <2>1 DEF EvictInv, PlayersClaimed
  <2>5. CASE check[d][s].holder # None
    <3>1. MadeBy(check[d][s].at, check[d][s].holder)
      BY <2>2, <2>5 DEF GrantInv, AnswersNameClaimant
    <3>2. player[d] # check[d][s].at
      BY <2>1, <2>4, <3>1 DEF MadeBy
    <3>3. player[d] \in Nat /\ check[d][s].at \in Nat
      BY <2>4, <3>1 DEF MadeBy
    <3> QED
      BY <2>1, <2>2, <2>3, <3>1, <3>2, <3>3 DEF MadeBy
  <2> QED
    BY <2>1, <2>2, <2>3, <2>5
<1> QED
  BY <1>1, TypeCorrect, GrantInvariant, EvictInvariant, PTL DEF Spec, EvictionIsCurrent

-----------------------------------------------------------------------------
(* Who is asked.                                                           *)

\* A start nobody confirmed saw a log that names no other device, and can meet
\* one only after somebody claimed it.
UnaskedStartsSawFreeLog ==
  \A d \in Devices :
    /\ seen[d] <= Len(owner)
    /\ ui[d] = "listing" /\ ~confirmed[d] /\ seen[d] = Len(owner) => viewer \in {None, d}

\* A device takes the log from another without the dialog only if somebody
\* claimed it after the page read it (home_screen.dart:62-68 and :82).
THEOREM UnaskedTakeoversAreRaces == Spec => UnaskedTakeoverIsARace
<1>1. Init => UnaskedStartsSawFreeLog
  <2> SUFFICES ASSUME Init PROVE UnaskedStartsSawFreeLog
    OBVIOUS
  <2>1. owner = <<>> /\ seen = [d \in Devices |-> 0]
    BY DEF Init
  <2>2. \A d \in Devices : ui[d] # "listing"
    BY DEF Init
  <2>3. \A d \in Devices : seen[d] <= Len(owner)
    <3>1. Len(owner) = 0
      BY <2>1
    <3> SUFFICES ASSUME NEW d \in Devices PROVE seen[d] <= 0
      BY <3>1, Zenon
    <3> QED
      BY <2>1
  <2> QED
    BY <2>2, <2>3, Zenon DEF UnaskedStartsSawFreeLog
<1>2. TypeOK /\ UnaskedStartsSawFreeLog /\ [Next]_vars => UnaskedStartsSawFreeLog'
  <2> SUFFICES ASSUME TypeOK, UnaskedStartsSawFreeLog, [Next]_vars
               PROVE  UnaskedStartsSawFreeLog'
    OBVIOUS
  <2>0. Len(owner) \in Nat /\ \A d \in Devices : seen[d] \in Nat
    BY BoundAssumption DEF TypeOK, Claims
  <2>a. ASSUME UNCHANGED owner, viewer' \in {viewer, None},
               \A d \in Devices : \/ seen'[d] = seen[d] /\ confirmed'[d] = confirmed[d]
                                                        /\ (ui'[d] = "listing" => ui[d] = "listing")
                                  \/ seen'[d] <= Len(owner) /\ ui'[d] # "listing"
                                  \/ seen'[d] = seen[d] /\ confirmed'[d]
                                  \/ seen'[d] = Len(owner) /\ viewer' \in {None, d}
        PROVE  UnaskedStartsSawFreeLog'
    BY <2>a DEF UnaskedStartsSawFreeLog
  <2> USE DEF TypeOK
  <2>1. ASSUME NEW d \in Devices, ClickLecture(d) PROVE UnaskedStartsSawFreeLog'
    <3>1. \A e \in Devices \ {d} :
            seen'[e] = seen[e] /\ confirmed'[e] = confirmed[e] /\ ui'[e] = ui[e]
      BY <2>1 DEF ClickLecture
    <3>2. seen'[d] = Len(owner) /\ (ui'[d] # "listing" \/ viewer \in {None, d})
      BY <2>1 DEF ClickLecture
    <3>3. owner' = owner /\ viewer' = viewer
      BY <2>1 DEF ClickLecture
    <3> QED
      BY <3>1, <3>2, <3>3, <2>0, <2>a
  <2>2. ASSUME NEW d \in Devices, ConfirmYes(d) PROVE UnaskedStartsSawFreeLog'
    BY <2>2, <2>a DEF ConfirmYes
  <2>3. ASSUME NEW d \in Devices, ConfirmNo(d) \/ ListFails(d) \/ Restart(d)
        PROVE  UnaskedStartsSawFreeLog'
    BY <2>3, <2>0, <2>a DEF ConfirmNo, ListFails, Restart, ForgetStart
  <2>4. ASSUME NEW d \in Devices, ServeList(d) PROVE UnaskedStartsSawFreeLog'
    <3>1. Len(owner') = Len(owner) + 1 /\ seen' = seen
      BY <2>4 DEF ServeList
    <3> QED
      BY <2>0, <3>1 DEF UnaskedStartsSawFreeLog
  <2>5. ASSUME NEW d \in Devices, NEW s \in Slots, OpenPlayer(d, s)
        PROVE  UnaskedStartsSawFreeLog'
    <3>1. \A e \in Devices \ {d} :
            seen'[e] = seen[e] /\ confirmed'[e] = confirmed[e] /\ ui'[e] = ui[e]
      BY <2>5 DEF OpenPlayer, ForgetStart
    <3>2. seen'[d] = 0 /\ ui'[d] = "player"
      BY <2>5 DEF OpenPlayer, ForgetStart
    <3>3. owner' = owner /\ viewer' = viewer
      BY <2>5 DEF OpenPlayer
    <3> QED
      BY <3>1, <3>2, <3>3, <2>0, <2>a
  <2>6. ASSUME NEW d \in Devices, NEW s \in Slots, HandleCheck(d, s)
        PROVE  UnaskedStartsSawFreeLog'
    BY <2>6, <2>a DEF HandleCheck, AfterRefusal
  <2>7. ASSUME NEW d \in Devices,
               Back(d) \/ SystemBack(d) \/ Disposed(d) \/ DialogOk(d) \/ LoseBye(d)
        PROVE  UnaskedStartsSawFreeLog'
    BY <2>7, <2>a DEF Back, SystemBack, Disposed, DialogOk, LoseBye
  <2>8. ASSUME NEW d \in Devices, ServeBye(d) PROVE UnaskedStartsSawFreeLog'
    BY <2>8, <2>a DEF ServeBye
  <2>9. ASSUME NEW d \in Devices, NEW s \in Slots,
               ChangeLecture(d, s) \/ ServeCheck(d, s) \/ CheckFails(d, s)
        PROVE  UnaskedStartsSawFreeLog'
    BY <2>9, <2>a DEF ChangeLecture, ServeCheck, CheckFails
  <2>10. CASE UNCHANGED vars
    BY <2>10, <2>a DEF vars
  <2> QED
    BY <2>1, <2>2, <2>3, <2>4, <2>5, <2>6, <2>7, <2>8, <2>9, <2>10 DEF Next
<1>3. TypeOK /\ UnaskedStartsSawFreeLog /\ [Next]_vars
        => [\A d \in Devices :
              ui[d] = "listing" /\ ui'[d] = "listed" /\ viewer \notin {None, d} /\ ~confirmed[d]
                => Len(owner) > seen[d]]_vars
  <2> SUFFICES ASSUME TypeOK, UnaskedStartsSawFreeLog, NEW d \in Devices,
                      ui[d] = "listing", viewer \notin {None, d}, ~confirmed[d]
               PROVE  Len(owner) > seen[d]
    OBVIOUS
  <2>1. Len(owner) \in Nat /\ seen[d] \in Nat
    BY BoundAssumption DEF TypeOK, Claims
  <2> QED
    BY <2>1 DEF UnaskedStartsSawFreeLog
<1> QED
  BY <1>1, <1>2, <1>3, TypeCorrect, PTL DEF Spec, UnaskedTakeoverIsARace

-----------------------------------------------------------------------------
(* The abstract right.                                                     *)

\* The two sets the refinement mapping computes from the screens.
Listed  == {d \in Devices : ui[d] = "listed"}
Players == {d \in Devices : ui[d] = "player"}

\* A step of one device that leaves the log, the claims and the grant alone,
\* and its own screen where the mapping does not tell it apart.
LEMMA SilentSteps ==
  ASSUME UNCHANGED <<viewer, owner, grant>>, Listed' = Listed, Players' = Players
  PROVE  [Right!Next]_(Right!vars)
BY DEF Right!vars, Listed, Players

\* When a device other than d changes nothing, the sets change only by d.
LEMMA ScreensChange ==
  ASSUME TypeOK, NEW d \in Devices, NEW to \in Screens, ui' = [ui EXCEPT ![d] = to]
  PROVE  /\ Listed' = IF to = "listed" THEN Listed \cup {d} ELSE Listed \ {d}
         /\ Players' = IF to = "player" THEN Players \cup {d} ELSE Players \ {d}
BY DEF TypeOK, Listed, Players

\* The log, the claims and the grant stay, and one device changes its screen:
\* it opens a player on its claim, gives the claim up, stops, or none of these.
LEMMA ScreenSteps ==
  ASSUME TypeOK, NEW d \in Devices, NEW to \in Screens, ui' = [ui EXCEPT ![d] = to],
         UNCHANGED <<viewer, owner, grant>>,
         to = "player" => ui[d] = "listed", to # "listed"
  PROVE  [Right!Next]_(Right!vars)
<1>1. /\ Listed' = Listed \ {d}
      /\ Players' = IF to = "player" THEN Players \cup {d} ELSE Players \ {d}
  BY ScreensChange
<1>2. CASE to = "player"
  <2>1. Right!Open(d)
    BY <1>1, <1>2 DEF Right!Open, Listed, Players
  <2> QED
    BY <2>1 DEF Right!Next
<1>3. CASE to # "player" /\ ui[d] = "listed"
  <2>1. Players' = Players
    BY <1>1, <1>3 DEF Players
  <2>2. Right!Waive(d)
    BY <1>1, <1>3, <2>1 DEF Right!Waive, Listed, Players
  <2> QED
    BY <2>2 DEF Right!Next
<1>4. CASE to # "player" /\ ui[d] = "player"
  <2>1. Listed' = Listed
    BY <1>1, <1>4 DEF Listed
  <2>2. Right!Stop(d)
    BY <1>1, <1>4, <2>1 DEF Right!Stop, Listed, Players
  <2> QED
    BY <2>2 DEF Right!Next
<1>5. CASE to # "player" /\ ui[d] \notin {"listed", "player"}
  <2>1. Listed' = Listed /\ Players' = Players
    BY <1>1, <1>5 DEF Listed, Players
  <2> QED
    BY <2>1, SilentSteps
<1> QED
  BY <1>2, <1>3, <1>4, <1>5

\* Requests, late answers, lost calls and restarts implement the abstract right
\* to watch (home_screen.dart:43-98, media_control.dart:493-551): every step of
\* a device is a claim, its use, its waiving, a permission, a stop, a release,
\* or nothing.
THEOREM SessionImplementsRight == Spec => ImplementsRight
<1>1. Init => Right!Init
  BY DEF Init, Right!Init, NoGrant
<1>2. TypeOK /\ GrantInv /\ [Next]_vars => [Right!Next]_(Right!vars)
  <2> SUFFICES ASSUME TypeOK, GrantInv, [Next]_vars PROVE [Right!Next]_(Right!vars)
    OBVIOUS
  <2>1. ASSUME NEW d \in Devices, ServeList(d) PROVE [Right!Next]_(Right!vars)
    <3>1. ui' = [ui EXCEPT ![d] = "listed"] /\ "listed" \in Screens
      BY <2>1 DEF ServeList, Screens
    <3>2. Listed' = Listed \cup {d} /\ Players' = Players
      BY <3>1, <2>1, ScreensChange DEF ServeList, Players
    <3>3. Right!Claim(d)
      BY <2>1, <3>2 DEF ServeList, Right!Claim, Listed, Players
    <3> QED
      BY <3>3 DEF Right!Next
  <2>2. ASSUME NEW d \in Devices, NEW s \in Slots, HandleCheck(d, s)
        PROVE  [Right!Next]_(Right!vars)
    <3>1. CASE check[d][s].holder = d
      <4>1. MadeBy(check[d][s].at, d)
        BY <2>2, <3>1, NoneAssumption DEF HandleCheck, GrantInv, AnswersNameClaimant
      <4>2. /\ grant' = [claim |-> check[d][s].at, device |-> d]
            /\ UNCHANGED <<viewer, owner, ui>>
        BY <2>2, <3>1 DEF HandleCheck
      <4>3. Right!GoOn(d)
        BY <4>1, <4>2 DEF Right!GoOn, MadeBy, TypeOK
      <4> QED
        BY <4>3 DEF Right!Next
    <3>2. CASE check[d][s].holder # d
      <4>1. UNCHANGED <<viewer, owner, grant>>
        BY <2>2, <3>2 DEF HandleCheck
      <4>2. UNCHANGED ui \/ \E to \in {"ended", "out"} : ui' = [ui EXCEPT ![d] = to]
        BY <2>2, <3>2 DEF HandleCheck, AfterRefusal
      <4>3. CASE UNCHANGED ui
        BY <4>1, <4>3, SilentSteps DEF Listed, Players
      <4>4. ASSUME NEW to \in {"ended", "out"}, ui' = [ui EXCEPT ![d] = to]
            PROVE  [Right!Next]_(Right!vars)
        BY <4>1, <4>4, ScreenSteps DEF Screens
      <4> QED
        BY <4>2, <4>3, <4>4
    <3> QED
      BY <3>1, <3>2
  <2>3. ASSUME NEW d \in Devices, ServeBye(d) PROVE [Right!Next]_(Right!vars)
    <3>1. UNCHANGED <<owner, grant, ui>>
      BY <2>3 DEF ServeBye
    <3>2. CASE viewer = d
      <4>1. Right!Release(d)
        BY <2>3, <3>1, <3>2 DEF ServeBye, Right!Release
      <4> QED
        BY <4>1 DEF Right!Next
    <3>3. CASE viewer # d
      BY <2>3, <3>1, <3>3, SilentSteps DEF ServeBye, Listed, Players
    <3> QED
      BY <3>2, <3>3
  <2>4. ASSUME NEW d \in Devices, NEW s \in Slots, OpenPlayer(d, s)
        PROVE  [Right!Next]_(Right!vars)
    <3>1. /\ ui[d] = "listed" /\ ui' = [ui EXCEPT ![d] = "player"]
          /\ UNCHANGED <<viewer, owner, grant>>
      BY <2>4 DEF OpenPlayer
    <3> QED
      BY <3>1, ScreenSteps DEF Screens
  <2>5. ASSUME NEW d \in Devices,
               \/ ClickLecture(d) \/ ConfirmYes(d) \/ ConfirmNo(d) \/ ListFails(d)
               \/ Back(d) \/ SystemBack(d) \/ DialogOk(d) \/ Restart(d)
        PROVE  [Right!Next]_(Right!vars)
    <3>1. \E to \in {"home", "asking", "listing"} : ui' = [ui EXCEPT ![d] = to]
      BY <2>5 DEF ClickLecture, ConfirmYes, ConfirmNo, ListFails, Back, SystemBack,
                  DialogOk, Restart
    <3>2. UNCHANGED <<viewer, owner, grant>>
      BY <2>5 DEF ClickLecture, ConfirmYes, ConfirmNo, ListFails, Back, SystemBack,
                  DialogOk, Restart
    <3>3. PICK to \in {"home", "asking", "listing"} : ui' = [ui EXCEPT ![d] = to]
      BY <3>1
    <3> QED
      BY <3>2, <3>3, ScreenSteps DEF Screens
  <2>6. CASE UNCHANGED <<viewer, owner, grant, ui>>
    BY <2>6, SilentSteps DEF Listed, Players
  <2>7. \A d \in Devices :
          /\ Disposed(d) \/ LoseBye(d) => UNCHANGED <<viewer, owner, grant, ui>>
          /\ \A s \in Slots : ChangeLecture(d, s) \/ ServeCheck(d, s) \/ CheckFails(d, s)
                              => UNCHANGED <<viewer, owner, grant, ui>>
    BY DEF Disposed, LoseBye, ChangeLecture, ServeCheck, CheckFails
  <2> QED
    BY <2>1, <2>2, <2>3, <2>4, <2>5, <2>6, <2>7 DEF Next, vars
<1> QED
  BY <1>1, <1>2, TypeCorrect, GrantInvariant, PTL
     DEF Spec, ImplementsRight, Right!Spec
=============================================================================
