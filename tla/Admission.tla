------------------------------ MODULE Admission ------------------------------
(***************************************************************************)
(* What the app and the backend's registry promise together about the      *)
(* devices of an account, with no request, answer or route in it. A device *)
(* gets an offer first: there is room, or two members are named, one of    *)
(* which it may replace. Only an offer admits, a member leaves only to a   *)
(* device that was offered its place, and a device goes in only after its  *)
(* admission was decided. Offers are not taken back when another device is *)
(* admitted: two devices may hold offers of the same place.                *)
(***************************************************************************)
EXTENDS Integers, FiniteSets

CONSTANTS Devices, NoDevice, Limit

VARIABLES
  members,    \* the registered devices
  offer,      \* whom each device may replace, NoDevice being nobody
  blind,      \* the devices whose offer names nobody since none could be read
  cleared,    \* the devices whose admission was decided
  inside      \* the devices that went in

vars == <<members, offer, blind, cleared, inside>>

Init ==
  /\ members \in {M \in SUBSET Devices : Cardinality(M) <= Limit}
  /\ offer = [d \in Devices |-> {}]
  /\ blind = {}
  /\ cleared = {}
  /\ inside = {}

\* A new device is offered room in addition to the members.
Room(d) ==
  /\ offer[d] = {} /\ d \notin members
  /\ offer' = [offer EXCEPT ![d] = {NoDevice}]
  /\ UNCHANGED <<members, blind, cleared, inside>>

OfferRoom(d) == Cardinality(members) < Limit /\ Room(d)

\* Not a promise but what is left of one: once the limit has been exceeded a new
\* device is no longer asked whom to replace, and the excess grows.
OverlookExcess(d) == Cardinality(members) > Limit /\ Room(d)

OfferPlace(d) ==
  /\ offer[d] = {}
  /\ \E a, b \in members : a # b /\ offer' = [offer EXCEPT ![d] = {a, b}]
  /\ UNCHANGED <<members, blind, cleared, inside>>

\* The members could not be read.
OfferBlindly(d) ==
  /\ offer[d] = {}
  /\ offer' = [offer EXCEPT ![d] = {NoDevice}]
  /\ blind' = blind \cup {d}
  /\ UNCHANGED <<members, cleared, inside>>

\* A member needs no offer.
Recognise(d) ==
  /\ d \in members
  /\ cleared' = cleared \cup {d}
  /\ UNCHANGED <<members, offer, blind, inside>>

Admit(d) ==
  /\ \E x \in offer[d] : members' = (members \ {x}) \cup {d}
  /\ cleared' = cleared \cup {d}
  /\ UNCHANGED <<offer, blind, inside>>

\* Refused for the limit; the app does not look.
Refuse(d) ==
  /\ \E x \in offer[d] : Cardinality((members \ {x}) \cup {d}) > Limit
  /\ cleared' = cleared \cup {d}
  /\ UNCHANGED <<members, offer, blind, inside>>

Enter(d) ==
  /\ d \in cleared
  /\ cleared' = cleared \ {d}
  /\ inside' = inside \cup {d}
  /\ UNCHANGED <<members, offer, blind>>

\* Back to the offer, to use it again.
StepBack(d) ==
  /\ cleared' = cleared \ {d}
  /\ inside' = inside \ {d}
  /\ UNCHANGED <<members, offer, blind>>

Forget(d) ==
  /\ offer' = [offer EXCEPT ![d] = {}]
  /\ blind' = blind \ {d}
  /\ cleared' = cleared \ {d}
  /\ inside' = inside \ {d}
  /\ UNCHANGED members

Next == \E d \in Devices :
  \/ OfferRoom(d) \/ OverlookExcess(d) \/ OfferPlace(d) \/ OfferBlindly(d)
  \/ Recognise(d) \/ Admit(d) \/ Refuse(d) \/ Enter(d) \/ StepBack(d) \/ Forget(d)

Spec == Init /\ [][Next]_vars
=============================================================================
