---------------------------- MODULE ViewingRight ----------------------------
(***************************************************************************)
(* What the devices of an account and the viewing log promise together,    *)
(* with no request, route or answer in it: a right to watch that every     *)
(* claim takes from whoever has it. A device opens a player only on the    *)
(* strength of a claim it made for that start, and goes on to another      *)
(* lecture only as the maker of a claim. A device that lost the right may  *)
(* watch on: the promise does not say when it stops.                       *)
(***************************************************************************)
EXTENDS Sequences

CONSTANTS Devices, None

VARIABLES
  holder,     \* who has the right, or None
  claims,     \* the devices that claimed it, in order
  entitled,   \* the devices whose last claim has not been used yet
  watching,   \* the devices with an open player
  grant       \* the last permission to go on: a claim and the device it served

vars == <<holder, claims, entitled, watching, grant>>

Init ==
  /\ holder = None
  /\ claims = <<>>
  /\ entitled = {}
  /\ watching = {}
  /\ grant = [claim |-> 0, device |-> None]

Claim(d) ==
  /\ d \notin entitled \cup watching
  /\ holder' = d
  /\ claims' = Append(claims, d)
  /\ entitled' = entitled \cup {d}
  /\ UNCHANGED <<watching, grant>>

Open(d) ==
  /\ d \in entitled
  /\ entitled' = entitled \ {d}
  /\ watching' = watching \cup {d}
  /\ UNCHANGED <<holder, claims, grant>>

\* A claim that is never used.
Waive(d) ==
  /\ d \in entitled
  /\ entitled' = entitled \ {d}
  /\ UNCHANGED <<holder, claims, watching, grant>>

GoOn(d) ==
  /\ \E k \in DOMAIN claims :
       claims[k] = d /\ grant' = [claim |-> k, device |-> d]
  /\ UNCHANGED <<holder, claims, entitled, watching>>

Stop(d) ==
  /\ d \in watching
  /\ watching' = watching \ {d}
  /\ UNCHANGED <<holder, claims, entitled, grant>>

\* Only the holder gives the right back.
Release(d) ==
  /\ holder = d
  /\ holder' = None
  /\ UNCHANGED <<claims, entitled, watching, grant>>

Next == \E d \in Devices :
  Claim(d) \/ Open(d) \/ Waive(d) \/ GoOn(d) \/ Stop(d) \/ Release(d)

Spec == Init /\ [][Next]_vars
=============================================================================
