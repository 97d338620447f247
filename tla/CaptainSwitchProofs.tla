-------------------------- MODULE CaptainSwitchProofs --------------------------
(***************************************************************************)
(* Proofs about CaptainSwitch, for every set of captains, with or without  *)
(* faults: page and database agree about every captain who is not astray,  *)
(* and the requests do to a captain's status, page and socket only what    *)
(* CaptainLink allows.                                                     *)
(***************************************************************************)
EXTENDS CaptainSwitch, TLAPS

(* A page that lets its socket go leaves at most one connection unnoticed. *)
LEMMA CloseType ==
  ASSUME TypeOK, NEW c \in Captains, ghosts[c] = 0, Close(c)
  PROVE  /\ link' \in [Captains -> BOOLEAN] /\ link'[c] = FALSE
         /\ ghosts' \in [Captains -> 0 .. 1]
         /\ \A d \in Captains : link'[d] => link[d]
BY DEF TypeOK, Close

(* Every step keeps the types.                                             *)
LEMMA TypeStep == TypeOK /\ [Next]_vars => TypeOK'
<1> SUFFICES ASSUME TypeOK, [Next]_vars PROVE TypeOK'
  OBVIOUS
<1> USE DEF TypeOK, rows, screen, switch, closing
<1>1. ASSUME NEW c \in Captains, Toggle(c) PROVE TypeOK'
  BY <1>1 DEF Toggle
<1>2. ASSUME NEW c \in Captains, ReadStatus(c) PROVE TypeOK'
  BY <1>2 DEF ReadStatus, Answered
<1>3. ASSUME NEW c \in Captains, UpdateStatus(c) PROVE TypeOK'
  BY <1>3 DEF UpdateStatus, Stray
<1>4. ASSUME NEW c \in Captains, SwitchFails(c) PROVE TypeOK'
  BY <1>4 DEF SwitchFails, Answered
<1>5. ASSUME NEW c \in Captains, GiveUp(c) PROVE TypeOK'
  BY <1>5 DEF GiveUp, Stray
<1>6. ASSUME NEW c \in Captains, Register(c) PROVE TypeOK'
  BY <1>6 DEF Register, Answered
<1>7. ASSUME NEW c \in Captains, Unregister(c) PROVE TypeOK'
  <2>1. link' \in [Captains -> BOOLEAN] /\ ghosts' \in [Captains -> 0 .. 1]
    BY <1>7, CloseType DEF Unregister
  <2>2. online' \in [Captains -> BOOLEAN]
    BY <1>7 DEF Unregister
  <2> QED BY <1>7, <2>1, <2>2 DEF Unregister, Answered
<1>8. ASSUME NEW c \in Captains, Connect(c) PROVE TypeOK'
  BY <1>8 DEF Connect
<1>9. ASSUME NEW c \in Captains, Drop(c) PROVE TypeOK'
  BY <1>9 DEF Drop, Close
<1>10. ASSUME NEW c \in Captains, Notice(c) PROVE TypeOK'
  BY <1>10 DEF Notice
<1>11. ASSUME NEW c \in Captains, ResetStatus(c) PROVE TypeOK'
  BY <1>11 DEF ResetStatus, Stray
<1>12. ASSUME NEW c \in Captains, AskAccept(c) PROVE TypeOK'
  BY <1>12 DEF AskAccept
<1>13. ASSUME NEW c \in Captains, Accept(c) PROVE TypeOK'
  BY <1>13 DEF Accept, Stray
<1>14. ASSUME NEW c \in Captains, AcceptRefused(c) PROVE TypeOK'
  BY <1>14 DEF AcceptRefused
<1>15. ASSUME NEW c \in Captains, AcceptAnswered(c) PROVE TypeOK'
  BY <1>15 DEF AcceptAnswered
<1>16. ASSUME NEW c \in Captains, AcceptUnheard(c) PROVE TypeOK'
  BY <1>16 DEF AcceptUnheard, Stray
<1>17. ASSUME NEW c \in Captains, RideEnds(c) PROVE TypeOK'
  BY <1>17 DEF RideEnds
<1>18. ASSUME NEW c \in Captains, Release(c) PROVE TypeOK'
  <2>1. status' \in [Captains -> {"OFFLINE", "AVAILABLE", "ON_RIDE"}]
    BY <1>18 DEF Release
  <2>2. named' \in [Captains -> BOOLEAN]
    BY <1>18 DEF Release
  <2>3. astray' \subseteq Captains
    BY <1>18 DEF Release, Stray
  <2> QED BY <1>18, <2>1, <2>2, <2>3 DEF Release
<1>19. ASSUME NEW c \in Captains, Reload(c) PROVE TypeOK'
  <2>1. link' \in [Captains -> BOOLEAN] /\ ghosts' \in [Captains -> 0 .. 1]
    BY <1>19, CloseType DEF Reload
  <2>2. PICK found \in BOOLEAN, offer \in BOOLEAN :
          /\ online' = [online EXCEPT ![c] = (found \/ offer)]
          /\ named' = [named EXCEPT ![c] = found]
    BY <1>19 DEF Reload
  <2>3. online' \in [Captains -> BOOLEAN] /\ named' \in [Captains -> BOOLEAN]
    BY <2>2
  <2>4. astray' \subseteq Captains
    BY <1>19 DEF Reload, Stray
  <2>5. accept' \in [Captains -> {"idle", "sent", "late", "taken"}]
    BY <1>19, Zenon DEF Reload
  <2> QED BY <1>19, <2>1, <2>3, <2>4, <2>5 DEF Reload
<1>0. CASE UNCHANGED vars
  BY <1>0 DEF vars
<1> QED BY <1>0, <1>1, <1>2, <1>3, <1>4, <1>5, <1>6, <1>7, <1>8, <1>9,
           <1>10, <1>11, <1>12, <1>13, <1>14, <1>15, <1>16, <1>17, <1>18, <1>19 DEF Next

(* Every step keeps page and database in agreement, given the types.       *)
LEMMA AgreeStep == TypeOK /\ PagesAgree /\ [Next]_vars => PagesAgree'
<1> SUFFICES ASSUME TypeOK, PagesAgree, [Next]_vars PROVE PagesAgree'
  OBVIOUS
<1> USE DEF TypeOK, PagesAgree, Switching, rows, screen, switch, closing
<1>1. ASSUME NEW c \in Captains, Toggle(c) PROVE PagesAgree'
  BY <1>1 DEF Toggle
<1>2. ASSUME NEW c \in Captains, ReadStatus(c) PROVE PagesAgree'
  BY <1>2 DEF ReadStatus, Answered
<1>3. ASSUME NEW c \in Captains, UpdateStatus(c) PROVE PagesAgree'
  BY <1>3 DEF UpdateStatus, Stray
<1>4. ASSUME NEW c \in Captains, SwitchFails(c) PROVE PagesAgree'
  BY <1>4 DEF SwitchFails, Answered
<1>5. ASSUME NEW c \in Captains, GiveUp(c) PROVE PagesAgree'
  BY <1>5 DEF GiveUp, Stray
<1>6. ASSUME NEW c \in Captains, Register(c) PROVE PagesAgree'
  BY <1>6 DEF Register, Answered
<1>7. ASSUME NEW c \in Captains, Unregister(c) PROVE PagesAgree'
  BY <1>7 DEF Unregister, Answered, Close
<1>8. ASSUME NEW c \in Captains, Connect(c) PROVE PagesAgree'
  BY <1>8 DEF Connect
<1>9. ASSUME NEW c \in Captains, Drop(c) PROVE PagesAgree'
  BY <1>9 DEF Drop, Close
<1>10. ASSUME NEW c \in Captains, Notice(c) PROVE PagesAgree'
  BY <1>10 DEF Notice
<1>11. ASSUME NEW c \in Captains, ResetStatus(c) PROVE PagesAgree'
  BY <1>11 DEF ResetStatus, Stray
<1>12. ASSUME NEW c \in Captains, AskAccept(c) PROVE PagesAgree'
  BY <1>12 DEF AskAccept
<1>13. ASSUME NEW c \in Captains, Accept(c) PROVE PagesAgree'
  BY <1>13 DEF Accept, Stray
<1>14. ASSUME NEW c \in Captains, AcceptRefused(c) PROVE PagesAgree'
  BY <1>14 DEF AcceptRefused
<1>15. ASSUME NEW c \in Captains, AcceptAnswered(c) PROVE PagesAgree'
  BY <1>15 DEF AcceptAnswered
<1>16. ASSUME NEW c \in Captains, AcceptUnheard(c) PROVE PagesAgree'
  BY <1>16 DEF AcceptUnheard, Stray
<1>17. ASSUME NEW c \in Captains, RideEnds(c) PROVE PagesAgree'
  BY <1>17 DEF RideEnds
<1>18. ASSUME NEW c \in Captains, Release(c) PROVE PagesAgree'
  BY <1>18 DEF Release, Stray
<1>19. ASSUME NEW c \in Captains, Reload(c) PROVE PagesAgree'
  <2>1. /\ link' \in [Captains -> BOOLEAN] /\ link'[c] = FALSE
        /\ \A d \in Captains : link'[d] => link[d]
    BY <1>19, CloseType DEF Reload
  <2>2. PICK found \in BOOLEAN, offer \in BOOLEAN :
          /\ found => ride[c] = "driving"
          /\ offer => status[c] = "AVAILABLE"
          /\ online' = [online EXCEPT ![c] = (found \/ offer)]
          /\ named' = [named EXCEPT ![c] = found]
          /\ Stray(c, \/ ride[c] = "driving" /\ ~(found /\ status[c] = "ON_RIDE")
                      \/ status[c] = "AVAILABLE" /\ ~offer)
    BY <1>19 DEF Reload
  <2>3. /\ waiting' = [waiting EXCEPT ![c] = FALSE]
        /\ UNCHANGED <<status, ride, toggle>>
        /\ \A d \in Captains \ {c} : accept'[d] = accept[d]
    BY <1>19 DEF Reload
  <2> QED BY <2>1, <2>2, <2>3 DEF Stray
<1>0. CASE UNCHANGED vars
  BY <1>0 DEF vars
<1> QED BY <1>0, <1>1, <1>2, <1>3, <1>4, <1>5, <1>6, <1>7, <1>8, <1>9,
           <1>10, <1>11, <1>12, <1>13, <1>14, <1>15, <1>16, <1>17, <1>18, <1>19 DEF Next

(* At every await of the switch and of an accept, and in every order in    *)
(* which answers are lost, connections break, are noticed late and come    *)
(* back, the page says of a captain what the database says, but for the    *)
(* captains astray: whose page missed an answer, who accepted a ride       *)
(* between the two halves of the switch, or whose status was changed       *)
(* behind the page's back (captain/page.tsx:121-204,                       *)
(* captain.service.ts:27-79, socket.ts:218-245).                           *)
THEOREM SwitchAgrees == Spec => []SwitchInv
<1>1. Init => SwitchInv
  BY DEF Init, SwitchInv, TypeOK, PagesAgree, Switching
<1>2. SwitchInv /\ [Next]_vars => SwitchInv'
  BY TypeStep, AgreeStep DEF SwitchInv
<1> QED BY <1>1, <1>2, PTL DEF Spec

(* In CaptainLink, a status set AVAILABLE makes the captain available.     *)
LEMMA MadeAvailable ==
  ASSUME TypeOK, NEW c \in Captains, status' = [status EXCEPT ![c] = "AVAILABLE"]
  PROVE  [d \in Captains |-> status[d] = "AVAILABLE"]' =
           [[d \in Captains |-> status[d] = "AVAILABLE"] EXCEPT ![c] = TRUE]
BY DEF TypeOK

(* In CaptainLink, any other status makes the captain unavailable.         *)
LEMMA MadeUnavailable ==
  ASSUME TypeOK, NEW c \in Captains, NEW s \in {"OFFLINE", "ON_RIDE"},
         status' = [status EXCEPT ![c] = s]
  PROVE  [d \in Captains |-> status[d] = "AVAILABLE"]' =
           [[d \in Captains |-> status[d] = "AVAILABLE"] EXCEPT ![c] = FALSE]
BY DEF TypeOK

(* In CaptainLink, the request moves on to the stage of its next step.     *)
LEMMA MappedToggle ==
  ASSUME TypeOK, NEW c \in Captains, NEW s, toggle' = [toggle EXCEPT ![c] = s]
  PROVE  [d \in Captains |-> Stage(toggle[d])]' =
           [[d \in Captains |-> Stage(toggle[d])] EXCEPT ![c] = Stage(s)]
BY DEF TypeOK

(* Every step is one of CaptainLink, or changes nothing it knows of.       *)
LEMMA LinkStep ==
  ASSUME TypeOK, [Next]_vars
  PROVE  [Link!LinkNext]_(Link!linkVars)
<1> DEFINE available == [c \in Captains |-> status[c] = "AVAILABLE"]
           stage == [c \in Captains |-> Stage(toggle[c])]
<1> USE DEF rows, screen, switch, closing, Link!screen, Link!socket
<1>1. ASSUME NEW c \in Captains,
             \/ Toggle(c) \/ ReadStatus(c) \/ SwitchFails(c) \/ GiveUp(c)
             \/ AskAccept(c) \/ AcceptRefused(c) \/ AcceptUnheard(c) \/ RideEnds(c)
      PROVE  UNCHANGED Link!linkVars
  <2>1. UNCHANGED <<status, online, named, link, ghosts>>
    BY <1>1 DEF Toggle, ReadStatus, SwitchFails, GiveUp, AskAccept, AcceptRefused,
                AcceptUnheard, RideEnds
  <2>2. \/ UNCHANGED toggle
        \/ \E step \in {"idle", "on", "off", "available", "offline"} :
             toggle' = [toggle EXCEPT ![c] = step] /\ Stage(toggle[c]) = "idle"
    <3>1. CASE Toggle(c)
      BY <3>1 DEF Toggle, Stage
    <3>2. CASE ReadStatus(c)
      BY <3>2 DEF ReadStatus, Answered, Stage
    <3>3. CASE SwitchFails(c)
      BY <3>3 DEF SwitchFails, Answered, Stage
    <3>4. CASE UNCHANGED toggle
      BY <3>4
    <3> QED BY <1>1, <3>1, <3>2, <3>3, <3>4
            DEF GiveUp, AskAccept, AcceptRefused, AcceptUnheard, RideEnds
  <2>3. UNCHANGED stage
    BY <2>2 DEF TypeOK, Stage
  <2> QED BY <2>1, <2>3 DEF Link!linkVars
<1>2. ASSUME NEW c \in Captains, UpdateStatus(c) PROVE Link!WriteStatus(c)
  <2>0. UNCHANGED <<online, named, link, ghosts>>
    BY <1>2 DEF UpdateStatus
  <2>1. CASE toggle[c] = "available"
    <3>1. /\ status' = [status EXCEPT ![c] = "AVAILABLE"]
          /\ toggle' = [toggle EXCEPT ![c] = "register"]
      BY <1>2, <2>1 DEF UpdateStatus
    <3>2. available' = [available EXCEPT ![c] = TRUE]
      BY <3>1, MadeAvailable
    <3>3. stage[c] = "idle" /\ stage' = [stage EXCEPT ![c] = "register"]
      BY <2>1, <3>1, MappedToggle DEF Stage
    <3> QED BY <2>0, <3>2, <3>3 DEF Link!WriteStatus
  <2>2. CASE toggle[c] = "offline"
    <3>1. /\ status' = [status EXCEPT ![c] = "OFFLINE"]
          /\ toggle' = [toggle EXCEPT ![c] = "unregister"]
      BY <1>2, <2>2 DEF UpdateStatus
    <3>2. available' = [available EXCEPT ![c] = FALSE]
      BY <3>1, MadeUnavailable
    <3>3. stage[c] = "idle" /\ stage' = [stage EXCEPT ![c] = "unregister"]
      BY <2>2, <3>1, MappedToggle DEF Stage
    <3> QED BY <2>0, <3>2, <3>3 DEF Link!WriteStatus
  <2> QED BY <1>2, <2>1, <2>2 DEF UpdateStatus
<1>3. ASSUME NEW c \in Captains, Register(c) PROVE Link!Registered(c)
  BY <1>3, MappedToggle DEF Register, Answered, Link!Registered, Stage, TypeOK
<1>4. ASSUME NEW c \in Captains, Unregister(c) PROVE Link!Unregistered(c)
  BY <1>4, MappedToggle DEF Unregister, Answered, Close, Link!Unregistered, Link!Close, Stage
<1>5. ASSUME NEW c \in Captains, Connect(c) PROVE Link!Connect(c)
  BY <1>5 DEF Connect, Link!Connect
<1>6. ASSUME NEW c \in Captains, Drop(c) PROVE Link!Drop(c)
  BY <1>6 DEF Drop, Close, Link!Drop, Link!Close
<1>7. ASSUME NEW c \in Captains, Notice(c) PROVE Link!Noticed(c)
  BY <1>7 DEF Notice, Link!Noticed
<1>8. ASSUME NEW c \in Captains, ResetStatus(c)
      PROVE  Link!Withdrawn(c) \/ UNCHANGED Link!linkVars
  BY <1>8, MadeUnavailable DEF ResetStatus, Link!Withdrawn, Link!linkVars
<1>9. ASSUME NEW c \in Captains, Accept(c) PROVE Link!Withdrawn(c)
  <2>1. /\ status' = [status EXCEPT ![c] = "ON_RIDE"]
        /\ UNCHANGED <<online, named, toggle, link, ghosts>>
    BY <1>9 DEF Accept
  <2>2. available' = [available EXCEPT ![c] = FALSE]
    BY <2>1, MadeUnavailable
  <2> QED BY <2>1, <2>2 DEF Link!Withdrawn
<1>10. ASSUME NEW c \in Captains, AcceptAnswered(c) PROVE Link!RideShown(c)
  BY <1>10 DEF AcceptAnswered, Link!RideShown
<1>11. ASSUME NEW c \in Captains, Release(c) PROVE Link!Released(c)
  <2>1. /\ UNCHANGED <<online, toggle, link, ghosts>>
        /\ \E isShown \in {named[c], FALSE} : named' = [named EXCEPT ![c] = isShown]
        /\ status' = [status EXCEPT ![c] = "AVAILABLE"] \/ UNCHANGED status
    BY <1>11 DEF Release
  <2>2. \E isFree \in {available[c], TRUE} : available' = [available EXCEPT ![c] = isFree]
    <3>1. CASE status' = [status EXCEPT ![c] = "AVAILABLE"]
      <4>1. available' = [available EXCEPT ![c] = TRUE]
        BY <3>1, MadeAvailable
      <4> QED BY <4>1
    <3>2. CASE UNCHANGED status
      <4>1. available' = [available EXCEPT ![c] = available[c]]
        BY <3>2
      <4> QED BY <4>1
    <3> QED BY <2>1, <3>1, <3>2
  <2> QED BY <2>1, <2>2 DEF Link!Released
<1>12. ASSUME NEW c \in Captains, Reload(c) PROVE Link!Reloaded(c)
  BY <1>12 DEF Reload, Close, Link!Reloaded, Link!Close
<1>13. CASE UNCHANGED vars
  BY <1>13 DEF vars, Link!linkVars
<1> QED BY <1>1, <1>2, <1>3, <1>4, <1>5, <1>6, <1>7, <1>8, <1>9, <1>10, <1>11, <1>12, <1>13
        DEF Next, Link!LinkNext, Link!PageStep

(* The switch, the accept, the ride's end, the disconnect handler and      *)
(* every loss of an answer do to the status, the page and the socket no    *)
(* more than the steps of CaptainLink, on which CaptainPresence builds the *)
(* positions (captain/page.tsx:121-204, captain.service.ts:27-79,          *)
(* socket.ts:218-245, ride.service.ts:361-375, 781-785).                   *)
THEOREM SwitchLinks == Spec => Link!LinkInit /\ [][Link!LinkNext]_(Link!linkVars)
<1>1. Init => Link!LinkInit
  BY DEF Init, Link!LinkInit, Stage
<1>2. SwitchInv /\ [Next]_vars => [Link!LinkNext]_(Link!linkVars)
  BY LinkStep DEF SwitchInv
<1> QED BY <1>1, <1>2, SwitchAgrees, PTL DEF Spec
=============================================================================
