------------------------- MODULE GameSessionProofs -------------------------
(***************************************************************************)
(* Proofs about GameSession, in two parts.                                 *)
(*                                                                         *)
(* The server's tables: its variables keep their types, no player ever     *)
(* holds two slots, and a slot is only lost as it may be, whatever the     *)
(* number of players, slots, missions and orders, and in whatever order    *)
(* their messages come.  The clients are free in all this: of theirs the   *)
(* argument needs only that what is under way to the server is of the      *)
(* types a client can send.                                                *)
(*                                                                         *)
(* The slots as the clients know them: a client that has read all it was   *)
(* sent knows the slots as the server does (RolesSeen), whoever joins,     *)
(* leaves, asks for a slot or is given one while the messages are under    *)
(* way.  The messages that carry slots are headers (all slots, and the     *)
(* mission), lists of all slots, and changes of one slot; a client starts  *)
(* from nothing.  The inductive invariant says of each player where what   *)
(* is under way to him leads his client: to the slots of the server, as    *)
(* soon as his client has a header or is going to have one.  The admin's   *)
(* command "restart" is left out of this part: with it the transport drops *)
(* messages that are under way (CancelAllMessages), changes of slots among *)
(* them.                                                                   *)
(***************************************************************************)
EXTENDS GameSession, TLAPS

InfoType == [state : Phases, jip : BOOLEAN, valid : BOOLEAN,
             person : {0} \cup Slots, ident : BOOLEAN]

ServerPhases ==
    {Create, PrepareSide, PrepareRole, Debriefing, Transfer, LoadIsland, Briefing, Play}

Requests == [type : {"login"}]
       \cup [type : {"ask"}, valid : BOOLEAN]
       \cup [type : {"ready"}, state : Phases]
       \cup [type : {"claim"}, slot : Slots, player : Players \cup {AI}]
       \cup [type : {"order"}, what : Orders \cup {"login"}]

Typed == toServer \in [Players -> Seq(Requests)]

IInv == TypeOK /\ Typed /\ RoleOnce

(***************************************************************************)
(* The tables the server keeps of its players.                             *)
(***************************************************************************)
USE DEF Phases, ServerPhases, None, Creating, Create, LoggedIn, PrepareSide, PrepareRole, PrepareOK,
        Debriefing, DebriefingOK, Transfer, LoadIsland, Briefing, Play

LEMMA WithState ==
    ASSUME NEW x \in InfoType, NEW s \in Phases
    PROVE  [x EXCEPT !.state = s] \in InfoType
BY DEF InfoType

LEMMA WithPerson ==
    ASSUME NEW x \in InfoType, NEW r \in {0} \cup Slots
    PROVE  [x EXCEPT !.person = r] \in InfoType
BY DEF InfoType

LEMMA WithStatePerson ==
    ASSUME NEW x \in InfoType, NEW s \in Phases, NEW r \in {0} \cup Slots
    PROVE  [x EXCEPT !.state = s, !.person = r] \in InfoType
BY DEF InfoType

LEMMA WithValid ==
    ASSUME NEW x \in InfoType, NEW v \in BOOLEAN
    PROVE  [x EXCEPT !.valid = v] \in InfoType
BY DEF InfoType

LEMMA ReturnedTyped ==
    ASSUME NEW x \in InfoType
    PROVE  Returned(x) \in InfoType
BY DEF InfoType, Returned

LEMMA IdentifiedTyped ==
    ASSUME NEW x \in InfoType, NEW playing \in BOOLEAN, NEW lobby \in BOOLEAN
    PROVE  Identified(x, playing, lobby) \in InfoType
BY DEF InfoType, Identified

LEMMA MirroredTyped ==
    ASSUME NEW x \in InfoType, NEW s \in ServerPhases, NEW holds \in BOOLEAN
    PROVE  Mirrored(s, x, holds) \in InfoType
BY WithState, ReturnedTyped DEF Mirrored

LEMMA FollowTyped ==
    ASSUME NEW s \in ServerPhases, NEW rs, NEW i \in [Players -> InfoType]
    PROVE  Follow(s, rs, i) \in [Players -> InfoType]
BY MirroredTyped DEF Follow, Holds

LEMMA ReclassifiedTyped ==
    ASSUME NEW s, NEW rs, NEW i \in [Players -> InfoType]
    PROVE  Reclassified(s, rs, i) \in [Players -> InfoType]
BY DEF Reclassified, InfoType

LEMMA SetGameStateTyped ==
    ASSUME NEW s \in ServerPhases, NEW rs, NEW i \in [Players -> InfoType], NEW q,
           SetGameState(s, rs, i, q)
    PROVE  state' = s /\ info' \in [Players -> InfoType]
BY FollowTyped, ReclassifiedTyped DEF SetGameState

(***************************************************************************)
(* Slots.  As long as nobody holds two, SlotOf is the one he holds.        *)
(***************************************************************************)
SlotTable == [Slots -> Players \cup {AI}]
Once(rs)  == \A r, s \in Slots : rs[r] = rs[s] /\ rs[r] # AI => r = s

LEMMA SlotFound ==
    ASSUME NEW rs \in SlotTable, NEW p \in Players, Once(rs), Holds(rs, p)
    PROVE  SlotOf(rs, p) \in Slots /\ rs[SlotOf(rs, p)] = p
<1>1. PICK r \in Slots : rs[r] = p
  BY DEF Holds, SlotTable
<1>2. \A s \in Slots : rs[s] = p => s = r
  BY <1>1, PlayersAssumption DEF Once
<1>3. r <= r
  <2>1. PICK n : Slots = 1 .. n
    BY SlotsAssumption, Zenon
  <2>2. r \in 1 .. n
    BY <2>1
  <2> QED
    BY <2>2
<1>4. \E t \in DOMAIN rs : rs[t] = p /\ \A s \in DOMAIN rs : rs[s] = p => t <= s
  BY <1>1, <1>2, <1>3 DEF SlotTable
<1> QED
  BY <1>4 DEF SlotOf, SlotTable

LEMMA PersonTyped ==
    ASSUME NEW rs \in SlotTable, NEW p \in Players, NEW x \in InfoType, Once(rs)
    PROVE  PersonOf(rs, x, p) \in {0} \cup Slots
<1>1. CASE x.person = 0 /\ Holds(rs, p)
  BY <1>1, SlotFound DEF PersonOf
<1>2. CASE ~(x.person = 0 /\ Holds(rs, p))
  BY <1>2 DEF PersonOf, InfoType
<1> QED
  BY <1>1, <1>2

LEMMA UnassignedOnce == Unassigned \in SlotTable /\ Once(Unassigned)
BY DEF Unassigned, SlotTable, Once

LEMMA LobbyTyped ==
    ASSUME NEW i \in [Players -> InfoType]
    PROVE  Lobby(i) \in [Players -> InfoType]
BY WithState DEF Lobby

LEMMA DestroyedTyped ==
    ASSUME NEW i \in [Players -> InfoType]
    PROVE  Destroyed(i) \in [Players -> InfoType]
BY WithPerson DEF Destroyed

(***************************************************************************)
(* The invariant, in the terms of the argument.                            *)
(***************************************************************************)
LEMMA Unfolded ==
    IInv <=> /\ state \in ServerPhases
             /\ {restart, reassign, named, loadIsland, report} \subseteq BOOLEAN
             /\ mission \in 0 .. MaxMissions
             /\ roles \in SlotTable /\ locked \subseteq Slots
             /\ master \in Players \cup {AI}
             /\ info \in [Players -> InfoType]
             /\ toServer \in [Players -> Seq(Requests)]
             /\ Once(roles)
BY DEF IInv, TypeOK, Typed, RoleOnce, Once, SlotTable, InfoType

(* What is in the middle of most steps: slots, and who may order, stay.    *)
LEMMA Stays ==
    ASSUME IInv, UNCHANGED <<roles, locked, master>>,
           state' \in ServerPhases,
           {restart, reassign, named, loadIsland, report}' \subseteq BOOLEAN,
           mission' \in 0 .. MaxMissions,
           info' \in [Players -> InfoType],
           toServer' \in [Players -> Seq(Requests)]
    PROVE  IInv'
BY DEF IInv, TypeOK, Typed, RoleOnce, InfoType

(* What a client sends.                                                    *)
LEMMA AnswerTyped ==
    ASSUME Typed, NEW p \in Players, NEW m \in Seq(Requests), Answer(p, m)
    PROVE  toServer' \in [Players -> Seq(Requests)]
BY DEF Typed, Answer

(* What the server takes.                                                  *)
LEMMA HeardTyped ==
    ASSUME Typed, NEW p \in Players, NEW t, Heard(p, t)
    PROVE  /\ toServer' \in [Players -> Seq(Requests)]
           /\ Head(toServer[p]) \in Requests
           /\ Head(toServer[p]).type = t
BY DEF Typed, Heard

LEMMA RequestTyped ==
    ASSUME NEW m \in Requests
    PROVE  /\ m.type = "ask" => m.valid \in BOOLEAN
           /\ m.type = "ready" => m.state \in Phases
           /\ m.type = "claim" => m.slot \in Slots /\ m.player \in Players \cup {AI}
<1>1. CASE m \in [type : {"ready"}, state : Phases]
  BY <1>1
<1>2. CASE m \in [type : {"ask"}, valid : BOOLEAN]
  BY <1>2
<1>3. CASE m \in [type : {"claim"}, slot : Slots, player : Players \cup {AI}]
  BY <1>3
<1>4. CASE m.type \in {"login", "order"}
  BY <1>4
<1> QED
  BY <1>1, <1>2, <1>3, <1>4 DEF Requests

LEMMA FromAClient ==
    ASSUME IInv, NEW p \in Players, NEW m \in Seq(Requests), Answer(p, m),
           UNCHANGED serverVars, UNCHANGED info
    PROVE  IInv'
BY AnswerTyped, Stays, Unfolded DEF IInv, serverVars, TypeOK

(***************************************************************************)
(* Players come and go.                                                    *)
(***************************************************************************)
LEMMA JoinStep ==
    ASSUME IInv, NEW p \in Players, Join(p)
    PROVE  IInv'
<1>1. info' \in [Players -> InfoType]
  <2> DEFINE late == state >= Transfer
  <2>1. info' = [info EXCEPT ![p] = [Absent EXCEPT !.state = Create, !.jip = late]]
    BY Zenon DEF Join
  <2>2. late \in BOOLEAN
    OBVIOUS
  <2> HIDE DEF late
  <2>3. [Absent EXCEPT !.state = Create, !.jip = late] \in InfoType
    BY <2>2 DEF Absent, InfoType
  <2> QED
    BY <2>1, <2>3, Unfolded
<1>2. toServer' \in [Players -> Seq(Requests)]
  BY Unfolded DEF Join
<1> QED
  BY <1>1, <1>2, Stays, Unfolded DEF Join, serverVars

LEMMA LeaveStep ==
    ASSUME IInv, NEW p \in Players, Leave(p)
    PROVE  IInv'
<1>1. info' \in [Players -> InfoType]
  <2>1. Absent \in InfoType
    BY DEF Absent, InfoType
  <2> QED
    BY <2>1, Unfolded DEF Leave
<1>2. toServer' \in [Players -> Seq(Requests)]
  BY Unfolded DEF Leave
<1>3. master' \in Players \cup {AI}
  BY Unfolded DEF Leave
<1>4. roles' \in SlotTable /\ locked' \subseteq Slots /\ Once(roles)'
  <2>1. CASE Holds(roles, p)
    <3>1. PICK r \in Slots : roles' = [roles EXCEPT ![r] = AI] /\ locked' = locked \ {r}
      BY <2>1, SlotFound, Unfolded DEF Leave
    <3> QED
      BY <3>1, Unfolded DEF SlotTable, Once
  <2>2. CASE ~Holds(roles, p)
    BY <2>2, Unfolded DEF Leave, Once
  <2> QED
    BY <2>1, <2>2
<1> QED
  BY <1>1, <1>2, <1>3, <1>4, Unfolded DEF Leave, IInv, TypeOK, Typed, RoleOnce, Once, SlotTable, InfoType

(***************************************************************************)
(* The server handles a message.                                           *)
(***************************************************************************)
LEMMA OnLoginStep ==
    ASSUME IInv, NEW p \in Players, OnLogin(p)
    PROVE  IInv'
<1>1. info' \in [Players -> InfoType]
  <2>1. PICK playing \in BOOLEAN, lobby \in BOOLEAN :
            info' = [info EXCEPT ![p] = Identified(info[p], playing, lobby)]
    BY Unfolded DEF OnLogin, InfoType
  <2> QED
    BY <2>1, IdentifiedTyped, Unfolded
<1>2. toServer' \in [Players -> Seq(Requests)]
  BY HeardTyped DEF OnLogin, IInv
<1> QED
  BY <1>1, <1>2, Stays, Unfolded DEF OnLogin, serverVars

LEMMA OnAskMissionFileStep ==
    ASSUME IInv, NEW p \in Players, OnAskMissionFile(p)
    PROVE  IInv'
<1>1. info' \in [Players -> InfoType]
  <2>1. info' = [info EXCEPT ![p] = [info[p] EXCEPT !.valid = info[p].valid \/ Head(toServer[p]).valid]]
    BY Zenon DEF OnAskMissionFile
  <2>2. info[p] \in InfoType /\ Head(toServer[p]).valid \in BOOLEAN /\ info[p].valid \in BOOLEAN
    BY HeardTyped, RequestTyped, Unfolded DEF OnAskMissionFile, IInv, InfoType
  <2>3. (info[p].valid \/ Head(toServer[p]).valid) \in BOOLEAN
    BY <2>2
  <2>4. [info[p] EXCEPT !.valid = info[p].valid \/ Head(toServer[p]).valid] \in InfoType
    BY <2>2, <2>3, WithValid, Zenon
  <2> QED
    BY <2>1, <2>4, Unfolded
<1>2. toServer' \in [Players -> Seq(Requests)]
  BY HeardTyped DEF OnAskMissionFile, IInv
<1> QED
  BY <1>1, <1>2, Stays, Unfolded DEF OnAskMissionFile, serverVars

LEMMA OnReadyStep ==
    ASSUME IInv, NEW p \in Players, OnReady(p)
    PROVE  IInv'
<1>1. Head(toServer[p]).state \in Phases
  BY HeardTyped, RequestTyped DEF OnReady, IInv
<1>2. info' \in [Players -> InfoType]
  BY <1>1, WithState, Unfolded DEF OnReady
<1>3. toServer' \in [Players -> Seq(Requests)]
  BY HeardTyped DEF OnReady, IInv
<1> QED
  BY <1>2, <1>3, Stays, Unfolded DEF OnReady, serverVars

LEMMA OnReadyBriefingStep ==
    ASSUME IInv, NEW p \in Players, OnReadyBriefing(p)
    PROVE  IInv'
<1>1. info' \in [Players -> InfoType]
  <2> DEFINE person == PersonOf(roles, info[p], p)
  <2>1. person \in {0} \cup Slots
    BY PersonTyped, Unfolded
  <2>2. \/ \E s \in {Play, Briefing} :
              info' = [info EXCEPT ![p] = [info[p] EXCEPT !.person = person, !.state = s]]
        \/ info' = [info EXCEPT ![p] = [info[p] EXCEPT !.state = Briefing]]
    BY Unfolded DEF OnReadyBriefing
  <2>3. \A s \in {Play, Briefing} : [info[p] EXCEPT !.person = person, !.state = s] \in InfoType
    <3> HIDE DEF person
    <3>1. info[p] \in InfoType
      BY Unfolded
    <3>2. ASSUME NEW x \in InfoType, NEW r \in {0} \cup Slots, NEW s \in Phases
          PROVE  [x EXCEPT !.person = r, !.state = s] \in InfoType
      BY DEF InfoType
    <3>3. {Play, Briefing} \subseteq Phases
      OBVIOUS
    <3> QED
      BY <2>1, <3>1, <3>2, <3>3, Zenon
  <2>4. [info[p] EXCEPT !.state = Briefing] \in InfoType
    BY WithState, Unfolded
  <2> HIDE DEF person
  <2> QED
    BY <2>2, <2>3, <2>4, Unfolded
<1>2. toServer' \in [Players -> Seq(Requests)]
  BY HeardTyped DEF OnReadyBriefing, IInv
<1> QED
  BY <1>1, <1>2, Stays, Unfolded DEF OnReadyBriefing, serverVars

LEMMA OnReadyBotStep ==
    ASSUME IInv, OnReadyBot
    PROVE  IInv'
<1> DEFINE i == [p \in Players |-> IF p \in Present
                                   THEN [info[p] EXCEPT !.person = PersonOf(roles, info[p], p)]
                                   ELSE info[p]]
<1>1. i \in [Players -> InfoType]
  BY WithPerson, PersonTyped, Unfolded
<1>2. PICK q : SetGameState(Briefing, roles, i, q)
  BY DEF OnReadyBot
<1> HIDE DEF i
<1>3. state' = Briefing /\ info' \in [Players -> InfoType]
  BY <1>1, <1>2, SetGameStateTyped
<1> QED
  BY <1>3, Stays, Unfolded DEF OnReadyBot

(* A slot is taken: what else the player held he gives up.                 *)
LEMMA OnClaimSlots ==
    ASSUME IInv, NEW r \in Slots, NEW w \in Players \cup {AI},
           roles' = [s \in Slots |-> IF s = r THEN w ELSE IF s \in GivenUp(r, w) THEN AI ELSE roles[s]]
    PROVE  /\ roles' \in SlotTable /\ Once(roles')
           /\ \A s \in GivenUp(r, w) : s = SlotOf(roles, w) /\ roles[s] = w
<1>1. roles \in SlotTable /\ Once(roles)
  BY Unfolded
<1>2. roles' \in SlotTable
  BY <1>1 DEF SlotTable
<1>3. \A s \in GivenUp(r, w) : s = SlotOf(roles, w) /\ roles[s] = w
  BY <1>1, SlotFound DEF GivenUp
<1>4. ASSUME NEW s \in Slots, s # r, roles'[s] = w, w # AI
      PROVE  FALSE
  <2>1. roles[s] = w /\ s \notin GivenUp(r, w)
    BY <1>4
  <2>2. Holds(roles, w)
    BY <1>1, <2>1 DEF Holds, SlotTable
  <2>3. SlotOf(roles, w) = s
    BY <1>1, <1>4, <2>1, <2>2, SlotFound DEF Once
  <2> QED
    BY <1>4, <2>1, <2>2, <2>3 DEF GivenUp
<1>5. Once(roles')
  BY <1>1, <1>4 DEF Once
<1> QED
  BY <1>2, <1>3, <1>5

(* The cases of a request for a slot, without its definitions.             *)
LEMMA OnClaimCases ==
    ASSUME IInv, NEW p \in Players, OnClaim(p)
    PROVE  \E r \in Slots, w \in Players \cup {AI} :
              \/ UNCHANGED <<roles, locked, info>>
              \/ /\ Granted(p, r, w)
                 /\ roles' = [s \in Slots |-> IF s = r THEN w
                                              ELSE IF s \in GivenUp(r, w) THEN AI ELSE roles[s]]
                 /\ locked' \subseteq locked \cup {r}
                 /\ info' \in {info, [info EXCEPT ![p] = CaughtUp(p, roles')]}
<1> DEFINE r == Head(toServer[p]).slot
           w == Head(toServer[p]).player
<1>1. r \in Slots /\ w \in Players \cup {AI}
  BY HeardTyped, RequestTyped DEF OnClaim, IInv
<1>2. CASE Open(info[p]) /\ Granted(p, r, w)
  <2>1. /\ roles' = [s \in Slots |-> IF s = r THEN w
                                     ELSE IF s \in GivenUp(r, w) THEN AI ELSE roles[s]]
        /\ locked' = (locked \ (GivenUp(r, w) \cup {r}))
                       \cup (IF p = master /\ w \notin {AI, p} THEN {r} ELSE {})
        /\ info' \in {info, [info EXCEPT ![p] = CaughtUp(p, roles')]}
    BY <1>2 DEF OnClaim
  <2> QED
    BY <1>1, <1>2, <2>1
<1>3. CASE ~(Open(info[p]) /\ Granted(p, r, w))
  BY <1>1, <1>3 DEF OnClaim
<1> QED
  BY <1>2, <1>3

LEMMA CaughtUpTyped ==
    ASSUME IInv, NEW p \in Players, NEW rs \in SlotTable, Once(rs)
    PROVE  CaughtUp(p, rs) \in InfoType
<1> DEFINE s == IF state >= LoadIsland THEN state ELSE Largest(info[p].state, Transfer)
           n == IF state = Briefing THEN PersonOf(rs, info[p], p) ELSE info[p].person
<1>1. s \in Phases
  BY Unfolded DEF Largest, InfoType
<1>2. n \in {0} \cup Slots
  BY PersonTyped, Unfolded DEF InfoType
<1>3. CaughtUp(p, rs) = [info[p] EXCEPT !.state = s, !.person = n]
  BY DEF CaughtUp
<1>4. info[p] \in InfoType
  BY Unfolded
<1> HIDE DEF s, n
<1>5. [info[p] EXCEPT !.state = s, !.person = n] \in InfoType
  BY <1>1, <1>2, <1>4, WithStatePerson
<1> QED
  BY <1>3, <1>5

LEMMA OnClaimStep ==
    ASSUME IInv, NEW p \in Players, OnClaim(p)
    PROVE  IInv'
<1>1. UNCHANGED <<state, restart, reassign, named, loadIsland, report, mission, master>>
  BY DEF OnClaim
<1>2. toServer' \in [Players -> Seq(Requests)]
  BY HeardTyped DEF OnClaim, IInv
<1>3. PICK r \in Slots, w \in Players \cup {AI} :
              \/ UNCHANGED <<roles, locked, info>>
              \/ /\ Granted(p, r, w)
                 /\ roles' = [s \in Slots |-> IF s = r THEN w
                                              ELSE IF s \in GivenUp(r, w) THEN AI ELSE roles[s]]
                 /\ locked' \subseteq locked \cup {r}
                 /\ info' \in {info, [info EXCEPT ![p] = CaughtUp(p, roles')]}
  BY OnClaimCases
<1>4. CASE UNCHANGED <<roles, locked, info>>
  BY <1>1, <1>2, <1>4, Stays, Unfolded
<1>5. CASE ~UNCHANGED <<roles, locked, info>>
  <2>1. roles' \in SlotTable /\ Once(roles')
    BY <1>3, <1>5, OnClaimSlots
  <2>2. locked' \subseteq Slots
    BY <1>3, <1>5, Unfolded
  <2>3. info' \in [Players -> InfoType]
    BY <1>3, <1>5, <2>1, CaughtUpTyped, Unfolded
  <2> QED
    BY <1>1, <1>2, <2>1, <2>2, <2>3, Unfolded DEF IInv, TypeOK, Typed, RoleOnce, Once, SlotTable, InfoType
<1> QED
  BY <1>4, <1>5

(***************************************************************************)
(* An admin's commands, and the phases.                                    *)
(***************************************************************************)
LEMMA BackToLobbyFacts ==
    ASSUME IInv, NEW q, BackToLobby(q)
    PROVE  /\ roles' = Unassigned /\ roles' \in SlotTable /\ Once(roles') /\ locked' = {}
           /\ state' = PrepareSide /\ info' \in [Players -> InfoType]
           /\ restart' = FALSE /\ reassign' = FALSE
<1>1. Lobby(Destroyed(info)) \in [Players -> InfoType]
  BY LobbyTyped, DestroyedTyped, Unfolded
<1>2. PICK m : SetGameState(PrepareSide, Unassigned, Lobby(Destroyed(info)), m)
  BY DEF BackToLobby
<1>3. state' = PrepareSide /\ info' \in [Players -> InfoType]
  BY <1>1, <1>2, SetGameStateTyped
<1> QED
  BY <1>3, UnassignedOnce DEF BackToLobby

LEMMA OnOrderCases ==
    ASSUME IInv, NEW p \in Players, OnOrder(p)
    PROVE  /\ master' \in {master, p}
           /\ \/ UNCHANGED <<state, roles, locked, info>>
              \/ SetGameState(Create, roles, Destroyed(info), toClient) /\ UNCHANGED <<roles, locked>>
              \/ BackToLobby(toClient)
           /\ {restart, reassign, named}' \subseteq BOOLEAN
<1> DEFINE what == Head(toServer[p]).what
<1>0. {restart, reassign, named} \subseteq BOOLEAN
  BY Unfolded
<1>1. CASE what = "login"
  BY <1>0, <1>1 DEF OnOrder
<1>2. CASE what # "login" /\ p = master /\ what = "mission"
  BY <1>0, <1>2 DEF OnOrder
<1>3. CASE what # "login" /\ p = master /\ what = "restart"
  <2>1. restart' = (restart \/ state = Play)
    BY <1>3 DEF OnOrder
  <2>2. restart' \in BOOLEAN
    BY <2>1
  <2> QED
    BY <1>0, <1>3, <2>2 DEF OnOrder
<1>4. CASE what # "login" /\ p = master /\ what = "reassign"
  <2>1. CASE state = Play
    BY <1>0, <1>4, <2>1 DEF OnOrder
  <2>2. CASE state # Play
    <3>1. BackToLobby(toClient) /\ UNCHANGED <<named, master>>
      BY <1>4, <2>2 DEF OnOrder
    <3> QED
      BY <1>0, <3>1 DEF BackToLobby
  <2> QED
    BY <2>1, <2>2
<1>5. CASE what # "login" /\ ~(p = master /\ what \in {"mission", "restart", "reassign"})
  BY <1>0, <1>5 DEF OnOrder
<1> QED
  BY <1>1, <1>2, <1>3, <1>4, <1>5

LEMMA OnOrderStep ==
    ASSUME IInv, NEW p \in Players, OnOrder(p)
    PROVE  IInv'
<1>1. UNCHANGED <<loadIsland, report, mission>>
  BY DEF OnOrder
<1>2. toServer' \in [Players -> Seq(Requests)]
  BY HeardTyped DEF OnOrder, IInv
<1>3. /\ roles' \in SlotTable /\ Once(roles') /\ locked' \subseteq Slots
      /\ state' \in ServerPhases /\ info' \in [Players -> InfoType]
  <2>1. CASE UNCHANGED <<state, roles, locked, info>>
    BY <2>1, Unfolded
  <2>2. CASE SetGameState(Create, roles, Destroyed(info), toClient) /\ UNCHANGED <<roles, locked>>
    <3>1. Destroyed(info) \in [Players -> InfoType]
      BY DestroyedTyped, Unfolded
    <3>2. state' = Create /\ info' \in [Players -> InfoType]
      BY <2>2, <3>1, SetGameStateTyped
    <3> QED
      BY <2>2, <3>2, Unfolded
  <2>3. CASE BackToLobby(toClient)
    BY <2>3, BackToLobbyFacts
  <2> QED
    BY <2>1, <2>2, <2>3, OnOrderCases
<1>4. master' \in Players \cup {AI} /\ {restart, reassign, named}' \subseteq BOOLEAN
  BY OnOrderCases, Unfolded
<1> QED
  BY <1>1, <1>2, <1>3, <1>4, Unfolded DEF IInv, TypeOK, Typed, RoleOnce, Once, SlotTable, InfoType

LEMMA ChooseMissionStep ==
    ASSUME IInv, ChooseMission
    PROVE  IInv'
<1> DEFINE i == [p \in Players |-> [Lobby(info)[p] EXCEPT !.valid = FALSE]]
<1>1. i \in [Players -> InfoType]
  BY LobbyTyped, WithValid, Unfolded
<1>2. PICK q : SetGameState(PrepareSide, Unassigned, i, q)
  BY DEF ChooseMission
<1> HIDE DEF i
<1>3. state' = PrepareSide /\ info' \in [Players -> InfoType]
  BY <1>1, <1>2, SetGameStateTyped
<1>4. roles' \in SlotTable /\ Once(roles') /\ locked' = {}
  BY UnassignedOnce DEF ChooseMission
<1>5. {restart, reassign, named}' \subseteq BOOLEAN
  <2>1. restart' = (restart /\ ~named) /\ reassign' = (reassign /\ ~named) /\ named' = FALSE
    BY DEF ChooseMission
  <2>2. restart' \in BOOLEAN /\ reassign' \in BOOLEAN
    BY <2>1
  <2> QED
    BY <2>1, <2>2
<1>6. mission' \in 0 .. MaxMissions
  BY BoundsAssumption, Unfolded DEF ChooseMission
<1>7. UNCHANGED <<loadIsland, report, master, toServer>>
  BY DEF ChooseMission
<1> QED
  BY <1>3, <1>4, <1>5, <1>6, <1>7, Unfolded
     DEF IInv, TypeOK, Typed, RoleOnce, Once, SlotTable, InfoType

LEMMA LaunchStep ==
    ASSUME IInv, Launch
    PROVE  IInv'
<1>1. info' \in [Players -> InfoType]
  BY FollowTyped, Unfolded DEF Launch
<1> QED
  BY <1>1, Stays, Unfolded DEF Launch

(* The other cases change the phase and nothing of slots and orders.       *)
LEMMA PhaseStep ==
    ASSUME IInv, NEW s \in ServerPhases, NEW i \in {info, Destroyed(info)}, NEW q,
           SetGameState(s, roles, i, q),
           UNCHANGED <<restart, reassign, named, mission, roles, locked, master, toServer>>,
           loadIsland' \in BOOLEAN, report' \in BOOLEAN
    PROVE  IInv'
<1>1. i \in [Players -> InfoType]
  BY DestroyedTyped, Unfolded
<1>2. state' = s /\ info' \in [Players -> InfoType]
  BY <1>1, SetGameStateTyped
<1> QED
  BY <1>2, Stays, Unfolded

LEMMA LoadStep ==
    ASSUME IInv, Load
    PROVE  IInv'
<1>1. loadIsland' \in BOOLEAN /\ report' \in BOOLEAN
  BY DEF Load
<1>2. CASE UNCHANGED <<state, info, toClient>>
  BY <1>1, <1>2, Stays, Unfolded DEF Load
<1>3. CASE SetGameState(Create, roles, info, toClient)
  BY <1>1, <1>3, PhaseStep DEF Load
<1> QED
  BY <1>2, <1>3 DEF Load

LEMMA LeaveDebriefingStep ==
    ASSUME IInv, LeaveDebriefing
    PROVE  IInv'
<1>1. UNCHANGED <<named, report, mission, master, toServer>>
  BY DEF LeaveDebriefing
<1>2. CASE BackToLobby(toClient) /\ UNCHANGED loadIsland
  BY <1>1, <1>2, BackToLobbyFacts, Unfolded DEF IInv, TypeOK, Typed, RoleOnce, Once, SlotTable, InfoType
<1>3. ASSUME NEW s \in {PrepareRole, Create}, SetGameState(s, roles, info, toClient),
             loadIsland' \in BOOLEAN, UNCHANGED <<restart, reassign, roles, locked>>
      PROVE  IInv'
  BY <1>1, <1>3, PhaseStep, Unfolded
<1> QED
  BY <1>2, <1>3, Unfolded DEF LeaveDebriefing

LEMMA SimulateStep ==
    ASSUME IInv, SimulateDS
    PROVE  IInv'
<1>1. CASE NobodyLeft
  BY <1>1, Stays, Unfolded DEF NobodyLeft
<1>2. CASE TransferDone
  BY <1>2, PhaseStep, Unfolded DEF TransferDone
<1>3. CASE StartPlay
  BY <1>3, PhaseStep, Unfolded DEF StartPlay
<1>4. CASE EndPlay
  BY <1>4, PhaseStep, Unfolded DEF EndPlay
<1>5. CASE MissNamed
  BY <1>5, Stays, Unfolded DEF MissNamed
<1> QED
  BY <1>1, <1>2, <1>3, <1>4, <1>5, ChooseMissionStep, LaunchStep, LoadStep, LeaveDebriefingStep DEF SimulateDS

(***************************************************************************)
(* A client's messages and displays.                                       *)
(***************************************************************************)
LEMMA Unanswered ==
    ASSUME IInv, UNCHANGED serverVars, UNCHANGED info, UNCHANGED toServer
    PROVE  IInv'
BY Stays, Unfolded DEF serverVars

LEMMA Sendable ==
    /\ Login \in Requests
    /\ \A v \in BOOLEAN : Ask(v) \in Requests
    /\ \A s \in Phases : Ready(s) \in Requests
    /\ \A r \in Slots, w \in Players \cup {AI} : Claim(r, w) \in Requests
    /\ \A what \in Orders \cup {"login"} : Order(what) \in Requests
<1>1. \A s \in Phases : Ready(s) \in [type : {"ready"}, state : Phases]
  BY DEF Ready
<1>2. \A v \in BOOLEAN : Ask(v) \in [type : {"ask"}, valid : BOOLEAN]
  BY DEF Ask
<1>3. \A r \in Slots, w \in Players \cup {AI} :
          Claim(r, w) \in [type : {"claim"}, slot : Slots, player : Players \cup {AI}]
  BY DEF Claim
<1>4. \A what \in Orders \cup {"login"} :
          Order(what) \in [type : {"order"}, what : Orders \cup {"login"}]
  BY DEF Order
<1>5. Login \in [type : {"login"}]
  BY DEF Login
<1>6. /\ [type : {"login"}] \subseteq Requests
      /\ [type : {"ask"}, valid : BOOLEAN] \subseteq Requests
      /\ [type : {"ready"}, state : Phases] \subseteq Requests
      /\ [type : {"claim"}, slot : Slots, player : Players \cup {AI}] \subseteq Requests
      /\ [type : {"order"}, what : Orders \cup {"login"}] \subseteq Requests
  BY Zenon DEF Requests
<1>7. \A v \in BOOLEAN : Ask(v) \in Requests
  BY <1>2, <1>6, Zenon
<1>8. \A s \in Phases : Ready(s) \in Requests
  BY <1>1, <1>6, Zenon
<1>9. \A r \in Slots, w \in Players \cup {AI} : Claim(r, w) \in Requests
  BY <1>3, <1>6, Zenon
<1>10. \A what \in Orders \cup {"login"} : Order(what) \in Requests
  BY <1>4, <1>6, Zenon
<1> QED
  BY <1>5, <1>6, <1>7, <1>8, <1>9, <1>10, Zenon

LEMMA ReceiveHeaderStep ==
    ASSUME IInv, NEW p \in Players, ReceiveHeader(p)
    PROVE  IInv'
<1> DEFINE valid == Head(toClient[p]).mission \in files[p]
<1>1. Answer(p, <<Ask(valid)>>) /\ UNCHANGED serverVars /\ UNCHANGED info
  BY DEF ReceiveHeader
<1>2. valid \in BOOLEAN
  OBVIOUS
<1> HIDE DEF valid
<1>3. <<Ask(valid)>> \in Seq(Requests)
  BY <1>2, Sendable
<1> QED
  BY <1>1, <1>3, FromAClient

LEMMA ReceiveFileStep ==
    ASSUME IInv, NEW p \in Players, ReceiveFile(p)
    PROVE  IInv'
<1>1. UNCHANGED serverVars /\ UNCHANGED info
  BY DEF ReceiveFile
<1>2. \/ Answer(p, <<Ask(TRUE)>> \o <<Ready(Briefing)>>)
      \/ Answer(p, <<Ask(TRUE)>> \o <<>>)
  BY DEF ReceiveFile, When
<1>3. Ask(TRUE) \in Requests /\ Ready(Briefing) \in Requests
  BY Sendable
<1>4. \A a, b \in Requests : <<a>> \o <<b>> \in Seq(Requests) /\ <<a>> \o <<>> \in Seq(Requests)
  OBVIOUS
<1> QED
  BY <1>1, <1>2, <1>3, <1>4, FromAClient

LEMMA ClientMessageStep ==
    ASSUME IInv, NEW p \in Players, ClientMessage(p)
    PROVE  IInv'
<1>1. CASE ReceiveState(p) \/ ReceiveRole(p) \/ ReceiveOther(p)
  BY <1>1, Unanswered DEF ReceiveState, ReceiveRole, ReceiveOther
<1>2. CASE ReceivePlayer(p)
  <2>1. <<Login>> \in Seq(Requests)
    BY Sendable
  <2> QED
    BY <1>2, <2>1, FromAClient DEF ReceivePlayer
<1> QED
  BY <1>1, <1>2, ReceiveHeaderStep, ReceiveFileStep DEF ClientMessage

LEMMA ReportTyped == \A s \in Phases : <<Ready(s)>> \in Seq(Requests)
BY Sendable

LEMMA DisplaysStep ==
    ASSUME IInv, NEW p \in Players, Displays(p) \/ LeaveMission(p)
    PROVE  IInv'
<1>1. UNCHANGED serverVars /\ UNCHANGED info
  BY DEF Displays, EnterSetup, LeaveSetup, LeaveGetReady, LeaveDebriefingDisplay, LeaveWait, LeaveMission, Frame
<1>2. UNCHANGED toServer \/ \E s \in {Briefing, Play, Debriefing} : Answer(p, <<Ready(s)>>)
  BY DEF Displays, EnterSetup, LeaveSetup, LeaveGetReady, LeaveDebriefingDisplay, LeaveWait, LeaveMission
<1>3. CASE UNCHANGED toServer
  BY <1>1, <1>3, Unanswered
<1>4. ASSUME NEW s \in {Briefing, Play, Debriefing}, Answer(p, <<Ready(s)>>)
      PROVE  IInv'
  BY <1>1, <1>4, ReportTyped, FromAClient
<1> QED
  BY <1>2, <1>3, <1>4

LEMMA ButtonsStep ==
    ASSUME IInv, NEW p \in Players, Buttons(p)
    PROVE  IInv'
<1>1. ASSUME NEW r \in Slots, ClickSlot(p, r)
      PROVE  IInv'
  <2>1. UNCHANGED serverVars /\ UNCHANGED info
    BY <1>1 DEF ClickSlot, Frame
  <2>2. \/ Answer(p, <<Ready(PrepareSide), Claim(r, AI)>>)
        \/ Answer(p, <<Claim(r, p)>>)
    BY <1>1 DEF ClickSlot
  <2>3. Ready(PrepareSide) \in Requests /\ Claim(r, AI) \in Requests /\ Claim(r, p) \in Requests
    BY Sendable
  <2>4. <<Ready(PrepareSide), Claim(r, AI)>> \in Seq(Requests) /\ <<Claim(r, p)>> \in Seq(Requests)
    BY <2>3
  <2> QED
    BY <2>1, <2>2, <2>4, FromAClient
<1>2. ASSUME NEW r \in Slots, NEW w \in Players, DragPlayer(p, r, w)
      PROVE  IInv'
  <2>1. Claim(r, w) \in Requests
    BY Sendable
  <2>2. <<Claim(r, w)>> \in Seq(Requests)
    BY <2>1
  <2> QED
    BY <1>2, <2>2, FromAClient DEF DragPlayer
<1>3. CASE PressOK(p) \/ PressLaunch(p) \/ PressContinue(p) \/ PressAgain(p)
  <2>1. UNCHANGED serverVars /\ UNCHANGED info
    BY <1>3 DEF PressOK, PressLaunch, PressContinue, PressAgain, Frame
  <2>2. PICK s \in {PrepareOK, Play, DebriefingOK} : Answer(p, <<Ready(s)>>)
    BY <1>3 DEF PressOK, PressLaunch, PressContinue, PressAgain
  <2> QED
    BY <2>1, <2>2, ReportTyped, FromAClient
<1> QED
  BY <1>1, <1>2, <1>3 DEF Buttons

LEMMA GiveOrderStep ==
    ASSUME IInv, NEW p \in Players, NEW what \in Orders \cup {"login"}, GiveOrder(p, what)
    PROVE  IInv'
<1>1. Order(what) \in Requests
  BY Sendable
<1>2. <<Order(what)>> \in Seq(Requests)
  BY <1>1
<1> QED
  BY <1>2, FromAClient DEF GiveOrder

(***************************************************************************)
(* The invariant holds.                                                    *)
(***************************************************************************)
LEMMA Initially == Init => IInv
<1> SUFFICES ASSUME Init PROVE IInv
  OBVIOUS
<1>1. info \in [Players -> InfoType]
  BY DEF Init, Absent, InfoType
<1>2. mission \in 0 .. MaxMissions
  BY BoundsAssumption DEF Init
<1>3. toServer \in [Players -> Seq(Requests)]
  BY DEF Init
<1> QED
  BY <1>1, <1>2, <1>3, Unfolded, UnassignedOnce DEF Init

LEMMA Inductive == IInv /\ [Next]_vars => IInv'
<1> SUFFICES ASSUME IInv, [Next]_vars PROVE IInv'
  OBVIOUS
<1>1. CASE UNCHANGED vars
  BY <1>1, Unanswered DEF vars
<1>2. CASE OnReadyBot \/ SimulateDS
  BY <1>2, OnReadyBotStep, SimulateStep
<1>3. ASSUME NEW p \in Players, ServerMessage(p)
      PROVE  IInv'
  BY <1>3, OnLoginStep, OnAskMissionFileStep, OnReadyStep, OnReadyBriefingStep, OnClaimStep, OnOrderStep
     DEF ServerMessage
<1> QED
  BY <1>1, <1>2, <1>3, JoinStep, LeaveStep, ClientMessageStep, DisplaysStep, ButtonsStep, GiveOrderStep DEF Next

LEMMA Invariant == Spec => []IInv
BY Initially, Inductive, PTL DEF Spec

(* The server's variables keep their types, whatever its clients send and
   whenever they come and go.                                                *)
THEOREM TypeCorrect == Spec => []TypeOK
BY Invariant, PTL DEF IInv

(* No player ever holds two slots: OnMessagePlayerRole gives the old one up,
   and a departed player's slot is freed.                                    *)
THEOREM OneSlotEach == Spec => []RoleOnce
BY Invariant, PTL DEF IInv

(***************************************************************************)
(* Whoever loses his slot has asked for it, or left, or the admin took it, *)
(* or all slots are handed out anew.                                       *)
(***************************************************************************)
Defended ==
    \A r \in Slots :
        roles[r] # AI /\ roles'[r] # roles[r] =>
            \/ info'[roles[r]].state = None
            \/ mission' # mission
            \/ state' = PrepareSide /\ roles' = Unassigned
            \/ Asked(r)

LEMMA ClaimDefended ==
    ASSUME IInv, NEW p \in Players, OnClaim(p), NEW r \in Slots, roles[r] # AI, roles'[r] # roles[r]
    PROVE  Asked(r)
<1>1. /\ toServer[p] # <<>> /\ Head(toServer[p]).type = "claim"
      /\ toServer'[p] = Tail(toServer[p])
  BY Unfolded DEF OnClaim, Heard
<1>2. PICK t \in Slots, w \in Players \cup {AI} :
         /\ Granted(p, t, w)
         /\ roles' = [s \in Slots |-> IF s = t THEN w ELSE IF s \in GivenUp(t, w) THEN AI ELSE roles[s]]
  BY OnClaimCases
<1>3. CASE p = master
  BY <1>1, <1>3, PlayersAssumption DEF Asked
<1>4. ASSUME p # master
      PROVE  roles[r] = p /\ r \notin locked
  <2>1. RoleSwapAllowed(roles[t], w, p) /\ t \notin locked
    BY <1>2, <1>4 DEF Granted
  <2>2. CASE r = t
    BY <2>1, <2>2 DEF RoleSwapAllowed
  <2>3. CASE r # t
    <3>1. r \in GivenUp(t, w)
      BY <1>2, <2>3
    <3>2. r = SlotOf(roles, w) /\ roles[r] = w
      BY <1>2, <3>1, OnClaimSlots
    <3>3. w # AI /\ Holds(roles, w)
      BY <3>1 DEF GivenUp
    <3>4. r \notin locked
      BY <1>2, <1>4, <3>2, <3>3 DEF Granted
    <3> QED
      BY <2>1, <3>2, <3>3, <3>4 DEF RoleSwapAllowed
  <2> QED
    BY <2>2, <2>3
<1> QED
  BY <1>1, <1>3, <1>4, PlayersAssumption DEF Asked

LEMMA StepDefended == IInv /\ [Next]_vars => Defended
<1> SUFFICES ASSUME IInv, [Next]_vars PROVE Defended
  OBVIOUS
<1>1. CASE UNCHANGED roles
  BY <1>1 DEF Defended
<1>2. ASSUME NEW p \in Players, Leave(p)
      PROVE  Defended
  <2>1. info'[p].state = None
    BY <1>2, Unfolded DEF Leave, Absent
  <2>2. \A r \in Slots : roles'[r] # roles[r] => roles[r] = p
    <3>1. CASE Holds(roles, p)
      <4>1. roles' = [roles EXCEPT ![SlotOf(roles, p)] = AI]
        BY <1>2, <3>1 DEF Leave
      <4>2. roles[SlotOf(roles, p)] = p
        BY <3>1, SlotFound, Unfolded
      <4> QED
        BY <4>1, <4>2, Unfolded DEF SlotTable
    <3>2. CASE ~Holds(roles, p)
      BY <1>2, <3>2 DEF Leave
    <3> QED
      BY <3>1, <3>2
  <2> QED
    BY <2>1, <2>2 DEF Defended
<1>3. ASSUME NEW p \in Players, OnClaim(p)
      PROVE  Defended
  BY <1>3, ClaimDefended DEF Defended
<1>4. ASSUME NEW p \in Players, OnOrder(p), ~UNCHANGED roles
      PROVE  Defended
  BY <1>4, OnOrderCases, BackToLobbyFacts DEF Defended
<1>5. CASE ChooseMission
  <2>1. mission \in Nat /\ mission' = mission + 1
    BY <1>5, BoundsAssumption, Unfolded DEF ChooseMission
  <2> QED
    BY <2>1 DEF Defended
<1>6. CASE LeaveDebriefing
  <2>1. UNCHANGED roles \/ BackToLobby(toClient)
    BY <1>6 DEF LeaveDebriefing
  <2> QED
    BY <1>1, <2>1, BackToLobbyFacts DEF Defended
<1>7. CASE NobodyLeft \/ MissNamed \/ Launch \/ TransferDone \/ Load \/ StartPlay \/ EndPlay \/ OnReadyBot
  BY <1>1, <1>7 DEF NobodyLeft, MissNamed, Launch, TransferDone, Load, StartPlay, EndPlay, OnReadyBot
<1>8. ASSUME NEW p \in Players,
             OnLogin(p) \/ OnAskMissionFile(p) \/ OnReady(p) \/ OnReadyBriefing(p) \/ Join(p)
      PROVE  UNCHANGED roles
  BY <1>8 DEF OnLogin, OnAskMissionFile, OnReady, OnReadyBriefing, Join, serverVars
<1>9. ASSUME NEW p \in Players, ClientMessage(p)
      PROVE  UNCHANGED roles
  BY <1>9 DEF ClientMessage, ReceiveState, ReceiveHeader, ReceiveRole, ReceiveFile, ReceivePlayer,
              ReceiveOther, serverVars
<1>10. ASSUME NEW p \in Players,
              \/ Displays(p) \/ Buttons(p) \/ LeaveMission(p)
              \/ \E what \in Orders \cup {"login"} : GiveOrder(p, what)
      PROVE  UNCHANGED roles
  BY <1>10 DEF Displays, EnterSetup, LeaveSetup, LeaveGetReady, LeaveDebriefingDisplay, LeaveWait,
               LeaveMission, Buttons, ClickSlot, DragPlayer, PressOK, PressLaunch, PressContinue, PressAgain,
               GiveOrder, Frame, serverVars
<1> QED
  BY <1>1, <1>2, <1>3, <1>4, <1>5, <1>6, <1>7, <1>8, <1>9, <1>10
     DEF Next, SimulateDS, ServerMessage, vars, serverVars

(* A slot is lost by the player's own request, the admin's, his departure, or
   because all are handed out anew, and a locked one by the admin's alone:
   whoever else asks for it, and whenever he does.                           *)
THEOREM SlotsDefended == Spec => SlotDefended
<1>1. Spec => [][Defended]_vars
  BY Invariant, StepDefended, PTL DEF Spec
<1> QED
  BY <1>1 DEF SlotDefended, Defended

-----------------------------------------------------------------------------
(* The slots as the clients know them.                                     *)

HIDE DEF Phases, ServerPhases, None, Creating, Create, LoggedIn, PrepareSide, PrepareRole, PrepareOK,
         Debriefing, DebriefingOK, Transfer, LoadIsland, Briefing, Play

(* What the server sends, apart from slots.                                *)
Quiet == [type : {"state"}, to : Phases]
    \cup [type : {"file"}, mission : Nat]
    \cup [type : {"world"}, person : {0} \cup Slots]
    \cup [type : {"time", "player", "identity"}]

(* And the slots.                                                          *)
Tables == [type : {"header"}, mission : Nat, roles : SlotTable]
     \cup [type : {"roles"}, roles : SlotTable]
     \cup [type : {"role"}, slot : Slots, player : Players \cup {AI}]

Messages == Quiet \cup Tables

-----------------------------------------------------------------------------
(* Where a sequence of messages leads a client.                            *)

(* The slots a client knows after the message m, if it knew t before.      *)
Applied(t, m) ==
    IF m.type \in {"header", "roles"} THEN m.roles
    ELSE IF m.type = "role"
         THEN [r \in DOMAIN t \cup {m.slot} |-> IF r = m.slot THEN m.player ELSE t[r]]
         ELSE t

(* Sequences.                                                              *)
LEMMA SeqOn ==
    ASSUME NEW S, NEW m \in Seq(S), NEW n \in Seq(S), NEW r, r = m \o n
    PROVE  r \in Seq(S)
  OBVIOUS

LEMMA PairOf ==
    ASSUME NEW S, NEW a \in S, NEW b \in S, NEW r, r = <<a>> \o <<b>>
    PROVE  r = <<a, b>>
<1>1. r \in Seq(S) /\ Len(r) = 2 /\ r[1] = a /\ r[2] = b
  OBVIOUS
<1>2. r = [k \in 1 .. 2 |-> r[k]]
  BY <1>1
<1>3. PICK p : p = <<a, b>>
  OBVIOUS
<1>4. p = [k \in 1 .. 2 |-> p[k]] /\ p[1] = a /\ p[2] = b
  BY <1>3
<1>5. \A k \in 1 .. 2 : r[k] = p[k]
  <2>1. \A k \in 1 .. 2 : k = 1 \/ k = 2
    OBVIOUS
  <2> QED BY <1>1, <1>4, <2>1, Zenon
<1> QED BY <1>2, <1>3, <1>4, <1>5

(* The messages q lead a client that knows t to u: v lists what it knows after
   each of them.                                                             *)
Leads(t, q, u) ==
    \E v : /\ v[0] = t
           /\ \A k \in 1 .. Len(q) : v[k] = Applied(v[k - 1], q[k])
           /\ v[Len(q)] = u

HasHeader(q) == \E k \in 1 .. Len(q) : q[k].type = "header"

LEMMA LeadsNowhere ==
    ASSUME NEW t, NEW u
    PROVE  Leads(t, <<>>, u) <=> t = u
<1>1. ASSUME t = u
      PROVE  Leads(t, <<>>, u)
  <2>1. PICK v : v = [k \in {0} |-> t]
    OBVIOUS
  <2>2. v[0] = t /\ v[Len(<<>>)] = u /\ 1 .. Len(<<>>) = {}
    BY <1>1, <2>1
  <2>3. \A k \in 1 .. Len(<<>>) : v[k] = Applied(v[k - 1], <<>>[k])
    BY <2>2
  <2> QED BY <2>2, <2>3, Zenon DEF Leads
<1> QED BY <1>1 DEF Leads

(* One message.                                                            *)
LEMMA LeadsOneStep ==
    ASSUME NEW t, NEW m
    PROVE  Leads(t, <<m>>, Applied(t, m))
<1>1. PICK u : u = Applied(t, m)
  OBVIOUS
<1>2. PICK v : v = [k \in {0, 1} |-> IF k = 0 THEN t ELSE u]
  OBVIOUS
<1>3. v[0] = t /\ v[1] = u
  BY <1>2
<1>4. \A k \in 1 .. Len(<<m>>) : k = 1 /\ <<m>>[k] = m /\ k - 1 = 0
  OBVIOUS
<1>5. \A k \in 1 .. Len(<<m>>) : v[k] = Applied(v[k - 1], <<m>>[k])
  <2> SUFFICES ASSUME NEW k \in 1 .. Len(<<m>>)
               PROVE  v[k] = Applied(v[k - 1], <<m>>[k])
    OBVIOUS
  <2>1. v[k - 1] = t /\ <<m>>[k] = m /\ v[k] = u
    BY <1>3, <1>4
  <2> QED BY <2>1, <1>1, Zenon
<1>6. v[Len(<<m>>)] = u
  BY <1>3
<1> QED BY <1>1, <1>3, <1>5, <1>6, Zenon DEF Leads

(* Messages without slots.                                                 *)
LEMMA LeadsQuietly ==
    ASSUME NEW t, NEW q \in Seq(Quiet)
    PROVE  Leads(t, q, t) /\ ~HasHeader(q)
<1>0. Len(q) \in Nat /\ \A k \in 1 .. Len(q) : q[k] \in Quiet
  OBVIOUS
<1>1. \A m \in Quiet : m.type \notin {"header", "roles", "role"}
  BY DEF Quiet
<1>2. PICK v : v = [k \in 0 .. Len(q) |-> t]
  OBVIOUS
<1>3. \A k \in 0 .. Len(q) : v[k] = t
  BY <1>2
<1>4. v[0] = t /\ v[Len(q)] = t
  BY <1>0, <1>3
<1>5. \A k \in 1 .. Len(q) : v[k] = t /\ v[k - 1] = t
  BY <1>0, <1>3
<1>6. ASSUME NEW k \in 1 .. Len(q)
      PROVE  v[k] = Applied(v[k - 1], q[k])
  <2>1. Applied(t, q[k]) = t
    BY <1>0, <1>1 DEF Applied
  <2>2. v[k] = t /\ v[k - 1] = t
    BY <1>5
  <2> QED BY <2>1, <2>2, Zenon
<1>7. Leads(t, q, t)
  BY <1>4, <1>6, Zenon DEF Leads
<1>8. ~HasHeader(q)
  BY <1>0, <1>1 DEF HasHeader
<1> QED BY <1>7, <1>8

(* One sequence after the other.                                           *)
LEMMA LeadsOn ==
    ASSUME NEW t, NEW u, NEW w, NEW S, NEW q \in Seq(S), NEW m \in Seq(S), NEW r, r = q \o m,
           Leads(t, q, u), Leads(u, m, w)
    PROVE  Leads(t, r, w)
<1>1. PICK v : /\ v[0] = t
               /\ \A k \in 1 .. Len(q) : v[k] = Applied(v[k - 1], q[k])
               /\ v[Len(q)] = u
  BY Zenon DEF Leads
<1>2. PICK x : /\ x[0] = u
               /\ \A k \in 1 .. Len(m) : x[k] = Applied(x[k - 1], m[k])
               /\ x[Len(m)] = w
  BY Zenon DEF Leads
<1>3. PICK i \in Nat : i = Len(q)
  OBVIOUS
<1>4. PICK j \in Nat : j = Len(m)
  OBVIOUS
<1>5. Len(r) = i + j
  BY <1>3, <1>4
<1>6. PICK y : y = [k \in 0 .. (i + j) |-> IF k <= i THEN v[k] ELSE x[k - i]]
  OBVIOUS
<1>7. \A k \in 0 .. i : y[k] = v[k]
  BY <1>6
<1>8. \A k \in 0 .. j : y[i + k] = x[k]
  <2>1. y[i + 0] = x[0]
    BY <1>1, <1>2, <1>3, <1>6
  <2>2. ASSUME NEW k \in 1 .. j
        PROVE  y[i + k] = x[k]
    <3>1. i + k \in 0 .. (i + j) /\ ~(i + k <= i) /\ (i + k) - i = k
      OBVIOUS
    <3> QED BY <3>1, <1>6
  <2>3. \A k \in 0 .. j : k = 0 \/ k \in 1 .. j
    OBVIOUS
  <2> QED BY <2>1, <2>2, <2>3, Zenon
<1>9. y[0] = t
  BY <1>1, <1>7
<1>10. y[Len(r)] = w
  BY <1>2, <1>4, <1>5, <1>8
<1>11. ASSUME NEW k \in 1 .. Len(r)
       PROVE  y[k] = Applied(y[k - 1], r[k])
  <2>1. CASE k <= i
    <3>1. k \in 1 .. i /\ k - 1 \in 0 .. i
      BY <2>1, <1>3, <1>5
    <3>2. y[k] = v[k] /\ y[k - 1] = v[k - 1]
      BY <3>1, <1>7
    <3>3. r[k] = q[k]
      BY <3>1, <1>3
    <3>4. v[k] = Applied(v[k - 1], q[k])
      BY <3>1, <1>1, <1>3
    <3> QED BY <3>2, <3>3, <3>4, Zenon
  <2>2. CASE ~(k <= i)
    <3>1. PICK n \in 1 .. j : k = i + n
      <4>1. k - i \in 1 .. j /\ k = i + (k - i)
        BY <2>2, <1>5
      <4> QED BY <4>1
    <3>2. y[k] = x[n]
      BY <3>1, <1>8
    <3>3. y[k - 1] = x[n - 1]
      <4>1. n - 1 \in 0 .. j /\ k - 1 = i + (n - 1)
        BY <3>1
      <4> QED BY <4>1, <1>8
    <3>4. r[k] = m[n]
      BY <3>1, <1>3, <1>4
    <3>5. x[n] = Applied(x[n - 1], m[n])
      BY <3>1, <1>2, <1>4
    <3> QED BY <3>2, <3>3, <3>4, <3>5, Zenon
  <2> QED BY <2>1, <2>2
<1> QED BY <1>9, <1>10, <1>11, Zenon DEF Leads

LEMMA HeaderOn ==
    ASSUME NEW S, NEW q \in Seq(S), NEW m \in Seq(S), NEW r, r = q \o m
    PROVE  HasHeader(r) <=> HasHeader(q) \/ HasHeader(m)
<1>1. PICK i \in Nat : i = Len(q)
  OBVIOUS
<1>2. PICK j \in Nat : j = Len(m)
  OBVIOUS
<1>3. Len(r) = i + j
  BY <1>1, <1>2
<1>4. \A k \in 1 .. i : k \in 1 .. Len(r) /\ r[k] = q[k]
  BY <1>1, <1>3
<1>5. \A k \in 1 .. j : i + k \in 1 .. Len(r) /\ r[i + k] = m[k]
  BY <1>1, <1>2, <1>3
<1>6. ASSUME NEW k \in 1 .. Len(r), r[k].type = "header"
      PROVE  HasHeader(q) \/ HasHeader(m)
  <2>1. CASE k <= i
    BY <2>1, <1>1, <1>4, <1>6 DEF HasHeader
  <2>2. CASE ~(k <= i)
    <3>1. k - i \in 1 .. j /\ k = i + (k - i)
      BY <2>2, <1>3
    <3>2. PICK n \in 1 .. j : k = i + n
      BY <3>1
    <3>3. m[n].type = "header"
      BY <3>2, <1>5, <1>6
    <3> QED BY <3>3, <1>2 DEF HasHeader
  <2> QED BY <2>1, <2>2
<1> QED BY <1>1, <1>2, <1>4, <1>5, <1>6 DEF HasHeader

(* The first message is read.                                              *)
LEMMA LeadsFromHead ==
    ASSUME NEW t, NEW u, NEW S, NEW q \in Seq(S), q # <<>>, Leads(t, q, u),
           NEW s, s = Applied(t, Head(q)), NEW r, r = Tail(q)
    PROVE  Leads(s, r, u)
<1>1. PICK v : /\ v[0] = t
               /\ \A k \in 1 .. Len(q) : v[k] = Applied(v[k - 1], q[k])
               /\ v[Len(q)] = u
  BY Zenon DEF Leads
<1>2. PICK i \in Nat : i = Len(r)
  OBVIOUS
<1>3. Len(q) = i + 1 /\ Head(q) = q[1]
  BY <1>2
<1>4. PICK y : y = [k \in 0 .. i |-> v[k + 1]]
  OBVIOUS
<1>5. \A k \in 0 .. i : y[k] = v[k + 1]
  BY <1>4
<1>6. y[0] = s
  <2>1. 1 \in 1 .. Len(q) /\ 1 - 1 = 0 /\ 0 + 1 = 1
    BY <1>2, <1>3
  <2>2. v[1] = Applied(v[1 - 1], q[1])
    BY <1>1, <2>1
  <2>3. v[1 - 1] = t
    BY <1>1, <2>1
  <2>4. v[1] = s
    BY <2>2, <2>3, <1>3, Zenon
  <2> QED BY <2>1, <2>4, <1>5
<1>7. y[Len(r)] = u
  BY <1>1, <1>2, <1>3, <1>5
<1>8. ASSUME NEW k \in 1 .. Len(r)
      PROVE  y[k] = Applied(y[k - 1], r[k])
  <2>1. k \in 0 .. i /\ k - 1 \in 0 .. i /\ (k - 1) + 1 = k /\ k + 1 \in 1 .. Len(q) /\ (k + 1) - 1 = k
    BY <1>2, <1>3
  <2>2. y[k] = v[k + 1] /\ y[k - 1] = v[k]
    BY <2>1, <1>5
  <2>3. r[k] = q[k + 1]
    BY <2>1, <1>2
  <2>4. PICK n \in 1 .. Len(q) : n = k + 1 /\ n - 1 = k
    BY <2>1
  <2>5. v[n] = Applied(v[n - 1], q[n])
    BY <1>1
  <2>6. v[n] = y[k] /\ v[n - 1] = y[k - 1] /\ q[n] = r[k]
    BY <2>2, <2>3, <2>4
  <2> QED BY <2>5, <2>6, Zenon
<1> QED BY <1>6, <1>7, <1>8, Zenon DEF Leads

-----------------------------------------------------------------------------
(* What a client knows, and will know.                                     *)

(* Messages that lead whoever knows the slots a to the slots b; whoever does not
   know them learns them if there is a header.                               *)
Tells(m, a, b) ==
    \A u : \E w : Leads(u, m, w) /\ (u = a \/ HasHeader(m) => w = b)

(* What is under way leads the client c to the slots rs, if it has a header or
   will have one.                                                            *)
SeenIn(c, q, rs) ==
    \E u : Leads(c.roles, q, u) /\ (c.head # 0 \/ HasHeader(q) => u = rs)

LEMMA QuietTells ==
    ASSUME NEW m \in Seq(Quiet), NEW rs
    PROVE  Tells(m, rs, rs)
BY LeadsQuietly, Zenon DEF Tells

LEMMA NothingTells ==
    ASSUME NEW rs
    PROVE  Tells(<<>>, rs, rs)
<1>1. <<>> \in Seq(Quiet)
  OBVIOUS
<1> QED BY <1>1, QuietTells, Zenon

(* All slots at once, with a header or without one.                         *)
LEMMA TableTells ==
    ASSUME NEW m, NEW a, NEW b, m.roles = b, m.type \in {"header", "roles"}
    PROVE  Tells(<<m>>, a, b)
<1> SUFFICES ASSUME NEW u
             PROVE  \E w : Leads(u, <<m>>, w) /\ (u = a \/ HasHeader(<<m>>) => w = b)
  BY Zenon DEF Tells
<1>1. Applied(u, m) = b
  BY DEF Applied
<1> QED BY <1>1, LeadsOneStep, Zenon

(* One slot.                                                                *)
LEMMA SlotTells ==
    ASSUME NEW a \in SlotTable, NEW r \in Slots, NEW w \in Players \cup {AI}, NEW b,
           b = [s \in Slots |-> IF s = r THEN w ELSE a[s]]
    PROVE  Tells(<<Role(r, w)>>, a, b)
<1>0. PICK m : m = Role(r, w)
  OBVIOUS
<1> SUFFICES ASSUME NEW u
             PROVE  \E x : Leads(u, <<m>>, x) /\ (u = a \/ HasHeader(<<m>>) => x = b)
  BY <1>0, Zenon DEF Tells
<1>1. m.type = "role" /\ m.slot = r /\ m.player = w
  BY <1>0 DEF Role
<1>2. u = a => Applied(u, m) = b
  <2>1. SUFFICES ASSUME u = a
                 PROVE  Applied(u, m) = b
    OBVIOUS
  <2>2. DOMAIN u \cup {m.slot} = Slots
    BY <1>1, <2>1 DEF SlotTable
  <2>3. Applied(u, m) = [s \in DOMAIN u \cup {m.slot} |-> IF s = m.slot THEN m.player ELSE u[s]]
    BY <1>1 DEF Applied
  <2> QED BY <1>1, <2>1, <2>2, <2>3
<1>3. ~HasHeader(<<m>>)
  <2>1. \A k \in 1 .. Len(<<m>>) : <<m>>[k] = m
    OBVIOUS
  <2> QED BY <1>1, <2>1 DEF HasHeader
<1> QED BY <1>2, <1>3, LeadsOneStep, Zenon

(* One thing after the other.                                               *)
LEMMA TellsOn ==
    ASSUME NEW S, NEW m \in Seq(S), NEW n \in Seq(S), NEW r, r = m \o n,
           NEW a, NEW b, NEW c, Tells(m, a, b), Tells(n, b, c)
    PROVE  Tells(r, a, c)
<1> SUFFICES ASSUME NEW u
             PROVE  \E w : Leads(u, r, w) /\ (u = a \/ HasHeader(r) => w = c)
  BY Zenon DEF Tells
<1>1. PICK x : Leads(u, m, x) /\ (u = a \/ HasHeader(m) => x = b)
  BY Zenon DEF Tells
<1>2. PICK w : Leads(x, n, w) /\ (x = b \/ HasHeader(n) => w = c)
  BY Zenon DEF Tells
<1>3. Leads(u, r, w)
  BY <1>1, <1>2, LeadsOn, Zenon
<1>4. HasHeader(r) <=> HasHeader(m) \/ HasHeader(n)
  BY HeaderOn, Zenon
<1> QED BY <1>1, <1>2, <1>3, <1>4, Zenon

(* A client is sent something.                                              *)
LEMMA SeenSent ==
    ASSUME NEW S, NEW q \in Seq(S), NEW m \in Seq(S), NEW r, r = q \o m,
           NEW c, NEW a, NEW b, SeenIn(c, q, a), Tells(m, a, b)
    PROVE  SeenIn(c, r, b)
<1>1. PICK u : Leads(c.roles, q, u) /\ (c.head # 0 \/ HasHeader(q) => u = a)
  BY Zenon DEF SeenIn
<1>2. PICK w : Leads(u, m, w) /\ (u = a \/ HasHeader(m) => w = b)
  BY Zenon DEF Tells
<1>3. PICK t : t = c.roles
  OBVIOUS
<1>4. Leads(t, r, w)
  BY <1>1, <1>2, <1>3, LeadsOn, Zenon
<1>5. HasHeader(r) <=> HasHeader(q) \/ HasHeader(m)
  BY HeaderOn, Zenon
<1> QED BY <1>1, <1>2, <1>3, <1>4, <1>5, Zenon DEF SeenIn

(* A client reads a message.                                                *)
LEMMA SeenRead ==
    ASSUME NEW S, NEW q \in Seq(S), q # <<>>, NEW r, r = Tail(q), NEW c, NEW d, NEW rs,
           SeenIn(c, q, rs), d.roles = Applied(c.roles, Head(q)),
           d.head = c.head \/ Head(q).type = "header"
    PROVE  SeenIn(d, r, rs)
<1>1. PICK u : Leads(c.roles, q, u) /\ (c.head # 0 \/ HasHeader(q) => u = rs)
  BY Zenon DEF SeenIn
<1>2. PICK t : t = c.roles
  OBVIOUS
<1>3. PICK s : s = d.roles
  OBVIOUS
<1>4. Leads(s, r, u)
  BY <1>1, <1>2, <1>3, LeadsFromHead, Zenon
<1>5. 1 \in 1 .. Len(q) /\ q[1] = Head(q)
  OBVIOUS
<1>6. HasHeader(r) => HasHeader(q)
  <2> SUFFICES ASSUME NEW k \in 1 .. Len(r), r[k].type = "header"
               PROVE  HasHeader(q)
    BY DEF HasHeader
  <2>1. k + 1 \in 1 .. Len(q) /\ q[k + 1] = r[k]
    OBVIOUS
  <2> QED BY <2>1 DEF HasHeader
<1>7. Head(q).type = "header" => HasHeader(q)
  BY <1>5 DEF HasHeader
<1> QED BY <1>1, <1>3, <1>4, <1>6, <1>7, Zenon DEF SeenIn

(* Nothing is under way.                                                    *)
LEMMA SeenAll ==
    ASSUME NEW c, NEW rs, SeenIn(c, <<>>, rs), c.head # 0
    PROVE  c.roles = rs
BY LeadsNowhere, Zenon DEF SeenIn

(* What a client knows of slots depends on two fields.                      *)
Slotted(c)  == {"roles", "head"} \subseteq DOMAIN c
SameIn(c, d) == Slotted(d) /\ d.roles = c.roles /\ d.head = c.head

LEMMA SeenSame ==
    ASSUME NEW c, NEW d, NEW q, NEW rs, SameIn(c, d), SeenIn(c, q, rs)
    PROVE  SeenIn(d, q, rs)
BY DEF SameIn, SeenIn

LEMMA Others ==
    ASSUME NEW c, Slotted(c), NEW x, NEW y
    PROVE  /\ SameIn(c, c)
           /\ SameIn(c, [c EXCEPT !.state = x]) /\ SameIn(c, [c EXCEPT !.srv = x])
           /\ SameIn(c, [c EXCEPT !.screen = x]) /\ SameIn(c, [c EXCEPT !.person = x])
           /\ SameIn(c, [c EXCEPT !.valid = x]) /\ SameIn(c, [c EXCEPT !.jip = x])
           /\ SameIn(c, [c EXCEPT !.ident = x])
           /\ SameIn(c, [c EXCEPT !.state = x, !.person = y])
           /\ SameIn(c, [c EXCEPT !.screen = x, !.person = y])
BY DEF SameIn, Slotted

-----------------------------------------------------------------------------
(* The inductive invariant.                                                *)

(* The commands of an admin that leave the transport's messages alone.     *)
NoRestart == "restart" \notin Orders

SentTyped == toClient \in [Players -> Seq(Messages)]
HaveSlots == DOMAIN client = Players /\ \A p \in Players : Slotted(client[p])
Seen      == \A p \in Present : SeenIn(client[p], toClient[p], roles)

(* Only "restart" would have the server go back to the slots of the mission it
   has, which is where messages are dropped.                                 *)
Kept == restart => named \/ reassign

RInv == IInv /\ SentTyped /\ HaveSlots /\ Seen /\ Kept

(* The queues r instead of q take the clients of P from the slots a to b.   *)
Moves(q, r, P, a, b) ==
    /\ r \in [Players -> Seq(Messages)]
    /\ \A c : \A p \in P : SeenIn(c, q[p], a) => SeenIn(c, r[p], b)

LEMMA MovesEach ==
    ASSUME NEW q \in [Players -> Seq(Messages)], NEW P \in SUBSET Players, NEW a, NEW b,
           NEW m \in [Players -> Seq(Messages)],
           NEW r, r = [p \in Players |-> q[p] \o m[p]],
           \A p \in P : Tells(m[p], a, b)
    PROVE  Moves(q, r, P, a, b)
<1>1. r \in [Players -> Seq(Messages)]
  OBVIOUS
<1>2. ASSUME NEW p \in P, NEW c, SeenIn(c, q[p], a)
      PROVE  SeenIn(c, r[p], b)
  <2>1. PICK x \in Seq(Messages) : x = q[p]
    OBVIOUS
  <2>2. PICK y \in Seq(Messages) : y = m[p]
    OBVIOUS
  <2>3. PICK z : z = r[p]
    OBVIOUS
  <2>4. z = x \o y
    BY <2>1, <2>2, <2>3
  <2>5. SeenIn(c, x, a)
    BY <1>2, <2>1
  <2>6. Tells(y, a, b)
    BY <2>2
  <2>7. SeenIn(c, z, b)
    BY <2>4, <2>5, <2>6, SeenSent, Zenon
  <2> QED BY <2>3, <2>7
<1> QED BY <1>1, <1>2, Zenon DEF Moves

(* Send.                                                                   *)
LEMMA MovesSend ==
    ASSUME NEW q \in [Players -> Seq(Messages)], NEW P \in SUBSET Players, NEW a, NEW b, NEW to,
           NEW m \in Seq(Messages), Tells(m, a, b), P \subseteq to \/ a = b
    PROVE  Moves(q, Send(q, to, m), P, a, b) /\ Send(q, to, m) \in [Players -> Seq(Messages)]
<1>1. PICK n : n = [p \in Players |-> IF p \in to THEN m ELSE <<>>]
  OBVIOUS
<1>2. n \in [Players -> Seq(Messages)]
  BY <1>1
<1>3. PICK r : r = Send(q, to, m)
  OBVIOUS
<1>4. r = [p \in Players |-> q[p] \o n[p]]
  <2>1. \A p \in Players : q[p] \o <<>> = q[p]
    OBVIOUS
  <2> QED BY <1>1, <1>3, <2>1 DEF Send
<1>5. \A p \in P : Tells(n[p], a, b)
  <2>1. a = b => Tells(<<>>, a, b)
    BY NothingTells
  <2>2. \A p \in P : n[p] = m \/ (p \notin to /\ n[p] = <<>>)
    BY <1>1
  <2> QED BY <2>1, <2>2
<1>6. Moves(q, r, P, a, b)
  BY <1>2, <1>4, <1>5, MovesEach, Zenon
<1>7. r \in [Players -> Seq(Messages)]
  BY <1>6 DEF Moves
<1> QED BY <1>3, <1>6, <1>7, Zenon

LEMMA MovesOn ==
    ASSUME NEW q, NEW r, NEW s, NEW P, NEW a, NEW b, NEW c,
           Moves(q, r, P, a, b), Moves(r, s, P, b, c)
    PROVE  Moves(q, s, P, a, c)
BY Zenon DEF Moves

LEMMA MovesNothing ==
    ASSUME NEW q \in [Players -> Seq(Messages)], NEW P, NEW a
    PROVE  Moves(q, q, P, a, a)
BY Zenon DEF Moves

(* What the server sends has its types.                                    *)
LEMMA QuietOnes ==
    /\ \A s \in Phases : State(s) \in Quiet
    /\ \A r \in {0} \cup Slots : World(r) \in Quiet
    /\ mission \in Nat => File \in Quiet
    /\ Player \in Quiet /\ Identity \in Quiet /\ TimeElapsed \in Quiet
<1>1. \A s \in Phases : State(s) \in [type : {"state"}, to : Phases]
  BY DEF State
<1>2. \A r \in {0} \cup Slots : World(r) \in [type : {"world"}, person : {0} \cup Slots]
  BY DEF World
<1>3. mission \in Nat => File \in [type : {"file"}, mission : Nat]
  BY DEF File
<1>4. {Player, Identity, TimeElapsed} \subseteq [type : {"time", "player", "identity"}]
  BY DEF Player, Identity, TimeElapsed
<1> QED BY <1>1, <1>2, <1>3, <1>4, Zenon DEF Quiet

LEMMA TableOnes ==
    /\ \A n \in Nat, rs \in SlotTable : Header(n, rs) \in Tables
    /\ \A rs \in SlotTable : RolesOnly(rs) \in Tables
    /\ \A r \in Slots, w \in Players \cup {AI} : Role(r, w) \in Tables
<1>1. \A n \in Nat, rs \in SlotTable : Header(n, rs) \in [type : {"header"}, mission : Nat, roles : SlotTable]
  BY DEF Header
<1>2. \A rs \in SlotTable : RolesOnly(rs) \in [type : {"roles"}, roles : SlotTable]
  BY DEF RolesOnly
<1>3. \A r \in Slots, w \in Players \cup {AI} :
          Role(r, w) \in [type : {"role"}, slot : Slots, player : Players \cup {AI}]
  BY DEF Role
<1> QED BY <1>1, <1>2, <1>3, Zenon DEF Tables

LEMMA QuietSeqs ==
    /\ <<>> \in Seq(Quiet)
    /\ \A a \in Quiet : <<a>> \in Seq(Quiet)
    /\ \A a, b \in Quiet : <<a, b>> \in Seq(Quiet)
    /\ \A m, n \in Seq(Quiet) : m \o n \in Seq(Quiet)
    /\ \A b : \A m \in Seq(Quiet) : When(b, m) \in Seq(Quiet)
BY DEF When

LEMMA QuietSent ==
    ASSUME NEW m \in Seq(Quiet), NEW rs
    PROVE  m \in Seq(Messages) /\ Tells(m, rs, rs)
<1>1. m \in Seq(Messages)
  BY DEF Messages
<1> QED BY <1>1, QuietTells, Zenon

(* A change of the phase is heard, and nothing else changes in the queues: a
   player who was away is away.                                              *)
LEMMA SetGameStateMoves ==
    ASSUME NEW s \in ServerPhases, NEW rs, NEW i \in [Players -> InfoType],
           NEW q \in [Players -> Seq(Messages)], NEW P \in SUBSET Players, NEW a,
           SetGameState(s, rs, i, q), s # PrepareRole
    PROVE  /\ Moves(q, toClient', P, a, a)
           /\ \A p \in Players : info'[p].state # None => i[p].state # None
<1> DEFINE j == Reclassified(s, rs, i)
<1>1. toClient' = Send(q, Hearers(s, rs, j), <<State(s)>>)
  <2>1. \E d \in IF s = PrepareRole /\ state > PrepareRole THEN Cancelled(q) ELSE {q} :
           toClient' = Send(d, Hearers(s, rs, j), <<State(s)>>)
    BY Zenon DEF SetGameState
  <2> HIDE DEF j
  <2> QED BY <2>1, Zenon
<1>2. <<State(s)>> \in Seq(Quiet)
  BY QuietOnes, QuietSeqs DEF ServerPhases, Phases
<1>3. PICK to : to = Hearers(s, rs, j)
  OBVIOUS
<1>4. PICK m : m = <<State(s)>>
  OBVIOUS
<1>5. m \in Seq(Messages) /\ Tells(m, a, a)
  BY <1>2, <1>4, QuietSent, Zenon
<1>6. Moves(q, Send(q, to, m), P, a, a)
  BY <1>5, MovesSend, Zenon
<1>7. Moves(q, toClient', P, a, a)
  BY <1>1, <1>3, <1>4, <1>6, Zenon
<1>8. ASSUME NEW p \in Players, i[p].state = None
      PROVE  info'[p].state = None
  <2>1. j[p] = i[p]
    <3> DEFINE moved == s = Play /\ Jip /\ i[p].state # None /\ ~i[p].jip /\ ~Holds(rs, p)
               late  == [i[p] EXCEPT !.jip = TRUE, !.state = Create]
    <3>1. j[p] = IF moved THEN late ELSE i[p]
      BY Zenon DEF Reclassified
    <3>2. ~moved
      BY <1>8
    <3> HIDE DEF moved, late, j
    <3> QED BY <3>1, <3>2
  <2>2. p \notin Hearers(s, rs, j)
    BY <1>8, <2>1 DEF Hearers
  <2>3. info' = Follow(s, rs, j)
    BY DEF SetGameState
  <2> QED BY <1>8, <2>1, <2>2, <2>3 DEF Follow
<1> QED BY <1>7, <1>8

(* A step of the server that keeps the invariant of its own variables.     *)
LEMMA ServerMoves ==
    ASSUME RInv, IInv', Kept', UNCHANGED client,
           \A p \in Players : info'[p].state # None => info[p].state # None,
           Moves(toClient, toClient', Present, roles, roles')
    PROVE  RInv'
<1>1. Present' \subseteq Present
  BY DEF Present
<1>2. SentTyped'
  BY DEF Moves, SentTyped
<1>3. HaveSlots'
  BY DEF RInv, HaveSlots
<1>4. PICK c : c = client
  OBVIOUS
<1>5. ASSUME NEW p \in Present
      PROVE  SeenIn(client[p], toClient'[p], roles')
  BY DEF RInv, Seen, Moves
<1>6. Seen'
  BY <1>1, <1>5 DEF Seen
<1> QED BY <1>2, <1>3, <1>6 DEF RInv

(* One that leaves the slots alone and sends the player p something else.   *)
LEMMA ServerAnswers ==
    ASSUME RInv, IInv', NEW p \in Players, NEW m \in Seq(Quiet), toClient' = SendTo(p, m),
           UNCHANGED <<roles, client, restart, named, reassign>>,
           \A o \in Players : info'[o].state # None => info[o].state # None
    PROVE  RInv'
<1>1. m \in Seq(Messages) /\ Tells(m, roles, roles)
  BY QuietSent
<1>2. toClient \in [Players -> Seq(Messages)] /\ Present \in SUBSET Players
  BY DEF RInv, SentTyped, Present
<1>3. Moves(toClient, Send(toClient, {p}, m), Present, roles, roles)
  BY <1>1, <1>2, MovesSend, Zenon
<1>4. Moves(toClient, toClient', Present, roles, roles')
  BY <1>3 DEF SendTo
<1>5. Kept'
  BY DEF RInv, Kept
<1> QED BY <1>4, <1>5, ServerMoves

LEMMA Unspoken ==
    ASSUME RInv, IInv', UNCHANGED <<roles, client, toClient, restart, named, reassign>>,
           \A o \in Players : info'[o].state # None => info[o].state # None
    PROVE  RInv'
<1>1. Moves(toClient, toClient', Present, roles, roles')
  BY MovesNothing DEF RInv, SentTyped
<1>2. Kept'
  BY DEF RInv, Kept
<1> QED BY <1>1, <1>2, ServerMoves

(* A step of one client.                                                    *)
LEMMA ClientReads ==
    ASSUME RInv, IInv', UNCHANGED <<serverVars, info>>, NEW p \in Players, toClient[p] # <<>>,
           toClient' = [toClient EXCEPT ![p] = Tail(@)], DOMAIN client' = Players,
           \A o \in Players : o # p => client'[o] = client[o],
           Slotted(client'[p]),
           client'[p].roles = Applied(client[p].roles, Head(toClient[p])),
           client'[p].head = client[p].head \/ Head(toClient[p]).type = "header"
    PROVE  RInv'
<1>1. toClient[p] \in Seq(Messages) /\ toClient \in [Players -> Seq(Messages)]
  BY DEF RInv, SentTyped
<1>2. SentTyped'
  BY <1>1 DEF SentTyped
<1>3. HaveSlots'
  BY DEF RInv, HaveSlots
<1>4. Present' = Present /\ roles' = roles /\ UNCHANGED <<restart, named, reassign>>
  BY DEF Present, serverVars
<1>5. ASSUME NEW o \in Present
      PROVE  SeenIn(client'[o], toClient'[o], roles)
  <2>1. o \in Players /\ SeenIn(client[o], toClient[o], roles)
    BY DEF RInv, Seen, Present
  <2>2. CASE o # p
    <3>1. toClient'[o] = toClient[o] /\ client'[o] = client[o]
      BY <2>1, <2>2, <1>1
    <3> QED BY <2>1, <3>1
  <2>3. CASE o = p
    <3>1. PICK q \in Seq(Messages) : q = toClient[p]
      BY <1>1
    <3>2. PICK r : r = toClient'[p]
      OBVIOUS
    <3>3. PICK c : c = client[p]
      OBVIOUS
    <3>4. PICK d : d = client'[p]
      OBVIOUS
    <3>5. r = Tail(q) /\ q # <<>>
      BY <1>1, <3>1, <3>2
    <3>6. d.roles = Applied(c.roles, Head(q))
      BY <3>1, <3>3, <3>4
    <3>7. d.head = c.head \/ Head(q).type = "header"
      BY <3>1, <3>3, <3>4
    <3>8. SeenIn(c, q, roles)
      BY <2>1, <2>3, <3>1, <3>3
    <3>9. SeenIn(d, r, roles)
      BY <3>5, <3>6, <3>7, <3>8, SeenRead, Zenon
    <3> QED BY <2>3, <3>2, <3>4, <3>9
  <2> QED BY <2>2, <2>3
<1>6. Seen'
  BY <1>4, <1>5 DEF Seen
<1>7. Kept'
  BY <1>4 DEF RInv, Kept
<1> QED BY <1>2, <1>3, <1>6, <1>7 DEF RInv

(* One that leaves what clients know of slots alone.                       *)
LEMMA ClientStays ==
    ASSUME RInv, IInv', UNCHANGED <<serverVars, info, toClient>>, DOMAIN client' = Players,
           \A o \in Players : SameIn(client[o], client'[o])
    PROVE  RInv'
<1>1. HaveSlots'
  BY DEF HaveSlots, SameIn
<1>2. Present' = Present /\ roles' = roles /\ UNCHANGED <<restart, named, reassign>>
  BY DEF Present, serverVars
<1>3. ASSUME NEW o \in Present
      PROVE  SeenIn(client'[o], toClient[o], roles)
  <2>1. o \in Players /\ SeenIn(client[o], toClient[o], roles)
    BY DEF RInv, Seen, Present
  <2>2. PICK c : c = client[o]
    OBVIOUS
  <2>3. PICK d : d = client'[o]
    OBVIOUS
  <2>4. SameIn(c, d)
    BY <2>1, <2>2, <2>3
  <2>5. SeenIn(d, toClient[o], roles)
    BY <2>1, <2>2, <2>4, SeenSame
  <2> QED BY <2>3, <2>5
<1>4. Seen'
  BY <1>2, <1>3 DEF Seen
<1>5. Kept' /\ SentTyped'
  BY <1>2 DEF RInv, Kept, SentTyped
<1> QED BY <1>1, <1>4, <1>5 DEF RInv

-----------------------------------------------------------------------------
(* Players come and go.                                                    *)

(* Whoever comes late is greeted with the slots.                            *)
LEMMA GreetingTells ==
    ASSUME IInv, NEW late \in BOOLEAN
    PROVE  Greeting(late) \in Seq(Messages) /\ Tells(Greeting(late), roles, roles)
<1>0. roles \in SlotTable /\ mission \in Nat
  BY Unfolded, BoundsAssumption
<1>1. PICK a \in Seq(Quiet) : a = <<State(Create), Player>>
  BY QuietOnes, QuietSeqs DEF Create, Phases
<1>2. a \in Seq(Messages) /\ Tells(a, roles, roles)
  BY QuietSent
<1>3. CASE late
  <2>1. PICK h : h = Header(mission, roles)
    OBVIOUS
  <2>2. h \in Messages /\ h.roles = roles /\ h.type = "header"
    <3>1. h \in Tables
      BY <1>0, <2>1, TableOnes
    <3> QED BY <2>1, <3>1 DEF Messages, Header
  <2>3. <<h>> \in Seq(Messages) /\ Tells(<<h>>, roles, roles)
    BY <2>2, TableTells
  <2>4. PICK b \in Seq(Quiet) : b = <<State(PrepareRole)>>
    BY QuietOnes, QuietSeqs DEF PrepareRole, Phases
  <2>5. b \in Seq(Messages) /\ Tells(b, roles, roles)
    BY QuietSent
  <2>6. PICK x : x = <<h>> \o b
    OBVIOUS
  <2>7. x \in Seq(Messages)
    BY <2>3, <2>5, <2>6
  <2>8. Tells(x, roles, roles)
    BY <2>3, <2>5, <2>6, TellsOn, Zenon
  <2>9. PICK y : y = a \o x
    OBVIOUS
  <2>10. y \in Seq(Messages)
    BY <1>2, <2>7, <2>9
  <2>11. Tells(y, roles, roles)
    BY <1>2, <2>7, <2>8, <2>9, TellsOn, Zenon
  <2>12. x = <<Header(mission, roles), State(PrepareRole)>>
    <3>1. State(PrepareRole) \in Messages
      BY QuietOnes DEF Messages, PrepareRole, Phases
    <3>2. x = <<h>> \o <<State(PrepareRole)>>
      BY <2>4, <2>6, Zenon
    <3> QED BY <3>1, <3>2, <2>1, <2>2, PairOf, Zenon
  <2>13. Greeting(late) = y
    BY <1>1, <1>3, <2>9, <2>12 DEF Greeting, When
  <2> QED BY <2>10, <2>11, <2>13
<1>4. CASE ~late
  <2>1. Greeting(late) = a
    BY <1>1, <1>4 DEF Greeting, When
  <2> QED BY <2>1, <1>2
<1> QED BY <1>3, <1>4

LEMMA JoinSees ==
    ASSUME RInv, IInv', NEW p \in Players, Join(p)
    PROVE  RInv'
<1>1. PICK late \in BOOLEAN : toClient' = [toClient EXCEPT ![p] = Greeting(late)]
  <2> DEFINE late == state >= Transfer
  <2>1. toClient' = [toClient EXCEPT ![p] = Greeting(late)]
    BY Zenon DEF Join
  <2>2. late \in BOOLEAN
    OBVIOUS
  <2> HIDE DEF late
  <2> QED BY <2>1, <2>2, Zenon
<1>2. /\ client' = [client EXCEPT ![p] = NewClient] /\ UNCHANGED serverVars
      /\ \A o \in Players : o # p => info'[o] = info[o]
  BY Unfolded DEF Join, RInv
<1>3. Greeting(late) \in Seq(Messages) /\ Tells(Greeting(late), roles, roles)
  BY GreetingTells DEF RInv
<1>4. PICK g \in Seq(Messages) : g = Greeting(late)
  BY <1>3
<1>5. SentTyped'
  BY <1>1, <1>3 DEF RInv, SentTyped
<1>6. Slotted(NewClient) /\ NewClient.roles = <<>> /\ NewClient.head = 0
  BY DEF Slotted, NewClient
<1>7. HaveSlots'
  BY <1>2, <1>6 DEF RInv, HaveSlots
<1>8. SeenIn(NewClient, g, roles)
  <2>1. PICK t : t = NewClient.roles
    OBVIOUS
  <2>2. Tells(g, roles, roles)
    BY <1>3, <1>4
  <2>3. PICK u : Leads(t, g, u) /\ (HasHeader(g) => u = roles)
    BY <2>2, Zenon DEF Tells
  <2> QED BY <1>6, <2>1, <2>3 DEF SeenIn
<1>9. ASSUME NEW o \in Present'
      PROVE  SeenIn(client'[o], toClient'[o], roles)
  <2>1. CASE o = p
    <3>1. client'[o] = NewClient /\ toClient'[o] = g
      BY <1>1, <1>2, <1>4, <2>1 DEF RInv, SentTyped, HaveSlots
    <3> QED BY <3>1, <1>8
  <2>2. CASE o # p
    <3>1. o \in Present
      BY <1>2, <2>2 DEF Present
    <3>2. client'[o] = client[o] /\ toClient'[o] = toClient[o]
      BY <1>1, <1>2, <2>2 DEF RInv, SentTyped, HaveSlots, Present
    <3> QED BY <3>1, <3>2 DEF RInv, Seen
  <2> QED BY <2>1, <2>2
<1>10. Seen'
  BY <1>2, <1>9 DEF Seen, serverVars
<1>11. Kept'
  BY <1>2 DEF RInv, Kept, serverVars
<1> QED BY <1>5, <1>7, <1>10, <1>11 DEF RInv

(* Whoever leaves gives up his slot, of which all others hear.              *)
LEMMA LeaveSees ==
    ASSUME RInv, IInv', NEW p \in Players, Leave(p)
    PROVE  RInv'
<1> DEFINE others == Present \ {p}
           quiet  == [toClient EXCEPT ![p] = <<>>]
<1>1. /\ client' = [client EXCEPT ![p] = NewClient]
      /\ info' = [info EXCEPT ![p] = Absent] /\ UNCHANGED <<restart, named, reassign>>
  BY DEF Leave
<1>2. toClient \in [Players -> Seq(Messages)] /\ roles \in SlotTable /\ others \in SUBSET Players
  BY Unfolded DEF RInv, SentTyped, Present
<1>3. quiet \in [Players -> Seq(Messages)] /\ \A o \in others : quiet[o] = toClient[o]
  BY <1>2
<1>4. Present' \subseteq others
  <2>1. info'[p].state = None
    BY <1>1, Unfolded DEF Absent, RInv
  <2>2. \A o \in Players : o # p => info'[o] = info[o]
    BY <1>1, Unfolded DEF RInv
  <2> QED BY <2>1, <2>2 DEF Present
<1>5. Moves(quiet, toClient', others, roles, roles')
  <2>1. CASE Holds(roles, p)
    <3>1. PICK r \in Slots : roles' = [roles EXCEPT ![r] = AI] /\ toClient' = Send(quiet, others, <<Role(r, AI)>>)
      BY <2>1, SlotFound, Unfolded DEF Leave, RInv
    <3>2. roles' = [s \in Slots |-> IF s = r THEN AI ELSE roles[s]]
      BY <3>1, <1>2 DEF SlotTable
    <3>3. PICK m : m = <<Role(r, AI)>>
      OBVIOUS
    <3>4. m \in Seq(Messages)
      <4>1. Role(r, AI) \in Messages
        BY TableOnes DEF Messages
      <4> QED BY <3>3, <4>1
    <3>5. PICK b : b = roles'
      OBVIOUS
    <3>6. Tells(m, roles, b)
      BY <1>2, <3>2, <3>3, <3>5, SlotTells
    <3>7. PICK q \in [Players -> Seq(Messages)] : q = quiet
      BY <1>3
    <3>8. PICK P \in SUBSET Players : P = others
      BY <1>2
    <3>9. Moves(q, Send(q, P, m), P, roles, b)
      BY <3>4, <3>6, MovesSend, Zenon
    <3> QED BY <3>1, <3>3, <3>5, <3>7, <3>8, <3>9, Zenon
  <2>2. CASE ~Holds(roles, p)
    <3>1. toClient' = quiet /\ roles' = roles
      BY <2>2 DEF Leave
    <3> QED BY <3>1, <1>3, MovesNothing
  <2> QED BY <2>1, <2>2
<1>6. SentTyped'
  BY <1>5 DEF Moves, SentTyped
<1>7. HaveSlots'
  BY <1>1 DEF RInv, HaveSlots, Slotted, NewClient
<1>8. ASSUME NEW o \in others
      PROVE  SeenIn(client'[o], toClient'[o], roles')
  <2>1. client'[o] = client[o] /\ quiet[o] = toClient[o]
    BY <1>1, <1>3 DEF RInv, HaveSlots, Present
  <2>2. SeenIn(client[o], toClient[o], roles)
    BY DEF RInv, Seen
  <2>3. PICK q : q = quiet
    OBVIOUS
  <2>4. SeenIn(client[o], q[o], roles)
    BY <2>1, <2>2, <2>3
  <2>5. Moves(q, toClient', others, roles, roles')
    BY <1>5, <2>3
  <2>6. SeenIn(client[o], toClient'[o], roles')
    <3> HIDE DEF others
    <3> QED BY <2>4, <2>5, Zenon DEF Moves
  <2> QED BY <2>1, <2>6
<1>9. Seen'
  BY <1>4, <1>8 DEF Seen
<1>10. Kept'
  BY <1>1 DEF RInv, Kept
<1> QED BY <1>6, <1>7, <1>9, <1>10 DEF RInv

-----------------------------------------------------------------------------
(* The server handles a message.                                           *)

(* A login is answered with the header of the mission, if there is one.    *)
LEMMA OnLoginSees ==
    ASSUME RInv, IInv', NEW p \in Players, OnLogin(p)
    PROVE  RInv'
<1>0. roles \in SlotTable /\ mission \in Nat /\ state \in ServerPhases
  BY Unfolded, BoundsAssumption DEF RInv
<1>1. PICK lobby \in BOOLEAN, s \in Phases, m \in Seq(Quiet) :
         toClient' = SendTo(p, <<Identity>> \o When(lobby, <<Header(mission, roles)>>) \o <<State(s)>> \o m)
  <2> DEFINE playing == info[p].jip /\ state >= Play
             lobby   == ~playing /\ state >= PrepareSide
             s       == IF state > PrepareRole THEN PrepareRole ELSE state
             m       == When(~playing /\ state = Play, <<TimeElapsed>>)
  <2>1. toClient' = SendTo(p, <<Identity>> \o When(lobby, <<Header(mission, roles)>>) \o <<State(s)>> \o m)
    BY Zenon DEF OnLogin
  <2>2. lobby \in BOOLEAN /\ s \in Phases
    BY <1>0 DEF ServerPhases, Phases, PrepareRole
  <2>3. m \in Seq(Quiet)
    <3>1. <<TimeElapsed>> \in Seq(Quiet)
      BY QuietOnes, QuietSeqs
    <3> QED BY <3>1, QuietSeqs
  <2> HIDE DEF playing, lobby, s, m
  <2> QED BY <2>1, <2>2, <2>3, Zenon
<1>2. PICK a : a = <<Identity>>
  OBVIOUS
<1>3. PICK b : b = When(lobby, <<Header(mission, roles)>>)
  OBVIOUS
<1>4. PICK c : c = <<State(s)>>
  OBVIOUS
<1>5. a \in Seq(Messages) /\ Tells(a, roles, roles)
  <2>1. a \in Seq(Quiet)
    BY <1>2, QuietOnes, QuietSeqs
  <2> QED BY <2>1, QuietSent
<1>6. b \in Seq(Messages) /\ Tells(b, roles, roles)
  <2>1. CASE lobby
    <3>1. PICK h : h = Header(mission, roles)
      OBVIOUS
    <3>2. h \in Tables /\ h.roles = roles /\ h.type = "header"
      BY <1>0, <3>1, TableOnes DEF Header
    <3>3. <<h>> \in Seq(Messages) /\ Tells(<<h>>, roles, roles)
      BY <3>2, TableTells DEF Messages
    <3>4. b = <<h>>
      BY <1>3, <2>1, <3>1 DEF When
    <3> QED BY <3>3, <3>4
  <2>2. CASE ~lobby
    <3>1. b = <<>>
      BY <1>3, <2>2 DEF When
    <3> QED BY <3>1, NothingTells
  <2> QED BY <2>1, <2>2
<1>7. c \in Seq(Messages) /\ Tells(c, roles, roles)
  <2>1. c \in Seq(Quiet)
    BY <1>4, QuietOnes, QuietSeqs
  <2> QED BY <2>1, QuietSent
<1>8. m \in Seq(Messages) /\ Tells(m, roles, roles)
  BY QuietSent
<1>9. PICK x : x = a \o b
  OBVIOUS
<1>10. x \in Seq(Messages) /\ Tells(x, roles, roles)
  <2>1. x \in Seq(Messages)
    BY <1>5, <1>6, <1>9
  <2> QED BY <2>1, <1>5, <1>6, <1>9, TellsOn, Zenon
<1>11. PICK y : y = x \o c
  OBVIOUS
<1>12. y \in Seq(Messages) /\ Tells(y, roles, roles)
  <2>1. y \in Seq(Messages)
    BY <1>7, <1>10, <1>11
  <2> QED BY <2>1, <1>7, <1>10, <1>11, TellsOn, Zenon
<1>13. PICK z : z = y \o m
  OBVIOUS
<1>14. z \in Seq(Messages) /\ Tells(z, roles, roles)
  <2>1. z \in Seq(Messages)
    BY <1>8, <1>12, <1>13
  <2> QED BY <2>1, <1>8, <1>12, <1>13, TellsOn, Zenon
<1>15. toClient' = Send(toClient, {p}, z)
  BY <1>1, <1>2, <1>3, <1>4, <1>9, <1>11, <1>13, Zenon DEF SendTo
<1>16. toClient \in [Players -> Seq(Messages)] /\ Present \in SUBSET Players
  BY DEF RInv, SentTyped, Present
<1>17. Moves(toClient, Send(toClient, {p}, z), Present, roles, roles)
  BY <1>14, <1>16, MovesSend, Zenon
<1>18. UNCHANGED <<roles, client, restart, named, reassign>> /\ p \in Present
  BY DEF OnLogin, Heard, serverVars
<1>19. \A o \in Players : info'[o].state # None => info[o].state # None
  <2>1. \A o \in Players : o # p => info'[o] = info[o]
    BY Unfolded DEF RInv, OnLogin
  <2> QED BY <2>1, <1>18 DEF Present
<1>20. Moves(toClient, toClient', Present, roles, roles')
  BY <1>15, <1>17, <1>18
<1>21. Kept'
  BY <1>18 DEF RInv, Kept
<1> QED BY <1>18, <1>19, <1>20, <1>21, ServerMoves

LEMMA OnAskMissionFileSees ==
    ASSUME RInv, IInv', NEW p \in Players, OnAskMissionFile(p)
    PROVE  RInv'
<1>1. UNCHANGED <<roles, client, toClient, restart, named, reassign>> /\ p \in Present
  BY DEF OnAskMissionFile, Heard, serverVars
<1>2. \A o \in Players : o # p => info'[o] = info[o]
  BY Unfolded DEF RInv, OnAskMissionFile
<1>3. \A o \in Players : info'[o].state # None => info[o].state # None
  BY <1>1, <1>2 DEF Present
<1> QED BY <1>1, <1>3, Unspoken

LEMMA OnReadySees ==
    ASSUME RInv, IInv', NEW p \in Players, OnReady(p)
    PROVE  RInv'
<1> DEFINE s == Head(toServer[p]).state
           x == info[p]
           m == When(s = Play /\ x.state = Briefing /\ state >= Play, <<State(Play)>>)
                \o When(~Stale(s, x) /\ s = PrepareOK /\ x.jip /\ state >= Briefing,
                        <<State(Transfer)>> \o When(~x.valid, <<File>>)
                        \o <<State(LoadIsland), State(Briefing)>>)
<1>1. toClient' = SendTo(p, m)
  BY Zenon DEF OnReady
<1>2. m \in Seq(Quiet)
  <2>1. <<State(Play)>> \in Seq(Quiet) /\ <<State(Transfer)>> \in Seq(Quiet)
    BY QuietOnes, QuietSeqs DEF Play, Transfer, Phases
  <2>2. <<State(LoadIsland), State(Briefing)>> \in Seq(Quiet)
    BY QuietOnes, QuietSeqs DEF LoadIsland, Briefing, Phases
  <2>3. <<File>> \in Seq(Quiet)
    BY QuietOnes, QuietSeqs, Unfolded, BoundsAssumption DEF RInv
  <2> QED BY <2>1, <2>2, <2>3, QuietSeqs, Zenon
<1>3. UNCHANGED <<roles, client, restart, named, reassign>> /\ p \in Present
  BY DEF OnReady, Heard, serverVars
<1>4. \A o \in Players : o # p => info'[o] = info[o]
  <2>1. info' \in {info, [info EXCEPT ![p].state = s]}
    BY DEF OnReady
  <2> QED BY <2>1, Unfolded DEF RInv
<1>5. \A o \in Players : info'[o].state # None => info[o].state # None
  BY <1>3, <1>4 DEF Present
<1> HIDE DEF m
<1> QED BY <1>1, <1>2, <1>3, <1>5, ServerAnswers

LEMMA OnReadyBriefingSees ==
    ASSUME RInv, IInv', NEW p \in Players, OnReadyBriefing(p)
    PROVE  RInv'
<1> DEFINE person == PersonOf(roles, info[p], p)
           m == <<World(person)>> \o When(state >= Play, <<TimeElapsed, State(Play)>>)
<1>1. toClient' = SendTo(p, m) \/ toClient' = toClient
  BY Zenon DEF OnReadyBriefing
<1>2. m \in Seq(Quiet)
  <2>1. person \in {0} \cup Slots
    BY PersonTyped, Unfolded DEF RInv
  <2>2. <<World(person)>> \in Seq(Quiet)
    BY <2>1, QuietOnes, QuietSeqs
  <2>3. <<TimeElapsed, State(Play)>> \in Seq(Quiet)
    BY QuietOnes, QuietSeqs DEF Play, Phases
  <2> QED BY <2>2, <2>3, QuietSeqs, Zenon
<1>3. UNCHANGED <<roles, client, restart, named, reassign>> /\ p \in Present
  BY DEF OnReadyBriefing, Heard, serverVars
<1>4. \A o \in Players : o # p => info'[o] = info[o]
  <2>1. \E i : info' = [info EXCEPT ![p] = i]
    BY Zenon DEF OnReadyBriefing
  <2> QED BY <2>1, Unfolded DEF RInv
<1>5. \A o \in Players : info'[o].state # None => info[o].state # None
  BY <1>3, <1>4 DEF Present
<1> HIDE DEF m
<1>6. CASE toClient' = SendTo(p, m)
  BY <1>2, <1>3, <1>5, <1>6, ServerAnswers
<1>7. CASE toClient' = toClient
  BY <1>3, <1>5, <1>7, Unspoken
<1> QED BY <1>1, <1>6, <1>7

(* The bot has loaded: each is sent the world, and then the briefing.       *)
LEMMA OnReadyBotSees ==
    ASSUME RInv, IInv', OnReadyBot
    PROVE  RInv'
<1> DEFINE i == [p \in Players |-> IF p \in Present
                                   THEN [info[p] EXCEPT !.person = PersonOf(roles, info[p], p)]
                                   ELSE info[p]]
           world(p) == When(i[p].person # 0, <<World(i[p].person)>>)
           q == [p \in Players |-> toClient[p] \o world(p)]
<1>0. UNCHANGED <<roles, client, restart, named, reassign>>
  BY DEF OnReadyBot
<1>1. i \in [Players -> InfoType]
  BY WithPerson, PersonTyped, Unfolded DEF RInv
<1>2. SetGameState(Briefing, roles, i, q)
  BY Zenon DEF OnReadyBot
<1>3. \A p \in Players : world(p) \in Seq(Quiet)
  <2> SUFFICES ASSUME NEW p \in Players
               PROVE  world(p) \in Seq(Quiet)
    OBVIOUS
  <2>1. i[p].person \in {0} \cup Slots
    BY <1>1 DEF InfoType
  <2>2. PICK n \in {0} \cup Slots : n = i[p].person
    BY <2>1
  <2>3. <<World(n)>> \in Seq(Quiet)
    BY QuietOnes, QuietSeqs
  <2>4. world(p) = When(n # 0, <<World(n)>>)
    BY <2>2, Zenon
  <2> QED BY <2>3, <2>4, QuietSeqs, Zenon
<1>4. \A p \in Players : i[p].state = info[p].state
  BY Unfolded DEF RInv, InfoType
<1> HIDE DEF i, world
<1>5. \A p \in Players : world(p) \in Seq(Messages) /\ Tells(world(p), roles, roles)
  <2> SUFFICES ASSUME NEW p \in Players
               PROVE  world(p) \in Seq(Messages) /\ Tells(world(p), roles, roles)
    OBVIOUS
  <2>1. PICK m \in Seq(Quiet) : m = world(p)
    BY <1>3
  <2> QED BY <2>1, QuietSent, Zenon
<1>6. PICK n : n = [p \in Players |-> world(p)]
  OBVIOUS
<1>7. /\ n \in [Players -> Seq(Messages)] /\ \A p \in Present : Tells(n[p], roles, roles)
      /\ q = [p \in Players |-> toClient[p] \o n[p]]
  <2>1. n \in [Players -> Seq(Messages)]
    BY <1>5, <1>6
  <2>2. \A p \in Players : n[p] = world(p)
    BY <1>6
  <2>3. ASSUME NEW p \in Present
        PROVE  Tells(n[p], roles, roles)
    <3>1. PICK x : x = n[p]
      OBVIOUS
    <3>2. p \in Players
      BY DEF Present
    <3>3. Tells(x, roles, roles)
      BY <1>5, <2>2, <3>1, <3>2
    <3> QED BY <3>1, <3>3
  <2>4. q = [p \in Players |-> toClient[p] \o n[p]]
    BY <2>2
  <2> QED BY <2>1, <2>3, <2>4
<1> HIDE DEF q
<1>9. toClient \in [Players -> Seq(Messages)] /\ Present \in SUBSET Players
  BY DEF RInv, SentTyped, Present
<1>10. Moves(toClient, q, Present, roles, roles) /\ q \in [Players -> Seq(Messages)]
  <2>1. Moves(toClient, q, Present, roles, roles)
    BY <1>7, <1>9, MovesEach, Zenon
  <2> QED BY <2>1 DEF Moves
<1>11. /\ Moves(q, toClient', Present, roles, roles)
       /\ \A p \in Players : info'[p].state # None => i[p].state # None
  <2>1. Briefing \in ServerPhases /\ Briefing # PrepareRole
    BY DEF ServerPhases, Briefing, PrepareRole
  <2> QED BY <1>1, <1>2, <1>9, <1>10, <2>1, SetGameStateMoves
<1>12. Moves(toClient, toClient', Present, roles, roles')
  BY <1>0, <1>10, <1>11, MovesOn
<1>13. Kept'
  BY <1>0 DEF RInv, Kept
<1> QED BY <1>0, <1>4, <1>11, <1>12, <1>13, ServerMoves

(* A slot is taken, and another given up for it.                            *)
LEMMA ClaimTells ==
    ASSUME IInv, NEW r \in Slots, NEW w \in Players \cup {AI}, NEW m, NEW rs,
           rs = [s \in Slots |-> IF s = r THEN w ELSE IF s \in GivenUp(r, w) THEN AI ELSE roles[s]],
           m = <<Role(r, w)>> \o When(GivenUp(r, w) # {}, <<Role(SlotOf(roles, w), AI)>>)
    PROVE  m \in Seq(Messages) /\ Tells(m, roles, rs)
<1>0. roles \in SlotTable /\ Once(roles)
  BY Unfolded
<1>1. PICK a : a = <<Role(r, w)>>
  OBVIOUS
<1>2. PICK t : t = [s \in Slots |-> IF s = r THEN w ELSE roles[s]]
  OBVIOUS
<1>3. a \in Seq(Messages) /\ Tells(a, roles, t)
  <2>1. Role(r, w) \in Messages
    BY TableOnes DEF Messages
  <2>2. a \in Seq(Messages)
    BY <1>1, <2>1
  <2> QED BY <2>2, <1>0, <1>1, <1>2, SlotTells
<1>4. CASE GivenUp(r, w) = {}
  <2>1. PICK b : b = When(GivenUp(r, w) # {}, <<Role(SlotOf(roles, w), AI)>>)
    OBVIOUS
  <2>2. b = <<>>
    BY <1>4, <2>1 DEF When
  <2>3. m = a
    <3>1. m = a \o b
      BY <1>1, <2>1, Zenon
    <3> QED BY <3>1, <2>2, <1>3
  <2>4. rs = t
    BY <1>2, <1>4
  <2> QED BY <2>3, <2>4, <1>3
<1>5. CASE GivenUp(r, w) # {}
  <2>1. PICK o : o = SlotOf(roles, w)
    OBVIOUS
  <2>2. o \in Slots /\ GivenUp(r, w) = {o} /\ o # r
    BY <1>0, <1>5, <2>1, SlotFound DEF GivenUp
  <2>3. PICK b : b = <<Role(o, AI)>>
    OBVIOUS
  <2>4. rs = [s \in Slots |-> IF s = o THEN AI ELSE t[s]]
    BY <1>2, <2>2
  <2>5. t \in SlotTable
    BY <1>0, <1>2 DEF SlotTable
  <2>6. b \in Seq(Messages) /\ Tells(b, t, rs)
    <3>1. Role(o, AI) \in Messages
      BY <2>2, TableOnes DEF Messages
    <3>2. b \in Seq(Messages)
      BY <2>3, <3>1
    <3> QED BY <3>2, <2>2, <2>3, <2>4, <2>5, SlotTells
  <2>7. m = a \o b
    BY <1>1, <1>5, <2>1, <2>3, Zenon DEF When
  <2>8. m \in Seq(Messages)
    BY <1>3, <2>6, <2>7, SeqOn, Zenon
  <2> QED BY <1>3, <2>6, <2>7, <2>8, TellsOn, Zenon
<1> QED BY <1>4, <1>5

LEMMA MissedQuiet ==
    ASSUME IInv, NEW p \in Players, NEW rs \in SlotTable, Once(rs)
    PROVE  Missed(p, rs) \in Seq(Quiet)
<1>1. <<State(Transfer)>> \in Seq(Quiet) /\ <<State(LoadIsland)>> \in Seq(Quiet)
  BY QuietOnes, QuietSeqs DEF Transfer, LoadIsland, Phases
<1>2. <<File>> \in Seq(Quiet)
  BY QuietOnes, QuietSeqs, Unfolded, BoundsAssumption
<1>3. <<World(PersonOf(rs, info[p], p)), State(Briefing)>> \in Seq(Quiet)
  <2>1. PersonOf(rs, info[p], p) \in {0} \cup Slots
    BY PersonTyped, Unfolded
  <2> QED BY <2>1, QuietOnes, QuietSeqs DEF Briefing, Phases
<1> QED BY <1>1, <1>2, <1>3, QuietSeqs, Zenon DEF Missed

LEMMA OnClaimSees ==
    ASSUME RInv, IInv', NEW p \in Players, OnClaim(p)
    PROVE  RInv'
<1> DEFINE r  == Head(toServer[p]).slot
           w  == Head(toServer[p]).player
           rs == [s \in Slots |-> IF s = r THEN w ELSE IF s \in GivenUp(r, w) THEN AI ELSE roles[s]]
           m  == <<Role(r, w)>> \o When(GivenUp(r, w) # {}, <<Role(SlotOf(roles, w), AI)>>)
           q  == Send(toClient, Present, m)
<1>0. /\ UNCHANGED <<client, restart, named, reassign>> /\ p \in Present
      /\ r \in Slots /\ w \in Players \cup {AI}
  BY HeardTyped, RequestTyped DEF OnClaim, Heard, RInv, IInv
<1>1. toClient \in [Players -> Seq(Messages)] /\ Present \in SUBSET Players
  BY DEF RInv, SentTyped, Present
<1>2. Kept'
  BY <1>0 DEF RInv, Kept
<1>3. \A o \in Players : info'[o].state # None => info[o].state # None
  <2>1. info' \in {info, [info EXCEPT ![p] = CaughtUp(p, rs)]}
    BY Zenon DEF OnClaim
  <2>2. \A o \in Players : o # p => info'[o] = info[o]
    BY <2>1, Unfolded DEF RInv
  <2> QED BY <1>0, <2>2 DEF Present
<1>4. CASE ~(Open(info[p]) /\ Granted(p, r, w))
  <2>1. UNCHANGED <<roles, toClient>>
    BY <1>4, Zenon DEF OnClaim
  <2> QED BY <1>0, <1>3, <2>1, Unspoken
<1>5. CASE Open(info[p]) /\ Granted(p, r, w)
  <2>1. /\ roles' = rs
        /\ toClient' = Send(q, {p}, Missed(p, rs)) \/ toClient' = q
    BY <1>5, Zenon DEF OnClaim
  <2>2. m \in Seq(Messages) /\ Tells(m, roles, rs)
    BY <1>0, ClaimTells DEF RInv
  <2>3. rs \in SlotTable /\ Once(rs)
    <3>1. roles' \in SlotTable /\ Once(roles')
      BY <1>0, <2>1, OnClaimSlots DEF RInv
    <3> QED BY <2>1, <3>1
  <2> HIDE DEF r, w, rs, m
  <2>4. PICK u : u = q
    OBVIOUS
  <2>5. Moves(toClient, u, Present, roles, rs) /\ u \in [Players -> Seq(Messages)]
    BY <1>1, <2>2, <2>4, MovesSend, Zenon
  <2>6. Moves(u, u, Present, rs, rs)
    BY <2>5, MovesNothing
  <2>7. Missed(p, rs) \in Seq(Quiet)
    BY <2>3, MissedQuiet DEF RInv
  <2>8. PICK n \in Seq(Quiet) : n = Missed(p, rs)
    BY <2>7
  <2>9. n \in Seq(Messages) /\ Tells(n, rs, rs)
    BY QuietSent
  <2>10. Moves(u, Send(u, {p}, n), Present, rs, rs)
    BY <1>1, <2>5, <2>9, MovesSend, Zenon
  <2>11. Moves(u, toClient', Present, rs, rs)
    BY <2>1, <2>4, <2>6, <2>8, <2>10, Zenon
  <2>12. Moves(toClient, toClient', Present, roles, rs)
    BY <2>5, <2>11, MovesOn
  <2>13. Moves(toClient, toClient', Present, roles, roles')
    BY <2>1, <2>12, Zenon
  <2> QED BY <1>0, <1>2, <1>3, <2>13, ServerMoves
<1> QED BY <1>4, <1>5

-----------------------------------------------------------------------------
(* An admin's commands, and the phases.                                    *)

LEMMA DestroyedAbsent ==
    ASSUME NEW i \in [Players -> InfoType]
    PROVE  \A p \in Players : Destroyed(i)[p].state = i[p].state
BY DEF Destroyed, InfoType

LEMMA LobbyAbsent ==
    ASSUME NEW i \in [Players -> InfoType]
    PROVE  \A p \in Players : Lobby(i)[p].state # None => i[p].state # None
BY DEF Lobby

(* A phase begins, and the slots stay.                                     *)
LEMMA PhaseSees ==
    ASSUME RInv, IInv', Kept', NEW s \in ServerPhases, s # PrepareRole,
           NEW i \in {info, Destroyed(info)}, SetGameState(s, roles, i, toClient),
           UNCHANGED <<roles, client>>
    PROVE  RInv'
<1>1. toClient \in [Players -> Seq(Messages)] /\ Present \in SUBSET Players
  BY DEF RInv, SentTyped, Present
<1>2. info \in [Players -> InfoType] /\ i \in [Players -> InfoType]
  BY DestroyedTyped, Unfolded DEF RInv
<1>3. /\ Moves(toClient, toClient', Present, roles, roles)
      /\ \A p \in Players : info'[p].state # None => i[p].state # None
  BY <1>1, <1>2, SetGameStateMoves
<1>4. \A p \in Players : i[p].state = info[p].state
  BY <1>2, DestroyedAbsent
<1> QED BY <1>3, <1>4, ServerMoves

(* All are told the new slots m, which are nobody's, and then the phase.    *)
LEMMA AnewSees ==
    ASSUME RInv, IInv', Kept', UNCHANGED client, roles' = Unassigned,
           NEW m \in Tables, m.roles = Unassigned, m.type \in {"header", "roles"},
           NEW i \in [Players -> InfoType],
           SetGameState(PrepareSide, Unassigned, i, Send(toClient, Present, <<m>>)),
           \A p \in Players : i[p].state # None => info[p].state # None
    PROVE  RInv'
<1>1. toClient \in [Players -> Seq(Messages)] /\ Present \in SUBSET Players
  BY DEF RInv, SentTyped, Present
<1>2. PICK u : u = Unassigned
  OBVIOUS
<1>3. PICK n : n = <<m>>
  OBVIOUS
<1>4. n \in Seq(Messages) /\ Tells(n, roles, u)
  <2>1. n \in Seq(Messages)
    BY <1>3 DEF Messages
  <2>2. Tells(<<m>>, roles, u)
    BY <1>2, TableTells
  <2> QED BY <1>3, <2>1, <2>2
<1>5. PICK q : q = Send(toClient, Present, n)
  OBVIOUS
<1>6. Moves(toClient, q, Present, roles, u) /\ q \in [Players -> Seq(Messages)]
  BY <1>1, <1>4, <1>5, MovesSend, Zenon
<1>7. SetGameState(PrepareSide, u, i, q)
  BY <1>2, <1>3, <1>5, Zenon
<1>8. PrepareSide \in ServerPhases /\ PrepareSide # PrepareRole
  BY DEF ServerPhases, PrepareSide, PrepareRole
<1>9. /\ Moves(q, toClient', Present, u, u)
      /\ \A p \in Players : info'[p].state # None => i[p].state # None
  BY <1>1, <1>6, <1>7, <1>8, SetGameStateMoves
<1>10. Moves(toClient, toClient', Present, roles, roles')
  BY <1>2, <1>6, <1>9, MovesOn
<1> QED BY <1>9, <1>10, ServerMoves

LEMMA BackToLobbySees ==
    ASSUME RInv, IInv', BackToLobby(toClient), UNCHANGED client
    PROVE  RInv'
<1>1. PICK m : m = RolesOnly(Unassigned)
  OBVIOUS
<1>2. m \in Tables /\ m.roles = Unassigned /\ m.type = "roles"
  BY <1>1, TableOnes, UnassignedOnce DEF RolesOnly
<1>3. PICK i : i = Lobby(Destroyed(info))
  OBVIOUS
<1>4. i \in [Players -> InfoType] /\ \A p \in Players : i[p].state # None => info[p].state # None
  <2>1. info \in [Players -> InfoType] /\ Destroyed(info) \in [Players -> InfoType]
    BY DestroyedTyped, Unfolded DEF RInv
  <2> QED BY <1>3, <2>1, LobbyTyped, LobbyAbsent, DestroyedAbsent
<1>5. SetGameState(PrepareSide, Unassigned, i, Send(toClient, Present, <<m>>)) /\ roles' = Unassigned
  BY <1>1, <1>3, Zenon DEF BackToLobby
<1>6. Kept'
  BY DEF BackToLobby, Kept
<1> QED BY <1>2, <1>4, <1>5, <1>6, AnewSees

LEMMA OnOrderSees ==
    ASSUME NoRestart, RInv, IInv', NEW p \in Players, OnOrder(p)
    PROVE  RInv'
<1> DEFINE what == Head(toServer[p]).what
<1>0. UNCHANGED client
  BY DEF OnOrder
<1>1. what # "restart"
  <2>1. Head(toServer[p]) \in Requests /\ Head(toServer[p]).type = "order"
    BY HeardTyped DEF OnOrder, RInv, IInv
  <2>2. Head(toServer[p]) \in [type : {"order"}, what : Orders \cup {"login"}]
    BY <2>1 DEF Requests
  <2> QED BY <2>2 DEF NoRestart
<1>2. CASE what = "login"
  <2>1. UNCHANGED <<restart, reassign, named, roles, info, toClient>>
    BY <1>2 DEF OnOrder
  <2> QED BY <2>1, <1>0, Unspoken
<1>3. CASE what # "login" /\ p = master /\ what = "mission"
  <2>1. /\ UNCHANGED roles /\ named' = TRUE
        /\ UNCHANGED <<info, toClient>> \/ SetGameState(Create, roles, Destroyed(info), toClient)
    BY <1>3 DEF OnOrder
  <2>2. Kept'
    BY <2>1 DEF Kept
  <2>3. CASE UNCHANGED <<info, toClient>>
    <3>1. Moves(toClient, toClient', Present, roles, roles')
      BY <2>1, <2>3, MovesNothing DEF RInv, SentTyped
    <3> QED BY <1>0, <2>2, <2>3, <3>1, ServerMoves
  <2>4. CASE SetGameState(Create, roles, Destroyed(info), toClient)
    BY <1>0, <2>1, <2>2, <2>4, PhaseSees DEF Create, ServerPhases, PrepareRole
  <2> QED BY <2>1, <2>3, <2>4
<1>4. CASE what # "login" /\ p = master /\ what = "reassign"
  <2>1. CASE state = Play
    <3>1. reassign' = TRUE /\ UNCHANGED <<roles, info, toClient>>
      BY <1>4, <2>1 DEF OnOrder
    <3>2. Kept'
      BY <3>1 DEF Kept
    <3>3. Moves(toClient, toClient', Present, roles, roles')
      BY <3>1, MovesNothing DEF RInv, SentTyped
    <3> QED BY <1>0, <3>1, <3>2, <3>3, ServerMoves
  <2>2. CASE state # Play
    <3>1. BackToLobby(toClient)
      BY <1>4, <2>2 DEF OnOrder
    <3> QED BY <1>0, <3>1, BackToLobbySees
  <2> QED BY <2>1, <2>2
<1>5. CASE what # "login" /\ ~(p = master /\ what \in {"mission", "reassign"})
  <2>1. UNCHANGED <<restart, reassign, named, roles, info, toClient>>
    BY <1>1, <1>5 DEF OnOrder
  <2> QED BY <2>1, <1>0, Unspoken
<1> QED BY <1>1, <1>2, <1>3, <1>4, <1>5

LEMMA ChooseMissionSees ==
    ASSUME RInv, IInv', ChooseMission
    PROVE  RInv'
<1>1. PICK m : m = Header(mission', Unassigned)
  OBVIOUS
<1>2. m \in Tables /\ m.roles = Unassigned /\ m.type = "header"
  <2>1. mission' \in Nat
    BY BoundsAssumption, Unfolded DEF RInv, ChooseMission
  <2> QED BY <1>1, <2>1, TableOnes, UnassignedOnce DEF Header
<1>3. PICK i : i = [p \in Players |-> [Lobby(info)[p] EXCEPT !.valid = FALSE]]
  OBVIOUS
<1>4. i \in [Players -> InfoType] /\ \A p \in Players : i[p].state # None => info[p].state # None
  <2>1. info \in [Players -> InfoType] /\ Lobby(info) \in [Players -> InfoType]
    BY LobbyTyped, Unfolded DEF RInv
  <2>2. i \in [Players -> InfoType]
    BY <1>3, <2>1, WithValid
  <2>3. \A p \in Players : i[p].state = Lobby(info)[p].state
    <3>1. PICK l \in [Players -> InfoType] : l = Lobby(info)
      BY <2>1
    <3>2. i = [p \in Players |-> [l[p] EXCEPT !.valid = FALSE]]
      BY <1>3, <3>1, Zenon
    <3> QED BY <3>1, <3>2 DEF InfoType
  <2> QED BY <2>1, <2>2, <2>3, LobbyAbsent
<1>5. SetGameState(PrepareSide, Unassigned, i, Send(toClient, Present, <<m>>))
  BY <1>1, <1>3, Zenon DEF ChooseMission
<1>6. roles' = Unassigned /\ UNCHANGED client
  BY DEF ChooseMission
<1>7. Kept'
  <2>1. restart' = (restart /\ ~named) /\ reassign' = (reassign /\ ~named)
    BY DEF ChooseMission
  <2> QED BY <2>1 DEF RInv, Kept
<1> QED BY <1>2, <1>4, <1>5, <1>6, <1>7, AnewSees

LEMMA LaunchSees ==
    ASSUME RInv, IInv', Launch
    PROVE  RInv'
<1>1. PICK to : to = Hearers(Transfer, roles, info)
  OBVIOUS
<1>2. PICK for : for = {p \in Players : info'[p].state >= Transfer /\ ~info'[p].valid}
  OBVIOUS
<1>3. PICK a : a = <<State(Transfer)>>
  OBVIOUS
<1>4. PICK b : b = <<File>>
  OBVIOUS
<1>5. toClient' = Send(Send(toClient, to, a), for, b)
  BY <1>1, <1>2, <1>3, <1>4, Zenon DEF Launch
<1>6. a \in Seq(Messages) /\ Tells(a, roles, roles)
  <2>1. a \in Seq(Quiet)
    BY <1>3, QuietOnes, QuietSeqs DEF Transfer, Phases
  <2> QED BY <2>1, QuietSent
<1>7. b \in Seq(Messages) /\ Tells(b, roles, roles)
  <2>1. b \in Seq(Quiet)
    BY <1>4, QuietOnes, QuietSeqs, Unfolded, BoundsAssumption DEF RInv
  <2> QED BY <2>1, QuietSent
<1>8. toClient \in [Players -> Seq(Messages)] /\ Present \in SUBSET Players
  BY DEF RInv, SentTyped, Present
<1>9. PICK q : q = Send(toClient, to, a)
  OBVIOUS
<1>10. Moves(toClient, q, Present, roles, roles) /\ q \in [Players -> Seq(Messages)]
  BY <1>6, <1>8, <1>9, MovesSend, Zenon
<1>11. Moves(q, Send(q, for, b), Present, roles, roles)
  BY <1>7, <1>8, <1>10, MovesSend, Zenon
<1>12. Moves(q, toClient', Present, roles, roles)
  BY <1>5, <1>9, <1>11, Zenon
<1>13. UNCHANGED <<roles, client>> /\ restart' = FALSE /\ info' = Follow(Transfer, roles, info)
  BY DEF Launch
<1>14. Moves(toClient, toClient', Present, roles, roles')
  BY <1>10, <1>12, <1>13, MovesOn
<1>15. \A p \in Players : info'[p].state # None => info[p].state # None
  BY <1>13 DEF Follow, Hearers
<1>16. Kept'
  BY <1>13 DEF Kept
<1> QED BY <1>13, <1>14, <1>15, <1>16, ServerMoves

LEMMA SimulateSees ==
    ASSUME RInv, IInv', SimulateDS
    PROVE  RInv'
<1>0. ASSUME UNCHANGED <<restart, named, reassign>>
      PROVE  Kept'
  BY <1>0 DEF RInv, Kept
<1>p. {Create, LoadIsland, Play, Debriefing, Briefing} \subseteq ServerPhases \ {PrepareRole}
  BY DEF ServerPhases, Create, LoadIsland, Play, Debriefing, Briefing, PrepareRole
<1>1. CASE NobodyLeft \/ MissNamed
  <2>1. restart' = FALSE /\ UNCHANGED <<roles, client, toClient, info>>
    BY <1>1 DEF NobodyLeft, MissNamed
  <2>2. Kept'
    BY <2>1 DEF Kept
  <2>3. Moves(toClient, toClient', Present, roles, roles')
    BY <2>1, MovesNothing DEF RInv, SentTyped
  <2> QED BY <2>1, <2>2, <2>3, ServerMoves
<1>2. CASE TransferDone
  <2>1. SetGameState(LoadIsland, roles, info, toClient) /\ UNCHANGED <<roles, client, restart, named, reassign>>
    BY <1>2 DEF TransferDone
  <2> QED BY <2>1, <1>0, <1>p, PhaseSees
<1>3. CASE StartPlay
  <2>1. SetGameState(Play, roles, info, toClient) /\ UNCHANGED <<roles, client, restart, named, reassign>>
    BY <1>3 DEF StartPlay
  <2> QED BY <2>1, <1>0, <1>p, PhaseSees
<1>4. CASE EndPlay
  <2>1. SetGameState(Debriefing, roles, Destroyed(info), toClient) /\ UNCHANGED <<roles, client, restart, named, reassign>>
    BY <1>4 DEF EndPlay
  <2> QED BY <2>1, <1>0, <1>p, PhaseSees
<1>5. CASE Load
  <2>1. /\ SetGameState(Create, roles, info, toClient) \/ UNCHANGED <<info, toClient>>
        /\ UNCHANGED <<roles, client, restart, named, reassign>>
    BY <1>5 DEF Load
  <2>2. CASE SetGameState(Create, roles, info, toClient)
    BY <2>1, <2>2, <1>0, <1>p, PhaseSees
  <2>3. CASE UNCHANGED <<info, toClient>>
    BY <2>1, <2>3, Unspoken
  <2> QED BY <2>1, <2>2, <2>3
<1>6. CASE LeaveDebriefing
  <2>1. CASE restart /\ reassign
    BY <1>6, <2>1, BackToLobbySees DEF LeaveDebriefing
  <2>2. CASE ~(restart /\ reassign)
    <3>1. ~(restart /\ ~named)
      BY <2>2 DEF RInv, Kept
    <3>2. SetGameState(Create, roles, info, toClient) /\ UNCHANGED <<roles, client, restart, named, reassign>>
      BY <1>6, <2>2, <3>1 DEF LeaveDebriefing
    <3> QED BY <3>2, <1>0, <1>p, PhaseSees
  <2> QED BY <2>1, <2>2
<1> QED BY <1>1, <1>2, <1>3, <1>4, <1>5, <1>6, ChooseMissionSees, LaunchSees DEF SimulateDS

-----------------------------------------------------------------------------
(* The clients.                                                            *)

LEMMA SameOn ==
    ASSUME NEW c, NEW d, NEW e, SameIn(c, d), SameIn(d, e)
    PROVE  SameIn(c, e)
BY DEF SameIn

LEMMA PreparedSame ==
    ASSUME NEW c, Slotted(c)
    PROVE  SameIn(c, Prepared(c))
BY Others, Zenon DEF Prepared

(* The server's phase changes nothing of the slots.                        *)
LEMMA FollowedSame ==
    ASSUME NEW c, Slotted(c), NEW s, NEW p
    PROVE  SameIn(c, Followed(c, s, p))
<1>1. \A x : SameIn(c, [c EXCEPT !.state = x])
  BY Others, Zenon
<1>2. SameIn(c, c) /\ SameIn(c, Prepared(c))
  BY Others, PreparedSame, Zenon
<1>3. \/ Followed(c, s, p) = c
      \/ Followed(c, s, p) = Prepared(c)
      \/ \E x : Followed(c, s, p) = [c EXCEPT !.state = x]
  <2> DEFINE a == s \in {PrepareRole, PrepareOK}
             u == s = Debriefing
             v == s = Transfer
             w == s = LoadIsland
             y == s = Briefing
             z == s = Play
  <2>1. a => Followed(c, s, p) = c
    BY DEF Followed, PrepareRole, PrepareOK, Debriefing, Transfer, LoadIsland, Briefing, Play
  <2>2. u => Followed(c, s, p) = IF c.state >= Debriefing THEN [c EXCEPT !.state = s] ELSE c
    BY DEF Followed, PrepareRole, PrepareOK, Debriefing, Transfer, LoadIsland, Briefing, Play
  <2>3. v => Followed(c, s, p) = IF c.state < LoadIsland /\ Mine(c, p) THEN [c EXCEPT !.state = s] ELSE c
    BY DEF Followed, PrepareRole, PrepareOK, Debriefing, Transfer, LoadIsland, Briefing, Play
  <2>4. w => Followed(c, s, p) = IF ~Mine(c, p) THEN c
                                 ELSE IF c.state >= LoadIsland THEN [c EXCEPT !.state = s]
                                 ELSE IF c.valid /\ Prepares(c, p) THEN Prepared(c)
                                 ELSE [c EXCEPT !.state = Largest(@, PrepareSide)]
    BY DEF Followed, PrepareRole, PrepareOK, Debriefing, Transfer, LoadIsland, Briefing, Play
  <2>5. y => Followed(c, s, p) = IF c.state >= LoadIsland THEN [c EXCEPT !.state = s] ELSE c
    BY DEF Followed, PrepareRole, PrepareOK, Debriefing, Transfer, LoadIsland, Briefing, Play
  <2>6. z => Followed(c, s, p) = IF \/ c.state = Briefing
                                    \/ c.jip /\ Jip /\ c.state >= LoadIsland
                                 THEN [c EXCEPT !.state = s] ELSE c
    BY DEF Followed, PrepareRole, PrepareOK, Debriefing, Transfer, LoadIsland, Briefing, Play
  <2>7. ~(a \/ u \/ v \/ w \/ y \/ z) => Followed(c, s, p) = [c EXCEPT !.state = s]
    BY DEF Followed
  <2> HIDE DEF a, u, v, w, y, z
  <2> QED BY <2>1, <2>2, <2>3, <2>4, <2>5, <2>6, <2>7, Zenon
<1> QED BY <1>1, <1>2, <1>3, Zenon

(* A message without slots is read.                                        *)
LEMMA QuietRead ==
    ASSUME RInv, IInv', UNCHANGED <<serverVars, info>>, NEW p \in Players, NEW type, Receives(p, type),
           type \notin {"header", "roles", "role"}, DOMAIN client' = Players,
           \A o \in Players : o # p => client'[o] = client[o],
           SameIn(client[p], client'[p])
    PROVE  RInv'
<1>1. /\ toClient[p] # <<>> /\ Head(toClient[p]).type = type
      /\ toClient' = [toClient EXCEPT ![p] = Tail(@)]
  BY DEF Receives
<1>2. PICK m : m = Head(toClient[p])
  OBVIOUS
<1>3. Applied(client[p].roles, m) = client[p].roles
  BY <1>1, <1>2 DEF Applied
<1>4. client'[p].roles = Applied(client[p].roles, Head(toClient[p]))
  BY <1>2, <1>3 DEF SameIn
<1>5. Slotted(client'[p]) /\ client'[p].head = client[p].head
  BY DEF SameIn
<1> QED BY <1>1, <1>4, <1>5, ClientReads

LEMMA ReceiveStateSees ==
    ASSUME RInv, IInv', NEW p \in Players, ReceiveState(p)
    PROVE  RInv'
<1> DEFINE s == Head(toClient[p]).to
           c == client[p]
           d == [c EXCEPT !.srv = s]
<1>1. Receives(p, "state") /\ UNCHANGED <<serverVars, info>>
  BY DEF ReceiveState
<1>2. client' = client \/ client' = [client EXCEPT ![p] = Followed(d, s, p)]
  BY Zenon DEF ReceiveState
<1>3. Slotted(c) /\ SameIn(c, d) /\ SameIn(c, c)
  BY Others DEF RInv, HaveSlots
<1>4. SameIn(d, Followed(d, s, p))
  <2>1. Slotted(d)
    BY <1>3 DEF SameIn
  <2> QED BY <2>1, FollowedSame, Zenon
<1>5. SameIn(c, Followed(d, s, p))
  BY <1>3, <1>4, SameOn, Zenon
<1>6. PICK e : e = Followed(d, s, p)
  OBVIOUS
<1>7. client' = client \/ client' = [client EXCEPT ![p] = e]
  BY <1>2, <1>6, Zenon
<1>8. SameIn(c, e)
  BY <1>5, <1>6, Zenon
<1> HIDE DEF s, d
<1>9. /\ DOMAIN client' = Players
      /\ \A o \in Players : o # p => client'[o] = client[o]
      /\ client'[p] = c \/ client'[p] = e
  BY <1>7 DEF RInv, HaveSlots
<1>10. SameIn(c, client'[p])
  BY <1>3, <1>8, <1>9, Zenon
<1> QED BY <1>1, <1>9, <1>10, QuietRead

LEMMA ReceiveHeaderSees ==
    ASSUME RInv, IInv', NEW p \in Players, ReceiveHeader(p)
    PROVE  RInv'
<1>1. /\ toClient[p] # <<>> /\ Head(toClient[p]).type = "header"
      /\ toClient' = [toClient EXCEPT ![p] = Tail(@)] /\ UNCHANGED <<serverVars, info>>
  BY DEF ReceiveHeader, Receives
<1>2. PICK m : m = Head(toClient[p])
  OBVIOUS
<1>3. PICK valid : client' = [client EXCEPT ![p] = [client[p] EXCEPT !.head = m.mission, !.roles = m.roles,
                                                                    !.valid = valid]]
  BY <1>2, Zenon DEF ReceiveHeader
<1>4. client'[p].roles = m.roles /\ Slotted(client'[p]) /\ DOMAIN client' = Players
  BY <1>3 DEF RInv, HaveSlots, Slotted
<1>5. \A o \in Players : o # p => client'[o] = client[o]
  BY <1>3 DEF RInv, HaveSlots
<1>6. Applied(client[p].roles, m) = m.roles
  BY <1>1, <1>2 DEF Applied
<1>7. client'[p].roles = Applied(client[p].roles, Head(toClient[p]))
  BY <1>2, <1>4, <1>6
<1> QED BY <1>1, <1>4, <1>5, <1>7, ClientReads

LEMMA ReceiveRoleSees ==
    ASSUME RInv, IInv', NEW p \in Players, ReceiveRole(p)
    PROVE  RInv'
<1>1. /\ toClient[p] # <<>> /\ Head(toClient[p]).type \in {"role", "roles"}
      /\ toClient' = [toClient EXCEPT ![p] = Tail(@)] /\ UNCHANGED <<serverVars, info>>
  BY DEF ReceiveRole, Receives
<1>2. PICK m : m = Head(toClient[p])
  OBVIOUS
<1>3. PICK t : t = client[p].roles
  OBVIOUS
<1>4. PICK rs : client' = [client EXCEPT ![p].roles = rs] /\ rs = Applied(t, m)
  <2>1. CASE m.type = "role"
    <3>1. client' = [client EXCEPT ![p].roles =
                    [r \in DOMAIN @ \cup {m.slot} |-> IF r = m.slot THEN m.player ELSE @[r]]]
      BY <1>2, <2>1, Zenon DEF ReceiveRole, Receives
    <3>2. client' = [client EXCEPT ![p].roles =
                    [r \in DOMAIN t \cup {m.slot} |-> IF r = m.slot THEN m.player ELSE t[r]]]
      BY <1>3, <3>1, Zenon
    <3>3. Applied(t, m) = [r \in DOMAIN t \cup {m.slot} |-> IF r = m.slot THEN m.player ELSE t[r]]
      BY <2>1 DEF Applied
    <3> QED BY <3>2, <3>3, Zenon
  <2>2. CASE m.type = "roles"
    <3>1. client' = [client EXCEPT ![p].roles = m.roles]
      BY <1>2, <2>2, Zenon DEF ReceiveRole, Receives
    <3>2. Applied(t, m) = m.roles
      BY <2>2 DEF Applied
    <3> QED BY <3>1, <3>2, Zenon
  <2> QED BY <1>1, <1>2, <2>1, <2>2
<1>5. /\ client'[p].roles = rs /\ client'[p].head = client[p].head
      /\ Slotted(client'[p]) /\ DOMAIN client' = Players
  BY <1>4 DEF RInv, HaveSlots, Slotted
<1>6. \A o \in Players : o # p => client'[o] = client[o]
  BY <1>4 DEF RInv, HaveSlots
<1>7. client'[p].roles = Applied(client[p].roles, Head(toClient[p]))
  BY <1>2, <1>3, <1>4, <1>5
<1> QED BY <1>1, <1>5, <1>6, <1>7, ClientReads

(* The file, the player's number, his identity, the world, the time.       *)
LEMMA ReceiveFileSees ==
    ASSUME RInv, IInv', NEW p \in Players, ReceiveFile(p)
    PROVE  RInv'
<1> DEFINE c == [client[p] EXCEPT !.valid = TRUE]
           d == Prepared(c)
           f == [Prepared(c) EXCEPT !.state = Briefing]
<1>1. Receives(p, "file") /\ UNCHANGED <<serverVars, info>>
  BY DEF ReceiveFile
<1>2. \/ client' = [client EXCEPT ![p] = c] \/ client' = [client EXCEPT ![p] = d]
      \/ client' = [client EXCEPT ![p] = f]
  BY Zenon DEF ReceiveFile
<1>3. SameIn(client[p], c) /\ Slotted(c)
  BY Others DEF RInv, HaveSlots, SameIn
<1>4. SameIn(c, d) /\ Slotted(d)
  BY <1>3, PreparedSame DEF SameIn
<1>5. SameIn(d, f)
  BY <1>4, Others, Zenon
<1>6. SameIn(client[p], d)
  BY <1>3, <1>4, SameOn, Zenon
<1>7. SameIn(client[p], f)
  BY <1>5, <1>6, SameOn, Zenon
<1> HIDE DEF c, d, f
<1>8. PICK e \in {c, d, f} : client' = [client EXCEPT ![p] = e]
  BY <1>2
<1>9. SameIn(client[p], e)
  BY <1>3, <1>6, <1>7
<1>10. /\ DOMAIN client' = Players /\ client'[p] = e
       /\ \A o \in Players : o # p => client'[o] = client[o]
  BY <1>8 DEF RInv, HaveSlots
<1>11. SameIn(client[p], client'[p])
  BY <1>9, <1>10, Zenon
<1> QED BY <1>1, <1>10, <1>11, QuietRead

LEMMA ReceiveOtherSees ==
    ASSUME RInv, IInv', NEW p \in Players, ReceivePlayer(p) \/ ReceiveOther(p)
    PROVE  RInv'
<1>1. UNCHANGED <<serverVars, info>> /\ \E type \in {"player", "identity", "time", "world"} : Receives(p, type)
  BY DEF ReceivePlayer, ReceiveOther
<1>2. \/ client' = client
      \/ client' = [client EXCEPT ![p].ident = TRUE] \/ client' = [client EXCEPT ![p].jip = TRUE]
      \/ \E x : client' = [client EXCEPT ![p].person = x]
  BY Zenon DEF ReceivePlayer, ReceiveOther
<1>3. PICK d : /\ SameIn(client[p], d)
               /\ client' = client \/ client' = [client EXCEPT ![p] = d]
  <2>1. Slotted(client[p])
    BY DEF RInv, HaveSlots
  <2>2. PICK c : c = client[p]
    OBVIOUS
  <2>3. \A x : /\ SameIn(c, c) /\ SameIn(c, [c EXCEPT !.ident = x]) /\ SameIn(c, [c EXCEPT !.jip = x])
               /\ SameIn(c, [c EXCEPT !.person = x])
    BY <2>1, <2>2, Others, Zenon
  <2>4. \/ client' = client
        \/ client' = [client EXCEPT ![p] = [c EXCEPT !.ident = TRUE]]
        \/ client' = [client EXCEPT ![p] = [c EXCEPT !.jip = TRUE]]
        \/ \E x : client' = [client EXCEPT ![p] = [c EXCEPT !.person = x]]
    BY <1>2, <2>2, Zenon
  <2> QED BY <2>2, <2>3, <2>4, Zenon
<1>4. /\ client'[p] = d \/ client'[p] = client[p]
      /\ \A o \in Players : o # p => client'[o] = client[o]
  BY <1>3 DEF RInv, HaveSlots
<1>5. DOMAIN client' = Players
  BY <1>3 DEF RInv, HaveSlots
<1>6. SameIn(client[p], client'[p])
  <2>1. SameIn(client[p], client[p])
    BY Others DEF RInv, HaveSlots
  <2> QED BY <1>3, <1>4, <2>1, Zenon
<1> QED BY <1>1, <1>4, <1>5, <1>6, QuietRead

LEMMA ClientMessageSees ==
    ASSUME RInv, IInv', NEW p \in Players, ClientMessage(p)
    PROVE  RInv'
BY ReceiveStateSees, ReceiveHeaderSees, ReceiveRoleSees, ReceiveFileSees, ReceiveOtherSees DEF ClientMessage

-----------------------------------------------------------------------------
(* The displays.                                                           *)

(* A frame of a display changes the screen, or who the player is.          *)
LEMMA ScreenSees ==
    ASSUME RInv, IInv', UNCHANGED <<serverVars, info, toClient>>, NEW p \in Players, NEW x,
           \/ client' = client
           \/ client' = [client EXCEPT ![p].screen = x]
           \/ client' = [client EXCEPT ![p] = [@ EXCEPT !.screen = x, !.person = 0]]
    PROVE  RInv'
<1>1. PICK c : c = client[p]
  OBVIOUS
<1>2. Slotted(c)
  BY <1>1 DEF RInv, HaveSlots
<1>3. SameIn(c, c) /\ SameIn(c, [c EXCEPT !.screen = x]) /\ SameIn(c, [c EXCEPT !.screen = x, !.person = 0])
  BY <1>2, Others, Zenon
<1>4. \/ client' = client
      \/ client' = [client EXCEPT ![p] = [c EXCEPT !.screen = x]]
      \/ client' = [client EXCEPT ![p] = [c EXCEPT !.screen = x, !.person = 0]]
  BY <1>1, Zenon
<1>5. PICK d : SameIn(c, d) /\ (client' = client \/ client' = [client EXCEPT ![p] = d])
  BY <1>3, <1>4, Zenon
<1>6. DOMAIN client' = Players
  BY <1>5 DEF RInv, HaveSlots
<1>7. \A o \in Players : client'[o] = client[o] \/ (o = p /\ client'[o] = d)
  BY <1>5 DEF RInv, HaveSlots
<1>8. \A o \in Players : SameIn(client[o], client[o])
  BY Others DEF RInv, HaveSlots
<1>9. \A o \in Players : SameIn(client[o], client'[o])
  BY <1>1, <1>5, <1>7, <1>8, Zenon
<1> QED BY <1>6, <1>9, ClientStays

LEMMA DisplaysSee ==
    ASSUME RInv, IInv', NEW p \in Players, Displays(p) \/ LeaveMission(p)
    PROVE  RInv'
<1>1. UNCHANGED <<serverVars, info, toClient>>
  BY DEF Displays, EnterSetup, LeaveSetup, LeaveGetReady, LeaveDebriefingDisplay, LeaveWait, LeaveMission, Frame
<1>2. CASE EnterSetup(p) \/ LeaveDebriefingDisplay(p) \/ LeaveWait(p)
  BY <1>1, <1>2, ScreenSees DEF EnterSetup, LeaveDebriefingDisplay, LeaveWait, Show
<1>3. CASE LeaveSetup(p)
  <2>1. \E x : client' = [client EXCEPT ![p].screen = x]
    BY <1>3, Zenon DEF LeaveSetup, Show
  <2> QED BY <1>1, <2>1, ScreenSees
<1>4. CASE LeaveGetReady(p)
  <2>1. \/ client' = [client EXCEPT ![p].screen = "mission"]
        \/ client' = [client EXCEPT ![p] = [@ EXCEPT !.screen = "wait", !.person = 0]]
    BY <1>4, Zenon DEF LeaveGetReady, Show
  <2> QED BY <1>1, <2>1, ScreenSees
<1>5. CASE LeaveMission(p)
  BY <1>1, <1>5, ScreenSees DEF LeaveMission
<1> QED BY <1>2, <1>3, <1>4, <1>5 DEF Displays

LEMMA ButtonsSee ==
    ASSUME RInv, IInv', NEW p \in Players, Buttons(p)
    PROVE  RInv'
<1>1. UNCHANGED <<serverVars, info, toClient>>
  BY DEF Buttons, ClickSlot, DragPlayer, PressOK, PressLaunch, PressContinue, PressAgain, Frame
<1>2. UNCHANGED client \/ \E x : client' = [client EXCEPT ![p].screen = x]
  BY DEF Buttons, ClickSlot, DragPlayer, PressOK, PressLaunch, PressContinue, PressAgain, Show
<1> QED BY <1>1, <1>2, ScreenSees

LEMMA GiveOrderSees ==
    ASSUME RInv, IInv', NEW p \in Players, NEW what, GiveOrder(p, what)
    PROVE  RInv'
BY ScreenSees DEF GiveOrder

-----------------------------------------------------------------------------
LEMMA InitiallySeen == Init => RInv
<1> SUFFICES ASSUME Init PROVE RInv
  OBVIOUS
<1>1. IInv
  BY Initially
<1>2. SentTyped
  BY DEF Init, SentTyped
<1>3. HaveSlots
  BY DEF Init, HaveSlots, Slotted, NewClient
<1>4. Seen
  BY DEF Init, Seen, Present, Absent
<1>5. Kept
  BY DEF Init, Kept
<1> QED BY <1>1, <1>2, <1>3, <1>4, <1>5 DEF RInv

LEMMA SeenInductive == NoRestart /\ RInv /\ [Next]_vars => RInv'
<1> SUFFICES ASSUME NoRestart, RInv, [Next]_vars PROVE RInv'
  OBVIOUS
<1>0. IInv'
  BY Inductive DEF RInv
<1>1. CASE UNCHANGED vars
  <2>1. UNCHANGED <<roles, client, toClient, restart, named, reassign, info>>
    BY <1>1 DEF vars, serverVars
  <2> QED BY <1>0, <2>1, Unspoken
<1>2. CASE OnReadyBot \/ SimulateDS
  BY <1>0, <1>2, OnReadyBotSees, SimulateSees
<1>3. ASSUME NEW p \in Players, ServerMessage(p)
      PROVE  RInv'
  BY <1>0, <1>3, OnLoginSees, OnAskMissionFileSees, OnReadySees, OnReadyBriefingSees, OnClaimSees, OnOrderSees
     DEF ServerMessage
<1>4. ASSUME NEW p \in Players,
             \/ Join(p) \/ Leave(p) \/ ClientMessage(p) \/ Displays(p) \/ Buttons(p) \/ LeaveMission(p)
             \/ \E what \in Orders \cup {"login"} : GiveOrder(p, what)
      PROVE  RInv'
  BY <1>0, <1>4, JoinSees, LeaveSees, ClientMessageSees, DisplaysSee, ButtonsSee, GiveOrderSees
<1> QED BY <1>1, <1>2, <1>3, <1>4 DEF Next

(* What is under way to a client leads it to the slots the server has, in every
   phase and whoever moves meanwhile.                                        *)
THEOREM RolesLead ==
    ASSUME NoRestart
    PROVE  Spec => []RInv
<1>1. RInv /\ [Next]_vars => RInv'
  BY SeenInductive
<1> QED BY <1>1, InitiallySeen, PTL DEF Spec

(* A client that has a mission's header and has read all it was sent knows the
   slots as the server does: the header OnLogin or the greeting sends, and the
   changes that follow it, never leave it with somebody's old slot.          *)
THEOREM RolesKnown ==
    ASSUME NoRestart
    PROVE  Spec => []RolesSeen
<1>1. RInv => RolesSeen
  <2> SUFFICES ASSUME RInv, NEW p \in Present, toClient[p] = <<>>, client[p].head # 0
               PROVE  client[p].roles = roles
    BY DEF RolesSeen
  <2>1. PICK c : c = client[p]
    OBVIOUS
  <2>2. SeenIn(c, <<>>, roles)
    BY <2>1 DEF RInv, Seen
  <2> QED BY <2>1, <2>2, SeenAll
<1> QED BY <1>1, RolesLead, PTL
=============================================================================
