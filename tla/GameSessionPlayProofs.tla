------------------------ MODULE GameSessionPlayProofs ------------------------
(***************************************************************************)
(* Proofs about GameSession: whom the server takes to be playing plays, in *)
(* a unit (PlayersMirror), in a session without admins.                    *)
(*                                                                         *)
(* The property speaks of a moment when nothing is under way between the   *)
(* server and the player.  The invariant that carries it speaks of all the *)
(* others, player by player, and has three parts: what the server and the  *)
(* client may be at together, with the display on top of the client        *)
(* (Core); what the player's own messages still say, in which order        *)
(* (Reports); and where what is under way to the client leads it (Led):    *)
(* every message finds the client in a phase in which it is heeded, and    *)
(* the last of them leaves it where the server has the player.             *)
(***************************************************************************)
EXTENDS GameSessionPlayerProofs

USE DEF Phases, ServerPhases, None, Creating, Create, LoggedIn, PrepareSide, PrepareRole, PrepareOK,
        Debriefing, DebriefingOK, Transfer, LoadIsland, Briefing, Play

-----------------------------------------------------------------------------
(* A change of the phase, player by player.                                *)

LEMMA MirroredParts ==
    ASSUME NEW s \in ServerPhases, NEW x \in InfoType, NEW h
    PROVE  /\ Mirrored(s, x, h).jip = x.jip
           /\ x.state # None => Mirrored(s, x, h).state # None
           /\ s # PrepareRole => Mirrored(s, x, h).valid = x.valid /\ Mirrored(s, x, h).ident = x.ident
BY DEF Mirrored, InfoType, Returned

LEMMA PhaseEach ==
    ASSUME NEW s \in ServerPhases, s # PrepareRole, NEW rs, NEW i \in [Players -> InfoType], NEW q,
           SetGameState(s, rs, i, q), NEW o \in Players, NEW x, x = Reclassified(s, rs, i)[o],
           NEW h, h = Holds(rs, o), NEW c, c = (x.state # None /\ Hears(s, x, h))
    PROVE  /\ info'[o] = IF c THEN Mirrored(s, x, h) ELSE x
           /\ toClient'[o] = IF c THEN q[o] \o <<State(s)>> ELSE q[o]
<1>1. PICK j : j = Reclassified(s, rs, i)
  OBVIOUS
<1>2. info' = Follow(s, rs, j) /\ toClient' = Send(q, Hearers(s, rs, j), <<State(s)>>)
  <2>1. \E d \in {q} : toClient' = Send(d, Hearers(s, rs, j), <<State(s)>>)
    BY <1>1, Zenon DEF SetGameState
  <2>2. info' = Follow(s, rs, j)
    BY <1>1, Zenon DEF SetGameState
  <2> QED BY <2>1, <2>2
<1>3. x = j[o]
  BY <1>1
<1>4. o \in Hearers(s, rs, j) <=> c
  BY <1>3 DEF Hearers
<1> QED BY <1>2, <1>3, <1>4 DEF Follow, Send

(* A player that has been there since before the mission, and plays if it is
   the play that begins.                                                     *)
LEMMA PhaseFollows ==
    ASSUME NEW s \in ServerPhases, s # PrepareRole, NEW rs, NEW i \in [Players -> InfoType], NEW q,
           SetGameState(s, rs, i, q), NEW o \in Players, NEW x, x = i[o], x.state # None, ~x.jip,
           NEW h, h = Holds(rs, o), s = Play => h, NEW c, c = (h \/ s < Transfer)
    PROVE  /\ info'[o] = IF c THEN Mirrored(s, x, h) ELSE x
           /\ toClient'[o] = IF c THEN q[o] \o <<State(s)>> ELSE q[o]
<1>1. Reclassified(s, rs, i)[o] = x
  BY DEF Reclassified
<1>2. c = (x.state # None /\ Hears(s, x, h))
  BY DEF Hears
<1> QED BY <1>1, <1>2, PhaseEach

LEMMA PhaseStays ==
    ASSUME NEW s \in ServerPhases, s # PrepareRole, NEW rs, NEW i \in [Players -> InfoType], NEW q,
           SetGameState(s, rs, i, q), NEW o \in Players
    PROVE  /\ i[o].state # None => info'[o].state # None
           /\ info'[o].state # None /\ ~info'[o].jip =>
                 i[o].state # None /\ ~i[o].jip /\ (s = Play /\ Jip => Holds(rs, o))
<1>0. PICK y \in InfoType : y = i[o]
  OBVIOUS
<1>1. PICK x : x = Reclassified(s, rs, i)[o]
  OBVIOUS
<1>2. PICK h : h = Holds(rs, o)
  OBVIOUS
<1>3. PICK g : g = (s = Play /\ Jip /\ y.state # None /\ ~y.jip /\ ~h)
  OBVIOUS
<1>4. PICK z : z = [y EXCEPT !.jip = TRUE, !.state = Create]
  OBVIOUS
<1>5. x = IF g THEN z ELSE y
  BY <1>0, <1>1, <1>2, <1>3, <1>4 DEF Reclassified
<1>6. z \in InfoType /\ z.jip = TRUE /\ z.state = Create
  BY <1>4 DEF InfoType
<1>7. x \in InfoType
  BY <1>5, <1>6
<1>8. PICK c : c = (x.state # None /\ Hears(s, x, h))
  OBVIOUS
<1>9. info'[o] = IF c THEN Mirrored(s, x, h) ELSE x
  BY <1>1, <1>2, <1>8, PhaseEach
<1>10. info'[o].jip = x.jip /\ (x.state # None => info'[o].state # None)
  BY <1>7, <1>9, MirroredParts
<1>11. x.state = None => info'[o] = x
  BY <1>8, <1>9
<1>12. y.state # None => x.state # None
  BY <1>5, <1>6
<1>13. ~x.jip => ~g
  BY <1>5, <1>6
<1>14. x.state # None /\ ~x.jip => y.state # None /\ ~y.jip /\ (s = Play /\ Jip => h)
  BY <1>3, <1>5, <1>6
<1> QED BY <1>0, <1>2, <1>10, <1>11, <1>12, <1>14

LEMMA NoneHolds ==
    ASSUME NEW o \in Players
    PROVE  ~Holds(Unassigned, o)
BY PlayersAssumption DEF Holds, Unassigned

(* Who leaves holds nothing any more.                                      *)
LEMMA LeaversHoldNothing ==
    ASSUME IInv, NEW p \in Players, Leave(p)
    PROVE  ~Holds(roles', p)
<1>1. CASE Holds(roles, p)
  <2>1. PICK r : r = SlotOf(roles, p)
    OBVIOUS
  <2>2. roles' = [roles EXCEPT ![r] = AI]
    BY <1>1, <2>1, Zenon DEF Leave
  <2>3. r \in Slots /\ roles[r] = p
    BY <1>1, <2>1, SlotFound, Unfolded
  <2> QED BY <2>2, <2>3, PlayersAssumption, Unfolded DEF Holds, Once, SlotTable
<1>2. CASE ~Holds(roles, p)
  BY <1>2, Zenon DEF Leave
<1> QED BY <1>1, <1>2

LEMMA MannedKept ==
    ASSUME Session, Around, Next
    PROVE  Manned'
<1>0. /\ Manned /\ info \in [Players -> InfoType] /\ roles \in SlotTable /\ state \in ServerPhases
      /\ mission \in 0 .. MaxMissions
  BY Unfolded DEF Around
<1>1. ASSUME UNCHANGED roles, \A o \in Players : info[o].state # None => info'[o].state # None
      PROVE  Manned'
  BY <1>0, <1>1 DEF Manned
<1>2. ASSUME NEW s \in ServerPhases, s # PrepareRole, NEW i \in [Players -> InfoType], NEW q,
             SetGameState(s, roles, i, q), \A o \in Players : info[o].state # None => i[o].state # None,
             UNCHANGED roles
      PROVE  Manned'
  BY <1>1, <1>2, PhaseStays
<1>3. ASSUME roles' = Unassigned
      PROVE  Manned'
  BY <1>3, NoneHolds DEF Manned
<1>4. CASE OnReadyBot
  <2>1. PICK i : i = [o \in Players |-> IF o \in Present
                                        THEN [info[o] EXCEPT !.person = PersonOf(roles, info[o], o)]
                                        ELSE info[o]]
    OBVIOUS
  <2>2. \E q : SetGameState(Briefing, roles, i, q)
    BY <1>4, <2>1, Zenon DEF OnReadyBot
  <2>3. \A o \in Players : PersonOf(roles, info[o], o) \in {0} \cup Slots
    BY <1>0, PersonTyped, Unfolded DEF Around
  <2>4. i \in [Players -> InfoType] /\ \A o \in Players : i[o].state = info[o].state
    BY <1>0, <2>1, <2>3 DEF InfoType
  <2>5. UNCHANGED roles
    BY <1>4 DEF OnReadyBot
  <2> QED BY <1>2, <2>2, <2>4, <2>5 DEF ServerPhases
<1>5. CASE Simulated
  <2>0. ~(restart /\ reassign) /\ ~restart
    BY DEF Around, Calm
  <2>1. CASE NobodyLeft
    BY <1>1, <2>1 DEF NobodyLeft
  <2>2. CASE ChooseMission
    BY <1>3, <2>2 DEF ChooseMission
  <2>3. CASE Launch
    <3>1. info' = Follow(Transfer, roles, info) /\ UNCHANGED roles
      BY <2>3, Zenon DEF Launch
    <3>2. \A o \in Players : info[o].state # None => Mirrored(Transfer, info[o], Holds(roles, o)).state # None
      BY <1>0, MirroredParts DEF ServerPhases
    <3> QED BY <1>0, <1>1, <3>1, <3>2 DEF Follow
  <2>4. CASE TransferDone \/ StartPlay
    <3>1. (\E s \in {LoadIsland, Play} : SetGameState(s, roles, info, toClient)) /\ UNCHANGED roles
      BY <2>4, Zenon DEF TransferDone, StartPlay
    <3> QED BY <1>0, <1>2, <3>1 DEF ServerPhases
  <2>5. CASE Load
    <3>1. UNCHANGED info \/ SetGameState(Create, roles, info, toClient)
      BY <2>5, Zenon DEF Load
    <3>2. UNCHANGED roles
      BY <2>5, Zenon DEF Load
    <3> QED BY <1>0, <1>1, <1>2, <3>1, <3>2 DEF ServerPhases
  <2>6. CASE EndPlay
    <3>1. SetGameState(Debriefing, roles, Destroyed(info), toClient) /\ UNCHANGED roles
      BY <2>6, Zenon DEF EndPlay
    <3>2. Destroyed(info) \in [Players -> InfoType]
      BY <1>0, DestroyedTyped
    <3>3. \A o \in Players : Destroyed(info)[o].state = info[o].state
      BY <1>0 DEF Destroyed, InfoType
    <3> QED BY <1>2, <3>1, <3>2, <3>3 DEF ServerPhases
  <2>7. CASE LeaveDebriefing
    <3>1. SetGameState(Create, roles, info, toClient) /\ UNCHANGED roles
      BY <2>0, <2>7, Zenon DEF LeaveDebriefing
    <3> QED BY <1>0, <1>2, <3>1 DEF ServerPhases
  <2> QED BY <1>5, <2>1, <2>2, <2>3, <2>4, <2>5, <2>6, <2>7 DEF Simulated
<1>6. ASSUME NEW p \in Players, Join(p)
      PROVE  Manned'
  BY <1>0, <1>1, <1>6 DEF Join, serverVars, Absent
<1>7. ASSUME NEW p \in Players, Leave(p)
      PROVE  Manned'
  <2>1. ~Holds(roles', p)
    BY <1>7, LeaversHoldNothing DEF Around
  <2>2. \A o \in Players \ {p} : info'[o] = info[o]
    BY <1>0, <1>7 DEF Leave
  <2>3. \A o \in Players \ {p} : Holds(roles', o) => Holds(roles, o)
    <3>1. roles' = roles \/ \E r : roles' = [roles EXCEPT ![r] = AI]
      BY <1>7, Zenon DEF Leave
    <3> QED BY <1>0, <3>1, PlayersAssumption DEF Holds, SlotTable
  <2> QED BY <1>0, <2>1, <2>2, <2>3 DEF Manned
<1>8. ASSUME NEW p \in Players, OnLogin(p) \/ OnAskMissionFile(p) \/ OnReadyBriefing(p)
      PROVE  Manned'
  <2>1. UNCHANGED roles
    BY <1>8 DEF OnLogin, OnAskMissionFile, OnReadyBriefing, serverVars
  <2>2. CASE OnLogin(p)
    <3>1. \E x, v : info' = [info EXCEPT ![p] = Identified(info[p], x, v)]
      BY <2>2 DEF OnLogin
    <3> QED BY <1>0, <1>1, <2>1, <3>1 DEF Identified
  <2>3. CASE OnAskMissionFile(p)
    BY <1>0, <1>1, <2>1, <2>3 DEF OnAskMissionFile, InfoType
  <2>4. CASE OnReadyBriefing(p)
    <3>1. \/ \E x : \E s \in {Briefing, Play} : info' = [info EXCEPT ![p] = [@ EXCEPT !.person = x, !.state = s]]
          \/ info' = [info EXCEPT ![p].state = Briefing]
      BY <2>4 DEF OnReadyBriefing
    <3>2. info'[p].state # None /\ \A o \in Players \ {p} : info'[o] = info[o]
      <4>1. CASE info' = [info EXCEPT ![p].state = Briefing]
        BY <1>0, <4>1 DEF InfoType
      <4>2. ASSUME NEW x, NEW s \in {Briefing, Play},
                   info' = [info EXCEPT ![p] = [@ EXCEPT !.person = x, !.state = s]]
            PROVE  info'[p].state # None /\ \A o \in Players \ {p} : info'[o] = info[o]
        <5>1. PICK y : y = [info[p] EXCEPT !.person = x, !.state = s]
          OBVIOUS
        <5>2. y.state = s
          BY <1>0, <5>1 DEF InfoType
        <5>3. info' = [info EXCEPT ![p] = y]
          BY <4>2, <5>1
        <5> QED BY <1>0, <5>2, <5>3
      <4> QED BY <3>1, <4>1, <4>2
    <3> QED BY <1>1, <2>1, <3>2
  <2> QED BY <1>8, <2>2, <2>3, <2>4
<1>9. ASSUME NEW p \in Players, OnReady(p)
      PROVE  Manned'
  <2>1. UNCHANGED roles
    BY <1>9 DEF OnReady, serverVars
  <2>2. PICK s : s = Head(toServer[p]).state
    OBVIOUS
  <2>3. Heard(p, "ready") /\ (UNCHANGED info \/ info' = [info EXCEPT ![p].state = s])
    BY <1>9, <2>2, Zenon DEF OnReady
  <2>4. s # None
    BY <2>2, <2>3, AskedOf DEF Asks
  <2> QED BY <1>0, <1>1, <2>1, <2>3, <2>4 DEF InfoType
<1>10. ASSUME NEW p \in Players, OnClaim(p)
      PROVE  Manned'
  <2>1. PICK r, w : r = Head(toServer[p]).slot /\ w = Head(toServer[p]).player
    OBVIOUS
  <2>2. Heard(p, "claim")
    BY <1>10 DEF OnClaim
  <2>3. w \in {AI, p} /\ info[p].state # None
    BY <2>1, <2>2, AskedOf DEF Asks, Present
  <2>4. \/ UNCHANGED roles
        \/ roles' = [s \in Slots |-> IF s = r THEN w ELSE IF s \in GivenUp(r, w) THEN AI ELSE roles[s]]
    BY <1>10, <2>1, Zenon DEF OnClaim
  <2>5. \A o \in Players : Holds(roles', o) => Holds(roles, o) \/ o = w
    BY <1>0, <2>4, PlayersAssumption DEF Holds, SlotTable
  <2>6. UNCHANGED info \/ \E rs : info' = [info EXCEPT ![p] = CaughtUp(p, rs)]
    BY <1>10, Zenon DEF OnClaim
  <2>7. \A rs : CaughtUp(p, rs).state # None
    <3>1. Largest(info[p].state, Transfer) # None
      BY <1>0 DEF Largest, InfoType
    <3>2. info[p] \in InfoType /\ state >= LoadIsland => state # None
      BY <1>0
    <3>3. ASSUME NEW rs
          PROVE  CaughtUp(p, rs).state = IF state >= LoadIsland THEN state ELSE Largest(info[p].state, Transfer)
      BY <3>2 DEF CaughtUp, InfoType
    <3> QED BY <3>1, <3>3
  <2>8. \A o \in Players : info[o].state # None => info'[o].state # None
    BY <1>0, <2>6, <2>7
  <2> QED BY <1>0, <2>3, <2>5, <2>8, PlayersAssumption DEF Manned
<1>11. ASSUME NEW p \in Players, ClientMessage(p) \/ Displays(p) \/ Presses(p) \/ LeaveMission(p)
      PROVE  Manned'
  BY <1>1, <1>11, PlayersSide DEF serverVars
<1> QED BY <1>4, <1>5, <1>6, <1>7, <1>8, <1>9, <1>10, <1>11, StepCases DEF ServerActs

LEMMA AroundKept ==
    ASSUME Session, Around, Next
    PROVE  Around'
<1>1. IInv'
  BY Inductive DEF Around
<1> QED BY <1>1, CalmKept, TabledKept, MannedKept, AskingKept, StoredKept DEF Around

-----------------------------------------------------------------------------
(* The server's own steps, for a player that stays.                        *)

LEMMA Facing ==
    ASSUME Around, NEW o \in Staying, Fitted(o), NEW a, a = View(o)
    PROVE  /\ o \in Players /\ Core(a) /\ toClient[o] \in Seq(Messages)
           /\ info[o] \in InfoType /\ info[o].state # None /\ ~info[o].jip
           /\ roles \in SlotTable /\ mission \in Nat /\ mission \in 0 .. MaxMissions
           /\ state \in ServerPhases \ {PrepareRole} /\ report \in BOOLEAN /\ (mission = 0 => state = Create)
           /\ a.phase = state /\ a.report = report /\ a.info = info[o].state /\ a.valid = info[o].valid
           /\ a.known = info[o].ident /\ a.holds = Holds(roles, o)
           /\ a.valid \in BOOLEAN /\ a.known \in BOOLEAN /\ a.holds \in BOOLEAN /\ a.info \in Phases
<1>1. /\ info \in [Players -> InfoType] /\ roles \in SlotTable /\ mission \in 0 .. MaxMissions
      /\ state \in ServerPhases /\ report \in BOOLEAN
  BY Unfolded DEF Around
<1>2. mission \in Nat
  BY <1>1, BoundsAssumption
<1>3. state # PrepareRole /\ (mission = 0 => state = Create)
  BY DEF Around, Calm
<1>4. Core(a) /\ toClient[o] \in Seq(Messages)
  BY FittedParts
<1>5. a.valid \in BOOLEAN /\ a.known \in BOOLEAN /\ a.holds \in BOOLEAN /\ a.info \in Phases
  BY <1>4 DEF Core, Views
<1>6. o \in Players /\ info[o].state # None /\ ~info[o].jip
  BY DEF Staying
<1>7. info[o] \in InfoType
  BY <1>1, <1>6
<1>8. /\ a.phase = state /\ a.report = report /\ a.info = info[o].state /\ a.valid = info[o].valid
      /\ a.known = info[o].ident /\ a.holds = Holds(roles, o)
  BY ViewIs
<1> QED BY <1>1, <1>2, <1>3, <1>4, <1>5, <1>6, <1>7, <1>8

LEMMA SendEach ==
    ASSUME NEW q, NEW to, NEW m, NEW o \in Players
    PROVE  Send(q, to, m)[o] = IF o \in to THEN q[o] \o m ELSE q[o]
BY DEF Send

LEMMA NobodyStays ==
    ASSUME Around, NobodyLeft
    PROVE  Staying' = {}
<1>1. Present = {} /\ UNCHANGED info
  BY DEF NobodyLeft
<1> QED BY <1>1 DEF Present, Staying

LEMMA ChooseFits ==
    ASSUME Session, Around, NEW o \in Staying, Fitted(o), ChooseMission
    PROVE  Fitted(o)'
<1> DEFINE i == [p \in Players |-> [Lobby(info)[p] EXCEPT !.valid = FALSE]]
           q == Send(toClient, Present, <<Header(mission', Unassigned)>>)
<1>1. PICK a : a = View(o)
  OBVIOUS
<1>2. PICK b : b = View(o)'
  OBVIOUS
<1>3. PICK x \in InfoType : x = info[o]
  BY <1>1, Facing
<1>4. /\ SetGameState(PrepareSide, Unassigned, i, q) /\ state = Create /\ ~report
      /\ UNCHANGED <<client, files, toServer, report>> /\ roles' = Unassigned
      /\ mission < MaxMissions /\ mission' = mission + 1
  BY Zenon DEF ChooseMission
<1>5. PICK y : y = [[x EXCEPT !.state = PrepareSide] EXCEPT !.valid = FALSE]
  OBVIOUS
<1>6. y \in InfoType /\ y.state = PrepareSide /\ y.valid = FALSE /\ y.ident = x.ident /\ y.jip = x.jip
  BY <1>3, <1>5 DEF InfoType
<1>7. info \in [Players -> InfoType] /\ o \in Players /\ x.state # None /\ ~x.jip
  BY <1>1, <1>3, Facing, Unfolded DEF Around
<1>8. i \in [Players -> InfoType] /\ i[o] = y
  <2>1. Lobby(info) \in [Players -> InfoType]
    BY <1>7, LobbyTyped
  <2>2. \A z \in InfoType : [z EXCEPT !.valid = FALSE] \in InfoType
    BY WithValid
  <2>3. Lobby(info)[o] = [x EXCEPT !.state = PrepareSide]
    BY <1>3, <1>7 DEF Lobby
  <2> QED BY <1>5, <1>7, <2>1, <2>2, <2>3
<1>9. PICK n : n = mission'
  OBVIOUS
<1>10. n \in 1 .. MaxMissions /\ mission \in Nat
  BY <1>1, <1>4, <1>9, Facing, BoundsAssumption
<1>11. PICK ss : ss = Unassigned
  OBVIOUS
<1>12. q[o] = toClient[o] \o <<Header(n, ss)>>
  BY <1>3, <1>7, <1>9, <1>11 DEF Send, Present
<1>13. PICK h : h = Holds(ss, o)
  OBVIOUS
<1>14. h = FALSE
  BY <1>7, <1>11, <1>13, NoneHolds
<1> HIDE DEF i, q
<1>15. PICK c : c = (h \/ PrepareSide < Transfer)
  OBVIOUS
<1>16. c = TRUE
  <2>1. PrepareSide < Transfer
    OBVIOUS
  <2> QED BY <1>15, <2>1, Zenon
<1>17. SetGameState(PrepareSide, ss, i, q)
  BY <1>4, <1>11
<1>18. /\ info'[o] = IF c THEN Mirrored(PrepareSide, y, h) ELSE y
       /\ toClient'[o] = IF c THEN q[o] \o <<State(PrepareSide)>> ELSE q[o]
  BY <1>6, <1>7, <1>8, <1>13, <1>15, <1>17, PhaseFollows DEF ServerPhases
<1>19. Mirrored(PrepareSide, y, h) = y
  BY <1>6 DEF Mirrored, InfoType
<1>20. info'[o] = y
  BY <1>16, <1>18, <1>19
<1>21. PICK m : m = <<Header(n, ss)>> \o <<State(PrepareSide)>>
  OBVIOUS
<1>22. toClient'[o] = (toClient[o] \o <<Header(n, ss)>>) \o <<State(PrepareSide)>>
  BY <1>12, <1>16, <1>18
<1>23. ss \in SlotTable
  BY <1>11, UnassignedOnce
<1>24. toClient'[o] = toClient[o] \o m
  <2>1. toClient[o] \in Seq(Messages)
    BY <1>1, Facing
  <2>2. Header(n, ss) \in Messages /\ State(PrepareSide) \in Messages
    <3>1. n \in Nat /\ PrepareSide \in Phases
      BY <1>10
    <3> QED BY <1>23, <3>1, TableOnes, QuietOnes DEF Messages
  <2>3. <<Header(n, ss)>> \in Seq(Messages) /\ <<State(PrepareSide)>> \in Seq(Messages)
    BY <2>2
  <2>4. \A u, v, w \in Seq(Messages) : (u \o v) \o w = u \o (v \o w)
    OBVIOUS
  <2> QED BY <1>21, <1>22, <2>1, <2>3, <2>4, Zenon
<1>25. SameClient(a, b)
  BY <1>1, <1>2, <1>4, ViewClient
<1>26. /\ Core(a) /\ a.phase = Create /\ ~a.report /\ a.known = x.ident
  BY <1>1, <1>3, <1>4, Facing
<1>27. /\ b.phase = PrepareSide /\ b.report = a.report /\ b.holds = FALSE /\ b.info = PrepareSide
       /\ b.valid = FALSE /\ b.known = a.known
  <2>1. state' = PrepareSide
    BY <1>4, PhaseBegins
  <2>2. b.phase = state' /\ b.report = report' /\ b.info = info'[o].state /\ b.valid = info'[o].valid
        /\ b.known = info'[o].ident /\ b.holds = Holds(roles', o)
    BY <1>2, ViewIsNext
  <2>3. a.report = report
    BY <1>1, Facing
  <2> QED BY <1>4, <1>6, <1>11, <1>13, <1>14, <1>20, <1>26, <2>1, <2>2, <2>3
<1>28. Passes(a, b) /\ ~Hearable(a, Briefing)
  BY <1>25, <1>26, <1>27, ChoosePasses
<1>29. PICK rs : rs = roles
  OBVIOUS
<1>30. Sends(o, a, b, rs, ss, m)
  BY <1>10, <1>21, <1>23, <1>26, <1>27, <1>28, ChooseSends
<1> QED BY <1>1, <1>2, <1>4, <1>11, <1>24, <1>28, <1>29, <1>30, ServerStep

LEMMA LaunchFits ==
    ASSUME Session, Around, NEW o \in Staying, Fitted(o), Launch
    PROVE  Fitted(o)'
<1>1. PICK a : a = View(o)
  OBVIOUS
<1>2. PICK b : b = View(o)'
  OBVIOUS
<1>3. PICK x \in InfoType : x = info[o]
  BY <1>1, Facing
<1>4. PICK h \in BOOLEAN : h = Holds(roles, o)
  BY DEF Holds
<1>5. /\ o \in Players /\ Core(a) /\ x.state # None /\ ~x.jip /\ mission \in Nat /\ toClient[o] \in Seq(Messages)
      /\ a.phase = state /\ a.report = report /\ a.info = x.state /\ a.valid = x.valid
      /\ a.known = x.ident /\ a.holds = h /\ a.info \in Phases /\ state # PrepareRole
  BY <1>1, <1>3, <1>4, Facing
<1>6. /\ state = PrepareSide /\ state' = Transfer /\ UNCHANGED <<client, files, toServer, report, roles>>
      /\ info' = Follow(Transfer, roles, info)
      /\ toClient' = Send(Send(toClient, Hearers(Transfer, roles, info), <<State(Transfer)>>),
                          {p \in Players : info'[p].state >= Transfer /\ ~info'[p].valid}, <<File>>)
  BY <1>5, Zenon DEF Launch
<1>7. o \in Hearers(Transfer, roles, info) <=> h
  BY <1>3, <1>4, <1>5 DEF Hearers, Hears
<1>8. info'[o] = IF h THEN [x EXCEPT !.state = Transfer] ELSE x
  BY <1>3, <1>4, <1>5, <1>6, <1>7 DEF Follow, Mirrored
<1>9. a.info < Transfer
  BY <1>5, <1>6 DEF Core, OnServer
<1>10. SameClient(a, b)
  BY <1>1, <1>2, <1>6, ViewClient
<1>11. /\ b.phase = Transfer /\ b.report = a.report /\ b.holds = a.holds
       /\ b.info = (IF a.holds THEN Transfer ELSE a.info) /\ b.valid = a.valid /\ b.known = a.known
  <2>1. b.phase = state' /\ b.report = report' /\ b.info = info'[o].state /\ b.valid = info'[o].valid
        /\ b.known = info'[o].ident /\ b.holds = Holds(roles', o)
    BY <1>2, ViewIsNext
  <2> QED BY <1>3, <1>4, <1>5, <1>6, <1>8, <2>1 DEF InfoType
<1>12. Passes(a, b) /\ ~Hearable(a, Briefing)
  BY <1>5, <1>6, <1>10, <1>11, LaunchPasses
<1>13. PICK qc \in Seq(Messages) : qc = toClient[o]
  BY <1>5
<1>14. CASE h
  <2>1. PICK lacks \in BOOLEAN : lacks = ~x.valid
    OBVIOUS
  <2>2. PICK m : m = <<State(Transfer)>> \o When(lacks, <<File>>)
    OBVIOUS
  <2>3. info'[o].state = Transfer /\ info'[o].valid = x.valid
    BY <1>3, <1>8, <1>14 DEF InfoType
  <2>4. toClient'[o] = IF lacks THEN (qc \o <<State(Transfer)>>) \o <<File>> ELSE qc \o <<State(Transfer)>>
    <3>1. Send(toClient, Hearers(Transfer, roles, info), <<State(Transfer)>>)[o] = qc \o <<State(Transfer)>>
      BY <1>5, <1>7, <1>13, <1>14 DEF Send
    <3>2. PICK to : to = {p \in Players : info'[p].state >= Transfer /\ ~info'[p].valid}
      OBVIOUS
    <3>3. o \in to <=> ~info'[o].valid
      BY <1>5, <2>3, <3>2
    <3>4. o \in to <=> lacks
      BY <2>1, <2>3, <3>3, Zenon
    <3>5. PICK u : u = Send(toClient, Hearers(Transfer, roles, info), <<State(Transfer)>>)
      OBVIOUS
    <3>6. toClient' = Send(u, to, <<File>>)
      BY <1>6, <3>2, <3>5, Zenon
    <3>7. toClient'[o] = IF o \in to THEN u[o] \o <<File>> ELSE u[o]
      BY <1>5, <3>6, SendEach
    <3> QED BY <3>1, <3>4, <3>5, <3>7, Zenon
  <2>5. toClient'[o] = toClient[o] \o m
    <3>1. PICK u \in Seq(Messages) : u = <<State(Transfer)>>
      BY QuietOnes, QuietSeqs, QuietSent
    <3>2. PICK v \in Seq(Messages) : v = <<File>>
      BY <1>5, QuietOnes, QuietSeqs, QuietSent
    <3>3. (qc \o u) \o v = qc \o (u \o v) /\ u \o <<>> = u
      OBVIOUS
    <3> QED BY <1>13, <2>2, <2>4, <3>1, <3>2, <3>3, Zenon DEF When
  <2>6. PICK rs : rs = roles
    OBVIOUS
  <2>7. Sends(o, a, b, rs, rs, m)
    BY <1>4, <1>5, <1>6, <1>11, <1>12, <1>14, <2>2, <2>6, LaunchSends
  <2>8. Sends(o, a, b, roles, roles', m)
    BY <1>6, <2>6, <2>7
  <2> QED BY <1>1, <1>2, <1>6, <1>12, <2>5, <2>8, ServerStep
<1>15. CASE ~h
  <2>1. toClient'[o] = qc
    <3>1. Send(toClient, Hearers(Transfer, roles, info), <<State(Transfer)>>)[o] = qc
      BY <1>5, <1>7, <1>13, <1>15 DEF Send
    <3>2. PICK to : to = {p \in Players : info'[p].state >= Transfer /\ ~info'[p].valid}
      OBVIOUS
    <3>3. o \notin to
      BY <1>5, <1>8, <1>9, <1>15, <3>2
    <3>5. PICK u : u = Send(toClient, Hearers(Transfer, roles, info), <<State(Transfer)>>)
      OBVIOUS
    <3>6. toClient' = Send(u, to, <<File>>)
      BY <1>6, <3>2, <3>5, Zenon
    <3>7. toClient'[o] = IF o \in to THEN u[o] \o <<File>> ELSE u[o]
      BY <1>5, <3>6, SendEach
    <3> QED BY <3>1, <3>3, <3>5, <3>7, Zenon
  <2>2. PICK m : m = <<>>
    OBVIOUS
  <2>3. toClient'[o] = toClient[o] \o m
    BY <1>13, <2>1, <2>2
  <2>4. \A d : Leaves(a, roles, d) => Leaves(b, roles', d)
    BY <1>4, <1>5, <1>6, <1>11, <1>15 DEF Leaves
  <2>5. Sends(o, a, b, roles, roles', m)
    BY <2>2, <2>4, NothingSends
  <2> QED BY <1>1, <1>2, <1>6, <1>12, <2>3, <2>5, ServerStep
<1> QED BY <1>14, <1>15

(* A step that leaves the queues and the clients to themselves but for a change
   of the phase that the player hears, or, without a slot, may not hear.      *)
PhaseMoves(s, i, q, o, h) ==
    /\ s \in ServerPhases /\ s # PrepareRole /\ i \in [Players -> InfoType] /\ o \in Players
    /\ SetGameState(s, roles, i, q) /\ i[o].state # None /\ ~i[o].jip
    /\ h \in BOOLEAN /\ h = Holds(roles, o) /\ (s = Play => h)
    /\ i[o].state = info[o].state /\ i[o].valid = info[o].valid /\ i[o].ident = info[o].ident
    /\ UNCHANGED <<client, files, roles>>
PhaseMoved(s, x, q, o, h, a, b) ==
    /\ SameClient(a, b) /\ b.phase = s /\ b.report = report' /\ b.holds = h
    /\ b.valid = a.valid /\ b.known = a.known
    /\ h \/ s < Transfer => b.info = Mirrored(s, x, h).state /\ toClient'[o] = q[o] \o <<State(s)>>
    /\ ~(h \/ s < Transfer) => b.info = a.info /\ toClient'[o] = q[o]

LEMMA PhaseView ==
    ASSUME NEW s, NEW i, NEW q, NEW o, NEW h, PhaseMoves(s, i, q, o, h), NEW a, a = View(o), NEW b, b = View(o)'
    PROVE  PhaseMoved(s, i[o], q, o, h, a, b)
<1>20. /\ s \in ServerPhases /\ s # PrepareRole /\ i \in [Players -> InfoType] /\ o \in Players
       /\ SetGameState(s, roles, i, q) /\ i[o].state # None /\ ~i[o].jip
       /\ h \in BOOLEAN /\ h = Holds(roles, o) /\ (s = Play => h)
       /\ i[o].state = info[o].state /\ i[o].valid = info[o].valid /\ i[o].ident = info[o].ident
       /\ UNCHANGED <<client, files, roles>>
  BY Zenon DEF PhaseMoves
<1>0. PICK x \in InfoType : x = i[o]
  BY <1>20
<1>1. PICK c : c = (h \/ s < Transfer)
  OBVIOUS
<1>2. /\ info'[o] = IF c THEN Mirrored(s, x, h) ELSE x
      /\ toClient'[o] = IF c THEN q[o] \o <<State(s)>> ELSE q[o]
  BY <1>0, <1>1, <1>20, PhaseFollows
<1>3. Mirrored(s, x, h).valid = x.valid /\ Mirrored(s, x, h).ident = x.ident
  BY <1>0, <1>20, MirroredParts
<1>4. SameClient(a, b)
  BY <1>20, ViewClient
<1>5. /\ b.phase = state' /\ b.report = report' /\ b.info = info'[o].state /\ b.valid = info'[o].valid
      /\ b.known = info'[o].ident /\ b.holds = Holds(roles', o)
  BY ViewIsNext
<1>6. a.info = info[o].state /\ a.valid = info[o].valid /\ a.known = info[o].ident
  BY ViewIs
<1>7. state' = s
  BY <1>20, PhaseBegins
<1>8. b.holds = h
  BY <1>5, <1>20, Zenon
<1>10. b.valid = a.valid /\ b.known = a.known
  BY <1>0, <1>2, <1>3, <1>5, <1>6, <1>20, Zenon
<1>11. h \/ s < Transfer => b.info = Mirrored(s, i[o], h).state /\ toClient'[o] = q[o] \o <<State(s)>>
  BY <1>0, <1>1, <1>2, <1>5, Zenon
<1>12. ~(h \/ s < Transfer) => b.info = a.info /\ toClient'[o] = q[o]
  BY <1>0, <1>1, <1>2, <1>5, <1>6, <1>20, Zenon
<1> QED BY <1>4, <1>5, <1>7, <1>8, <1>10, <1>11, <1>12, Zenon DEF PhaseMoved

(* Nothing is sent to a player without a slot, who has not been in the mission. *)
LEMMA UnheldFits ==
    ASSUME Around, NEW o \in Staying, Fitted(o), NEW a, a = View(o), NEW b, b = View(o)',
           UNCHANGED <<client, files, toServer, roles>>, toClient'[o] = toClient[o], Passes(a, b),
           a.phase # Debriefing, b.phase \notin {Play, Debriefing}, a.phase # Play,
           a.info = b.info, a.info = LoadIsland /\ b.phase \in {LoadIsland, Briefing} => a.phase \in {LoadIsland, Briefing},
           b.phase = Briefing /\ b.info >= Briefing => a.phase = Briefing,
           a.phase = Briefing /\ a.info >= Briefing => b.phase = Briefing
    PROVE  Fitted(o)'
<1>1. PICK m : m = <<>>
  OBVIOUS
<1>2. toClient[o] \in Seq(Messages)
  BY Facing
<1>3. toClient'[o] = toClient[o] \o m
  BY <1>1, <1>2
<1>4. \A d : Leaves(a, roles, d) => Leaves(b, roles', d)
  BY DEF Leaves
<1>5. Sends(o, a, b, roles, roles', m)
  BY <1>1, <1>4, NothingSends
<1> QED BY <1>3, <1>5, ServerStep

LEMMA TransferFits ==
    ASSUME Session, Around, NEW o \in Staying, Fitted(o), TransferDone
    PROVE  Fitted(o)'
<1>1. PICK a : a = View(o)
  OBVIOUS
<1>2. PICK b : b = View(o)'
  OBVIOUS
<1>3. PICK x \in InfoType : x = info[o]
  BY <1>1, Facing
<1>4. PICK h \in BOOLEAN : h = Holds(roles, o)
  BY DEF Holds
<1>5. /\ o \in Players /\ Core(a) /\ x.state # None /\ ~x.jip /\ mission \in Nat /\ toClient[o] \in Seq(Messages)
      /\ a.phase = state /\ a.report = report /\ a.info = x.state /\ a.valid = x.valid
      /\ a.known = x.ident /\ a.holds = h /\ a.info \in Phases /\ state # PrepareRole
      /\ a.holds \in BOOLEAN
  BY <1>1, <1>3, <1>4, Facing
<1>6. /\ state = Transfer /\ UNCHANGED <<client, files, toServer, report, roles>> /\ FilesValid
      /\ SetGameState(LoadIsland, roles, info, toClient) /\ info \in [Players -> InfoType]
  BY Zenon, Unfolded DEF TransferDone, Around
<1>7. LoadIsland \in ServerPhases /\ LoadIsland # PrepareRole /\ LoadIsland # Play
  BY DEF ServerPhases
<1>9. ~(LoadIsland < Transfer)
  OBVIOUS
<1>10. /\ SameClient(a, b) /\ b.phase = LoadIsland /\ b.report = report' /\ b.holds = h
       /\ b.valid = a.valid /\ b.known = a.known
       /\ h => b.info = Mirrored(LoadIsland, x, h).state /\ toClient'[o] = toClient[o] \o <<State(LoadIsland)>>
       /\ ~h => b.info = a.info /\ toClient'[o] = toClient[o]
  <2>1. PhaseMoves(LoadIsland, info, toClient, o, h)
    BY <1>3, <1>4, <1>5, <1>6, <1>7 DEF PhaseMoves
  <2>2. PhaseMoved(LoadIsland, x, toClient, o, h, a, b)
    BY <1>1, <1>2, <1>3, <2>1, PhaseView
  <2> QED BY <1>9, <2>2 DEF PhaseMoved
<1>11. h => x.valid
  <2>1. h => a.info >= Transfer
    BY <1>5, <1>6 DEF Core, OnServer
  <2> QED BY <1>3, <1>4, <1>5, <1>6, <2>1 DEF FilesValid, Present
<1>12. b.info = IF a.holds THEN LoadIsland ELSE a.info
  <2>1. h => Mirrored(LoadIsland, x, h).state = LoadIsland
    BY <1>11 DEF Mirrored, InfoType
  <2> QED BY <1>4, <1>5, <1>10, <2>1
<1>13. Passes(a, b) /\ ~Hearable(a, Briefing)
  BY <1>5, <1>6, <1>10, <1>12, LoadPasses
<1>14. CASE h
  <2>1. PICK m : m = <<State(LoadIsland)>>
    OBVIOUS
  <2>2. PICK rs : rs = roles
    OBVIOUS
  <2>3. Sends(o, a, b, rs, rs, m)
    BY <1>4, <1>5, <1>6, <1>10, <1>11, <1>12, <1>13, <1>14, <2>1, <2>2, LoadSends
  <2>4. toClient'[o] = toClient[o] \o m
    BY <1>10, <1>14, <2>1
  <2>5. Sends(o, a, b, roles, roles', m)
    BY <1>6, <2>2, <2>3
  <2> QED BY <1>1, <1>2, <1>6, <1>13, <2>4, <2>5, ServerStep
<1>15. CASE ~h
  <2>1. toClient'[o] = toClient[o]
    BY <1>10, <1>15
  <2>2. a.info <= PrepareOK \/ a.info = DebriefingOK \/ a.info = Transfer
    BY <1>5, <1>6 DEF Core, OnServer
  <2> QED BY <1>1, <1>2, <1>5, <1>6, <1>10, <1>12, <1>13, <1>15, <2>1, <2>2, UnheldFits
<1> QED BY <1>14, <1>15

LEMMA LoadFits ==
    ASSUME Session, Around, NEW o \in Staying, Fitted(o), Load
    PROVE  Fitted(o)'
<1>1. PICK a : a = View(o)
  OBVIOUS
<1>2. PICK b : b = View(o)'
  OBVIOUS
<1>3. PICK x \in InfoType : x = info[o]
  BY <1>1, Facing
<1>4. PICK h \in BOOLEAN : h = Holds(roles, o)
  BY DEF Holds
<1>5. /\ o \in Players /\ Core(a) /\ x.state # None /\ ~x.jip /\ mission \in Nat /\ toClient[o] \in Seq(Messages)
      /\ a.phase = state /\ a.report = report /\ a.info = x.state /\ a.valid = x.valid
      /\ a.known = x.ident /\ a.holds = h /\ a.info \in Phases /\ a.holds \in BOOLEAN
  BY <1>1, <1>3, <1>4, Facing
<1>6. PICK outcome \in {"read"} \cup LoadErrors :
         /\ report' = (outcome # "early")
         /\ IF outcome = "read" THEN UNCHANGED <<state, info, toClient>>
            ELSE SetGameState(Create, roles, info, toClient)
  BY Zenon DEF Load
<1>7. state = LoadIsland /\ UNCHANGED <<client, files, toServer, roles>> /\ ~report /\ info \in [Players -> InfoType]
  BY Zenon, Unfolded DEF Load, Around
<1>8. CASE outcome = "read"
  <2>1. UNCHANGED <<state, info, toClient>> /\ report' = TRUE
    BY <1>6, <1>8
  <2>2. SameClient(a, b)
    BY <1>1, <1>2, <1>7, ViewClient
  <2>3. b.phase = state' /\ b.report = report' /\ b.info = info'[o].state /\ b.valid = info'[o].valid
        /\ b.known = info'[o].ident /\ b.holds = Holds(roles', o)
    BY <1>2, ViewIsNext
  <2>4. /\ b.phase = LoadIsland /\ b.report = TRUE /\ b.holds = a.holds /\ b.info = a.info /\ b.valid = a.valid
        /\ b.known = a.known
    BY <1>3, <1>4, <1>5, <1>7, <2>1, <2>3
  <2>5. Passes(a, b)
    BY <1>5, <1>7, <2>2, <2>4, ReadPasses
  <2>6. toClient'[o] = toClient[o]
    BY <2>1
  <2> QED BY <1>1, <1>2, <1>5, <1>7, <2>4, <2>5, <2>6, UnheldFits
<1>9. CASE outcome # "read"
  <2>1. outcome = "early"
    BY <1>9 DEF Session
  <2>2. SetGameState(Create, roles, info, toClient) /\ report' = FALSE
    BY <1>6, <2>1
  <2>3. Create \in ServerPhases /\ Create # PrepareRole /\ Create # Play
    BY DEF ServerPhases
  <2>4. h \/ Create < Transfer
    OBVIOUS
  <2>5. x.state = info[o].state /\ x.valid = info[o].valid /\ x.ident = info[o].ident
    BY <1>3
  <2>6. /\ SameClient(a, b) /\ b.phase = Create /\ b.report = report' /\ b.holds = h
        /\ b.valid = a.valid /\ b.known = a.known
        /\ b.info = Mirrored(Create, x, h).state /\ toClient'[o] = toClient[o] \o <<State(Create)>>
    <3>1. PhaseMoves(Create, info, toClient, o, h)
      BY <1>3, <1>4, <1>5, <1>7, <2>2, <2>3, <2>5 DEF PhaseMoves
    <3>2. PhaseMoved(Create, x, toClient, o, h, a, b)
      BY <1>1, <1>2, <1>3, <3>1, PhaseView
    <3> QED BY <2>4, <3>2 DEF PhaseMoved
  <2>7. b.info = Create
    BY <2>6 DEF Mirrored, InfoType
  <2>8. Passes(a, b) /\ ~Hearable(a, Briefing)
    BY <1>5, <1>7, <2>2, <2>6, <2>7, CreatePasses
  <2>9. PICK m : m = <<State(Create)>>
    OBVIOUS
  <2>10. toClient'[o] = toClient[o] \o m
    BY <2>6, <2>9
  <2>11. PICK rs : rs = roles
    OBVIOUS
  <2>12. Sends(o, a, b, rs, rs, m)
    BY <1>5, <1>7, <2>6, <2>7, <2>8, <2>9, CreateSends
  <2>13. Sends(o, a, b, roles, roles', m)
    BY <1>7, <2>11, <2>12
  <2> QED BY <1>1, <1>2, <1>7, <2>8, <2>10, <2>13, ServerStep
<1> QED BY <1>8, <1>9

LEMMA WithPersonParts ==
    ASSUME NEW x \in InfoType, NEW n, NEW y, y = [x EXCEPT !.person = n]
    PROVE  y.state = x.state /\ y.valid = x.valid /\ y.ident = x.ident /\ y.jip = x.jip /\ y.person = n
BY DEF InfoType

(* Who holds a slot is found a unit.                                       *)
LEMMA PersonFound ==
    ASSUME IInv, NEW rs \in SlotTable, Once(rs), NEW o \in Players, NEW x \in InfoType
    PROVE  PersonOf(rs, x, o) \in {0} \cup Slots /\ (Holds(rs, o) => PersonOf(rs, x, o) \in Slots)
<1>1. PersonOf(rs, x, o) \in {0} \cup Slots
  BY PersonTyped
<1>2. ASSUME Holds(rs, o)
      PROVE  PersonOf(rs, x, o) # 0
  <2>1. SlotOf(rs, o) # 0
    BY <1>2, SlotFound, SlotNumber
  <2> QED BY <1>2, <2>1 DEF PersonOf
<1> QED BY <1>1, <1>2

LEMMA BotFits ==
    ASSUME Session, Around, NEW o \in Staying, Fitted(o), OnReadyBot
    PROVE  Fitted(o)'
<1>1. PICK a : a = View(o)
  OBVIOUS
<1>2. PICK b : b = View(o)'
  OBVIOUS
<1>3. PICK x \in InfoType : x = info[o]
  BY <1>1, Facing
<1>4. PICK h \in BOOLEAN : h = Holds(roles, o)
  BY DEF Holds
<1>5. /\ o \in Players /\ Core(a) /\ x.state # None /\ ~x.jip /\ mission \in Nat /\ toClient[o] \in Seq(Messages)
      /\ a.phase = state /\ a.report = report /\ a.info = x.state /\ a.valid = x.valid
      /\ a.known = x.ident /\ a.holds = h /\ a.info \in Phases /\ a.holds \in BOOLEAN
  BY <1>1, <1>3, <1>4, Facing
<1>6. PICK i : i = [p \in Players |-> IF p \in Present
                                      THEN [info[p] EXCEPT !.person = PersonOf(roles, info[p], p)]
                                      ELSE info[p]]
  OBVIOUS
<1>7. PICK q : q = [p \in Players |-> toClient[p] \o When(i[p].person # 0, <<World(i[p].person)>>)]
  OBVIOUS
<1>8. SetGameState(Briefing, roles, i, q) /\ report /\ report' = FALSE /\ UNCHANGED <<client, files, toServer, roles>>
  <2> DEFINE I == [p \in Players |-> IF p \in Present
                                     THEN [info[p] EXCEPT !.person = PersonOf(roles, info[p], p)]
                                     ELSE info[p]]
             Q == [p \in Players |-> toClient[p] \o When(I[p].person # 0, <<World(I[p].person)>>)]
  <2>1. SetGameState(Briefing, roles, I, Q)
    BY Zenon DEF OnReadyBot
  <2>2. report /\ report' = FALSE /\ UNCHANGED <<client, files, toServer, roles>>
    BY Zenon DEF OnReadyBot
  <2>3. I = i
    BY <1>6
  <2> HIDE DEF I
  <2>4. Q = q
    BY <1>7, <2>3
  <2> HIDE DEF Q
  <2> QED BY <2>1, <2>2, <2>3, <2>4, Zenon
<1>9. state = LoadIsland
  BY <1>8 DEF Around, Calm
<1>10. info \in [Players -> InfoType] /\ roles \in SlotTable /\ Once(roles) /\ IInv
  BY Unfolded DEF Around
<1>11. i \in [Players -> InfoType]
  <2>1. \A p \in Players : [info[p] EXCEPT !.person = PersonOf(roles, info[p], p)] \in InfoType
    BY <1>10, PersonTyped, WithPerson
  <2> QED BY <1>6, <1>10, <2>1
<1>12. PICK n : n = PersonOf(roles, x, o)
  OBVIOUS
<1>13. n \in {0} \cup Slots /\ (h => n # 0)
  BY <1>4, <1>5, <1>10, <1>12, PersonFound, SlotNumber
<1>14. i[o] = [x EXCEPT !.person = n]
  BY <1>3, <1>5, <1>6, <1>12 DEF Present
<1>15. /\ i[o].state = x.state /\ i[o].valid = x.valid /\ i[o].ident = x.ident /\ i[o].jip = x.jip
       /\ i[o].person = n
  BY <1>14, WithPersonParts
<1>16. PICK given \in BOOLEAN : given = (n # 0)
  OBVIOUS
<1>17. q[o] = toClient[o] \o When(given, <<World(n)>>)
  <2>1. q[o] = toClient[o] \o When(i[o].person # 0, <<World(i[o].person)>>)
    BY <1>5, <1>7
  <2> QED BY <1>15, <1>16, <2>1, Zenon
<1>18. Briefing \in ServerPhases /\ Briefing # PrepareRole /\ Briefing # Play /\ ~(Briefing < Transfer)
  BY DEF ServerPhases
<1>19. /\ SameClient(a, b) /\ b.phase = Briefing /\ b.report = report' /\ b.holds = h
       /\ b.valid = a.valid /\ b.known = a.known
       /\ h => b.info = Mirrored(Briefing, i[o], h).state /\ toClient'[o] = q[o] \o <<State(Briefing)>>
       /\ ~h => b.info = a.info /\ toClient'[o] = q[o]
  <2>1. /\ o \in Players /\ i[o].state # None /\ ~i[o].jip
        /\ i[o].state = info[o].state /\ i[o].valid = info[o].valid /\ i[o].ident = info[o].ident
    BY <1>3, <1>5, <1>15
  <2>2. PhaseMoves(Briefing, i, q, o, h)
    BY <1>4, <1>8, <1>11, <1>18, <2>1 DEF PhaseMoves
  <2>3. PhaseMoved(Briefing, i[o], q, o, h, a, b)
    BY <1>1, <1>2, <2>2, PhaseView
  <2> QED BY <1>18, <2>3 DEF PhaseMoved
<1>20. b.info = IF a.holds THEN Briefing ELSE a.info
  <2>1. h => a.info >= LoadIsland
    BY <1>5, <1>9 DEF Core, OnServer
  <2>2. h => Mirrored(Briefing, i[o], h).state = Briefing
    BY <1>5, <1>11, <1>15, <2>1 DEF Mirrored, InfoType
  <2> QED BY <1>5, <1>19, <2>2
<1>21. Passes(a, b) /\ ~Hearable(a, Briefing)
  BY <1>5, <1>8, <1>9, <1>19, <1>20, BotPasses
<1>22. PICK m : m = When(given, <<World(n)>>) \o When(a.holds, <<State(Briefing)>>)
  OBVIOUS
<1>23. toClient'[o] = toClient[o] \o m
  <2>1. PICK u \in Seq(Messages) : u = When(given, <<World(n)>>)
    BY <1>13, QuietOnes, QuietSeqs, QuietSent
  <2>2. PICK v \in Seq(Messages) : v = <<State(Briefing)>>
    BY QuietOnes, QuietSeqs, QuietSent
  <2>3. \A w \in Seq(Messages) : (w \o u) \o v = w \o (u \o v) /\ u \o <<>> = u
    OBVIOUS
  <2> QED BY <1>5, <1>17, <1>19, <1>22, <2>1, <2>2, <2>3, Zenon DEF When
<1>24. PICK rs : rs = roles
  OBVIOUS
<1>25. Sends(o, a, b, rs, rs, m)
  <2>1. a.phase = LoadIsland /\ b.phase = Briefing /\ b.holds = a.holds /\ (a.holds => n # 0) /\ SameClient(a, b)
    BY <1>5, <1>9, <1>13, <1>19
  <2> QED BY <1>5, <1>13, <1>16, <1>20, <1>21, <1>22, <2>1, BotSends
<1>26. Sends(o, a, b, roles, roles', m)
  BY <1>8, <1>24, <1>25
<1> QED BY <1>1, <1>2, <1>8, <1>21, <1>23, <1>26, ServerStep

LEMMA StartFits ==
    ASSUME Session, Around, NEW o \in Staying, Fitted(o), StartPlay
    PROVE  Holds(roles, o) => Fitted(o)'
<1>1. PICK a : a = View(o)
  OBVIOUS
<1>2. PICK b : b = View(o)'
  OBVIOUS
<1>3. PICK x \in InfoType : x = info[o]
  BY <1>1, Facing
<1>4. PICK h \in BOOLEAN : h = Holds(roles, o)
  BY DEF Holds
<1>5. /\ o \in Players /\ Core(a) /\ x.state # None /\ ~x.jip /\ mission \in Nat
      /\ a.phase = state /\ a.report = report /\ a.info = x.state /\ a.valid = x.valid
      /\ a.known = x.ident /\ a.holds = h
  BY <1>1, <1>3, <1>4, Facing
<1>6. /\ SetGameState(Play, roles, info, toClient) /\ ~report /\ UNCHANGED <<client, files, toServer, roles, report>>
      /\ state = Briefing /\ \A r \in Slots : roles[r] # AI => info[roles[r]].state = Play
  BY Zenon DEF StartPlay
<1>7. info \in [Players -> InfoType] /\ roles \in SlotTable
  BY Unfolded DEF Around
<1>8. h => x.state = Play
  <2> SUFFICES ASSUME h PROVE x.state = Play
    OBVIOUS
  <2>1. PICK r \in Slots : roles[r] = o
    BY <1>4, <1>7 DEF Holds, SlotTable
  <2>2. o # AI
    BY <1>5, PlayersAssumption
  <2> QED BY <1>3, <1>6, <2>1, <2>2
<1>9. Play \in ServerPhases /\ Play # PrepareRole
  BY DEF ServerPhases
<1>10. h => /\ SameClient(a, b) /\ b.phase = Play /\ b.report = report' /\ b.holds = h
            /\ b.valid = a.valid /\ b.known = a.known
            /\ b.info = Mirrored(Play, x, h).state /\ toClient'[o] = toClient[o] \o <<State(Play)>>
  <2> SUFFICES ASSUME h
               PROVE  PhaseMoved(Play, x, toClient, o, h, a, b)
    BY DEF PhaseMoved
  <2>1. info[o].state # None /\ ~info[o].jip /\ UNCHANGED <<client, files, roles>>
    BY <1>3, <1>5, <1>6
  <2>2. PhaseMoves(Play, info, toClient, o, h)
    BY <1>4, <1>5, <1>6, <1>7, <1>9, <2>1 DEF PhaseMoves
  <2> QED BY <1>1, <1>2, <1>3, <2>2, PhaseView
<1> SUFFICES ASSUME h PROVE Fitted(o)'
  BY <1>4
<1>11. b.info = Play
  BY <1>8, <1>10 DEF Mirrored, InfoType
<1>12. Passes(a, b) /\ ~Hearable(a, Briefing)
  BY <1>5, <1>6, <1>8, <1>10, <1>11, StartPlayPasses
<1>13. PICK m : m = <<State(Play)>>
  OBVIOUS
<1>14. PICK rs : rs = roles
  OBVIOUS
<1>15. Sends(o, a, b, rs, rs, m)
  BY <1>5, <1>6, <1>8, <1>10, <1>12, <1>13, PlaySends
<1>16. Sends(o, a, b, roles, roles', m) /\ toClient'[o] = toClient[o] \o m
  BY <1>6, <1>10, <1>13, <1>14, <1>15
<1> QED BY <1>1, <1>2, <1>6, <1>12, <1>16, ServerStep

LEMMA EndFits ==
    ASSUME Session, Around, NEW o \in Staying, Fitted(o), EndPlay
    PROVE  Fitted(o)'
<1>1. PICK a : a = View(o)
  OBVIOUS
<1>2. PICK b : b = View(o)'
  OBVIOUS
<1>3. PICK x \in InfoType : x = info[o]
  BY <1>1, Facing
<1>4. PICK h \in BOOLEAN : h = Holds(roles, o)
  BY DEF Holds
<1>5. /\ o \in Players /\ Core(a) /\ x.state # None /\ ~x.jip /\ mission \in Nat
      /\ a.phase = state /\ a.report = report /\ a.info = x.state /\ a.valid = x.valid
      /\ a.known = x.ident /\ a.holds = h
  BY <1>1, <1>3, <1>4, Facing
<1>6. PICK i : i = Destroyed(info)
  OBVIOUS
<1>7. /\ SetGameState(Debriefing, roles, i, toClient) /\ UNCHANGED <<client, files, toServer, roles, report>>
      /\ state = Play
  BY <1>6, Zenon DEF EndPlay
<1>8. info \in [Players -> InfoType] /\ i \in [Players -> InfoType]
  BY <1>6, Unfolded, DestroyedTyped DEF Around
<1>9. i[o] = [x EXCEPT !.person = 0]
  BY <1>3, <1>5, <1>6 DEF Destroyed
<1>10. i[o].state = x.state /\ i[o].valid = x.valid /\ i[o].ident = x.ident /\ i[o].jip = x.jip
  BY <1>9, WithPersonParts
<1>11. h /\ x.state \in {Play, Debriefing, DebriefingOK}
  BY <1>5, <1>7 DEF Core, OnServer
<1>12. Debriefing \in ServerPhases /\ Debriefing # PrepareRole /\ Debriefing # Play
  BY DEF ServerPhases
<1>13. /\ SameClient(a, b) /\ b.phase = Debriefing /\ b.report = report' /\ b.holds = h
       /\ b.valid = a.valid /\ b.known = a.known
       /\ b.info = Mirrored(Debriefing, i[o], h).state /\ toClient'[o] = toClient[o] \o <<State(Debriefing)>>
  <2>1. /\ o \in Players /\ i[o].state # None /\ ~i[o].jip
        /\ i[o].state = info[o].state /\ i[o].valid = info[o].valid /\ i[o].ident = info[o].ident
    BY <1>3, <1>5, <1>10, <1>11
  <2>2. h \/ Debriefing < Transfer
    OBVIOUS
  <2>3. SetGameState(Debriefing, roles, i, toClient) /\ UNCHANGED <<client, files, roles>>
    BY <1>7
  <2>4. PhaseMoves(Debriefing, i, toClient, o, h)
    BY <1>4, <1>8, <1>12, <2>1, <2>3 DEF PhaseMoves
  <2>5. PhaseMoved(Debriefing, i[o], toClient, o, h, a, b)
    BY <1>1, <1>2, <2>4, PhaseView
  <2> QED BY <2>2, <2>5 DEF PhaseMoved
<1>14. b.info = Debriefing
  <2>1. i[o].state >= Debriefing /\ i[o] \in InfoType
    BY <1>5, <1>8, <1>10, <1>11
  <2> QED BY <1>13, <2>1 DEF Mirrored, InfoType
<1>15. Passes(a, b) /\ ~Hearable(a, Briefing)
  BY <1>5, <1>7, <1>13, <1>14, EndPlayPasses
<1>16. PICK m : m = <<State(Debriefing)>>
  OBVIOUS
<1>17. PICK rs : rs = roles
  OBVIOUS
<1>18. Sends(o, a, b, rs, rs, m)
  BY <1>5, <1>7, <1>11, <1>13, <1>15, <1>16, PlaySends
<1>19. Sends(o, a, b, roles, roles', m) /\ toClient'[o] = toClient[o] \o m
  BY <1>7, <1>13, <1>16, <1>17, <1>18
<1> QED BY <1>1, <1>2, <1>7, <1>15, <1>19, ServerStep

LEMMA CreateFits ==
    ASSUME Session, Around, NEW o \in Staying, Fitted(o), LeaveDebriefing
    PROVE  Fitted(o)'
<1>1. PICK a : a = View(o)
  OBVIOUS
<1>2. PICK b : b = View(o)'
  OBVIOUS
<1>3. PICK x \in InfoType : x = info[o]
  BY <1>1, Facing
<1>4. PICK h \in BOOLEAN : h = Holds(roles, o)
  BY DEF Holds
<1>5. /\ o \in Players /\ Core(a) /\ x.state # None /\ ~x.jip /\ mission \in Nat
      /\ a.phase = state /\ a.report = report /\ a.info = x.state /\ a.valid = x.valid
      /\ a.known = x.ident /\ a.holds = h
  BY <1>1, <1>3, <1>4, Facing
<1>6. ~restart /\ master = AI
  BY DEF Around, Calm
<1>7. /\ SetGameState(Create, roles, info, toClient) /\ UNCHANGED <<client, files, toServer, roles, report>>
      /\ state = Debriefing /\ ~report /\ Debriefed
  BY <1>6, Zenon DEF LeaveDebriefing
<1>8. info \in [Players -> InfoType] /\ roles \in SlotTable
  BY Unfolded DEF Around
<1>9. h => a.info # Debriefing /\ a.info <= DebriefingOK
  <2> SUFFICES ASSUME h PROVE a.info # Debriefing /\ a.info <= DebriefingOK
    OBVIOUS
  <2>1. PICK r \in Slots : roles[r] = o
    BY <1>4, <1>8 DEF Holds, SlotTable
  <2>2. o # AI
    BY <1>5, PlayersAssumption
  <2>3. WentOn(info[o].state)
    BY <1>6, <1>7, <2>1, <2>2 DEF Debriefed
  <2> QED BY <1>3, <1>5, <2>3 DEF WentOn
<1>10. Create \in ServerPhases /\ Create # PrepareRole /\ Create # Play
  BY DEF ServerPhases
<1>11. h \/ Create < Transfer
  OBVIOUS
<1>12. x.state = info[o].state /\ x.valid = info[o].valid /\ x.ident = info[o].ident
  BY <1>3
<1>13. /\ SameClient(a, b) /\ b.phase = Create /\ b.report = report' /\ b.holds = h
       /\ b.valid = a.valid /\ b.known = a.known
       /\ b.info = Mirrored(Create, x, h).state /\ toClient'[o] = toClient[o] \o <<State(Create)>>
  <2>1. PhaseMoves(Create, info, toClient, o, h)
    BY <1>3, <1>4, <1>5, <1>7, <1>8, <1>10, <1>12 DEF PhaseMoves
  <2>2. PhaseMoved(Create, x, toClient, o, h, a, b)
    BY <1>1, <1>2, <1>3, <2>1, PhaseView
  <2> QED BY <1>11, <2>2 DEF PhaseMoved
<1>14. b.info = Create
  BY <1>13 DEF Mirrored, InfoType
<1>15. b.report = FALSE /\ b.holds = a.holds
  BY <1>5, <1>7, <1>13
<1>16. Passes(a, b) /\ ~Hearable(a, Briefing)
  BY <1>5, <1>7, <1>9, <1>13, <1>14, <1>15, CreatePasses
<1>17. PICK m : m = <<State(Create)>>
  OBVIOUS
<1>18. PICK rs : rs = roles
  OBVIOUS
<1>19. Sends(o, a, b, rs, rs, m)
  BY <1>5, <1>7, <1>13, <1>14, <1>15, <1>16, <1>17, CreateSends
<1>20. Sends(o, a, b, roles, roles', m) /\ toClient'[o] = toClient[o] \o m
  BY <1>7, <1>13, <1>17, <1>18, <1>19
<1> QED BY <1>1, <1>2, <1>7, <1>16, <1>20, ServerStep

-----------------------------------------------------------------------------
(* Players come and go, and the server takes what they say.                *)

(* Others' doings, of which the player hears m.                            *)
LEMMA OtherStep ==
    ASSUME NEW p, Fitted(p), NEW a, a = View(p), a = View(p)',
           client'[p] = client[p], files'[p] = files[p], toServer'[p] = toServer[p],
           NEW m, toClient'[p] = toClient[p] \o m, Sends(p, a, a, roles, roles', m)
    PROVE  Fitted(p)'
<1>1. SameClient(a, a) /\ Passes(a, a)
  BY FittedParts, StillPasses DEF SameClient
<1>2. PICK t : t = client[p].roles
  OBVIOUS
<1>3. PICK qc : qc = toClient[p]
  OBVIOUS
<1>4. PICK qs : qs = toServer[p]
  OBVIOUS
<1>5. PICK r : r = qc \o m
  OBVIOUS
<1>6. PICK rs : rs = roles
  OBVIOUS
<1>7. PICK ss : ss = roles'
  OBVIOUS
<1>8. Fits(p, a, t, rs, qc, qs)
  BY <1>2, <1>3, <1>4, <1>6 DEF Fitted
<1>9. Sends(p, a, a, rs, ss, m)
  BY <1>6, <1>7
<1>10. Fits(p, a, t, ss, r, qs)
  BY <1>1, <1>5, <1>8, <1>9, ServerFits
<1>11. client'[p].roles = t /\ toClient'[p] = r /\ toServer'[p] = qs
  BY <1>2, <1>3, <1>4, <1>5
<1>12. Fits(p, View(p)', client'[p].roles, roles', toClient'[p], toServer'[p])
  BY <1>7, <1>10, <1>11
<1>13. Recorded(client'[p], files'[p])
  BY DEF Fitted
<1> QED BY <1>12, <1>13 DEF Fitted

(* A player that has just connected.                                       *)
Fresh(b) ==
    /\ b.phase \in {Create, PrepareSide, Debriefing} /\ b.report = FALSE /\ b.info = Create
    /\ b.valid = FALSE /\ b.known = FALSE /\ b.holds = FALSE /\ b.state = Creating /\ b.srv = Creating
    /\ b.head = FALSE /\ b.all \in BOOLEAN /\ b.person = FALSE /\ b.ident = FALSE /\ b.screen = "lobby"

LEMMA FreshFits ==
    ASSUME NEW p, NEW b, Fresh(b), NEW t, NEW rs, mission \in Nat,
           NEW q, q = <<State(Create)>> \o <<Player>>, NEW z, z = <<>>
    PROVE  Fits(p, b, t, rs, q, z)
<1>1. Core(b)
  <2>1. Views(b)
    BY DEF Fresh, Views, Screens
  <2>2. OnServer(b)
    BY DEF Fresh, OnServer
  <2>3. OnClient(b)
    BY DEF Fresh, OnClient, Over
  <2>4. OnScreen(b)
    BY DEF Fresh, OnScreen, Over
  <2> QED BY <2>1, <2>2, <2>3, <2>4 DEF Core
<1>2. Reports(p, b, z)
  BY DEF Fresh, Reports, Ordered, Owes
<1>3. State(Create) \in Fitting(b) /\ Player \in Fitting(b)
  <2>1. Hearable(b, Create)
    BY DEF Fresh, Hearable
  <2>2. State(Create) \in Plain(b)
    <3>1. Create \in Phases \ {Briefing}
      OBVIOUS
    <3> QED BY <2>1, <3>1, PlainOnes
  <2>3. Player \in Messages
    BY QuietOnes DEF Messages
  <2> QED BY <2>2, <2>3 DEF Plain, Fitting, Player
<1>4. PICK x \in Fitting(b) : x = State(Create)
  BY <1>3
<1>5. PICK y \in Fitting(b) : y = Player
  BY <1>3
<1>6. x.type = "state" /\ x.to = Create /\ y.type = "player"
  BY <1>4, <1>5 DEF State, Player
<1>7. q \in Seq(Fitting(b)) /\ Len(q) = 2 /\ q[1] = x /\ q[2] = y
  BY <1>4, <1>5
<1>8. Told(b, q)
  <2>1. \A j \in 1 .. Len(q) : ~(q[j].type = "state" /\ q[j].to = Briefing)
    BY <1>6, <1>7
  <2> QED BY <1>7, <2>1 DEF Told, BriefedLast
<1>9. Greeted(b, q, z)
  <2>1. Single("player", q)
    BY <1>6, <1>7 DEF Single
  <2>2. Single("login", z) /\ Free("login", z)
    BY DEF Single, Free
  <2> QED BY <2>1, <2>2 DEF Greeted, Fresh
<1>10. Led(p, b, t, rs, q)
  <2>1. PICK w : w = Knows(b, t)
    OBVIOUS
  <2>2. Whole(w) /\ w.state = Creating /\ w.head = FALSE /\ w.person = FALSE
    BY <2>1 DEF Fresh, Knows, Walker, Whole
  <2>3. Takes(p, w, State(Create))
    BY <2>2, TakesState
  <2>4. PICK e : e = After(p, w, State(Create))
    OBVIOUS
  <2>5. PICK u : u = <<State(Create)>>
    OBVIOUS
  <2>6. /\ Way(p, w, u, e) /\ Whole(e)
        /\ e.state = Turned(p, w, Create) /\ e.head = w.head
    BY <2>2, <2>3, <2>4, <2>5, OnState
  <2>7. e.state = Create
    BY <2>2, <2>6 DEF Turned, Ignores
  <2>8. PICK d : d = After(p, e, Player)
    OBVIOUS
  <2>9. d.state = e.state /\ d.head = e.head /\ d.file = e.file /\ d.person = e.person
    BY <2>6, <2>8, AfterPlain DEF Whole
  <2>10. Takes(p, e, Player)
    BY DEF Takes, Player
  <2>11. PICK v : v = <<Player>>
    OBVIOUS
  <2>12. Way(p, e, v, d)
    BY <2>8, <2>10, <2>11, OneOn
  <2>13. u \in Seq(Fitting(b)) /\ v \in Seq(Fitting(b)) /\ q = u \o v
    BY <1>3, <2>5, <2>11
  <2>14. Way(p, w, q, d)
    BY <2>6, <2>12, <2>13, WayOn
  <2>15. Leaves(b, rs, d)
    BY <2>2, <2>6, <2>7, <2>9 DEF Leaves, Whole, Fresh
  <2> QED BY <2>1, <2>14, <2>15 DEF Led
<1> QED BY <1>1, <1>2, <1>8, <1>9, <1>10 DEF Fits

LEMMA JoinFits ==
    ASSUME Session, Around, NEW p \in Players, Join(p), ~(state >= Transfer)
    PROVE  Fitted(p)'
<1>1. /\ state \in ServerPhases \ {PrepareRole} /\ mission \in Nat /\ report = FALSE
      /\ Tabled /\ info \in [Players -> InfoType] /\ toServer \in [Players -> Seq(Requests)]
  BY Unfolded, BoundsAssumption DEF Around, Calm
<1>2. state \in {Create, PrepareSide, Debriefing}
  BY <1>1 DEF ServerPhases
<1>3. ~Holds(roles, p)
  <2>1. p \notin Present
    BY DEF Join
  <2> QED BY <2>1 DEF Around, Manned, Present
<1>4. (state >= Transfer) = FALSE
  OBVIOUS
<1>5. PICK late : late = FALSE
  OBVIOUS
<1>6. /\ info' = [info EXCEPT ![p] = [Absent EXCEPT !.state = Create, !.jip = late]]
      /\ toClient' = [toClient EXCEPT ![p] = Greeting(late)]
      /\ toServer' = [toServer EXCEPT ![p] = <<>>] /\ client' = [client EXCEPT ![p] = NewClient]
      /\ UNCHANGED <<state, report, roles, files>>
  <2>1. /\ info' = [info EXCEPT ![p] = [Absent EXCEPT !.state = Create, !.jip = (state >= Transfer)]]
        /\ toClient' = [toClient EXCEPT ![p] = Greeting(state >= Transfer)]
        /\ toServer' = [toServer EXCEPT ![p] = <<>>] /\ client' = [client EXCEPT ![p] = NewClient]
        /\ UNCHANGED <<serverVars, files>>
    BY Zenon DEF Join
  <2> QED BY <1>4, <1>5, <2>1, Zenon DEF serverVars
<1>7. info'[p].state = Create /\ info'[p].valid = FALSE /\ info'[p].ident = FALSE
  BY <1>1, <1>6 DEF Absent
<1>8. client'[p] = NewClient /\ toServer'[p] = <<>> /\ toClient'[p] = Greeting(late)
  BY <1>1, <1>6 DEF Tabled
<1>9. PICK q : q = <<State(Create)>> \o <<Player>>
  OBVIOUS
<1>10. toClient'[p] = q
  <2>1. State(Create) \in Messages /\ Player \in Messages
    BY QuietOnes DEF Messages
  <2>2. q \in Seq(Messages) /\ q = <<State(Create), Player>>
    <3>1. PICK x \in Messages : x = State(Create)
      BY <2>1
    <3>2. PICK y \in Messages : y = Player
      BY <2>1
    <3>3. q = <<x>> \o <<y>>
      BY <1>9, <3>1, <3>2, Zenon
    <3>4. q = <<x, y>>
      BY <3>1, <3>2, <3>3, PairOf, Zenon
    <3>5. <<x, y>> \in Seq(Messages)
      BY <3>1, <3>2
    <3> QED BY <3>1, <3>2, <3>4, <3>5
  <2>3. <<State(Create), Player>> \o <<>> = q
    <3>1. \A x \in Seq(Messages) : x \o <<>> = x
      OBVIOUS
    <3> QED BY <2>2, <3>1
  <2>4. Greeting(FALSE) = <<State(Create), Player>> \o <<>>
    BY DEF Greeting, When
  <2> QED BY <1>5, <1>8, <2>3, <2>4, Zenon
<1>11. PICK b : b = View(p)'
  OBVIOUS
<1>12. PICK t : t = client'[p].roles
  OBVIOUS
<1>13. Fresh(b)
  <2>1. /\ b.phase = state' /\ b.report = report' /\ b.info = info'[p].state /\ b.valid = info'[p].valid
        /\ b.known = info'[p].ident /\ b.holds = Holds(roles', p)
        /\ b.state = client'[p].state /\ b.srv = client'[p].srv /\ b.head = (client'[p].head # 0)
        /\ b.all = (1 .. MaxMissions \subseteq files'[p]) /\ b.person = (client'[p].person # 0)
        /\ b.ident = client'[p].ident /\ b.screen = client'[p].screen
    BY <1>11, ViewIsNext
  <2>2. /\ client'[p].state = Creating /\ client'[p].srv = Creating /\ client'[p].head = 0
        /\ client'[p].person = 0 /\ client'[p].ident = FALSE /\ client'[p].screen = "lobby"
    BY <1>8 DEF NewClient
  <2>3. b.holds = FALSE
    <3>1. Holds(roles', p) = FALSE
      BY <1>3, <1>6 DEF Holds
    <3> QED BY <2>1, <3>1, Zenon
  <2>4. b.all \in BOOLEAN
    BY <2>1
  <2> QED BY <1>1, <1>2, <1>6, <1>7, <2>1, <2>2, <2>3, <2>4 DEF Fresh
<1>14. PICK z : z = <<>>
  OBVIOUS
<1>15. PICK rs : rs = roles'
  OBVIOUS
<1>16. Fits(p, b, t, rs, q, z)
  BY <1>1, <1>9, <1>13, <1>14, FreshFits
<1>17. Fits(p, View(p)', client'[p].roles, roles', toClient'[p], toServer'[p])
  BY <1>8, <1>10, <1>11, <1>12, <1>14, <1>15, <1>16
<1>18. Recorded(client'[p], files'[p])
  <2>1. DOMAIN NewClient = Fields
    BY DEF NewClient, Fields
  <2>2. NewClient.jip = FALSE /\ NewClient.head = 0 /\ NewClient.valid = FALSE
    BY DEF NewClient
  <2>3. 0 \in 0 .. MaxMissions
    BY BoundsAssumption
  <2> QED BY <1>8, <2>1, <2>2, <2>3 DEF Recorded
<1> QED BY <1>17, <1>18 DEF Fitted

LEMMA LeaveFits ==
    ASSUME Session, Around, NEW p \in Players, Leave(p), NEW o \in Staying, o # p, Fitted(o)
    PROVE  Fitted(o)'
<1>1. PICK a : a = View(o)
  OBVIOUS
<1>2. /\ o \in Players /\ Core(a) /\ info[o].state # None /\ roles \in SlotTable /\ mission \in Nat
      /\ toClient[o] \in Seq(Messages)
  BY <1>1, Facing
<1>3. /\ info \in [Players -> InfoType] /\ toServer \in [Players -> Seq(Requests)] /\ Tabled /\ IInv /\ Once(roles)
  BY Unfolded DEF Around
<1>4. /\ info' = [info EXCEPT ![p] = Absent] /\ toServer' = [toServer EXCEPT ![p] = <<>>]
      /\ client' = [client EXCEPT ![p] = NewClient] /\ UNCHANGED <<state, report, files>>
  BY DEF Leave
<1>5. info'[o] = info[o] /\ toServer'[o] = toServer[o] /\ client'[o] = client[o] /\ files'[o] = files[o]
  BY <1>2, <1>3, <1>4 DEF Tabled
<1>6. PICK quiet : quiet = [toClient EXCEPT ![p] = <<>>]
  OBVIOUS
<1>7. quiet[o] = toClient[o]
  BY <1>2, <1>3, <1>6 DEF Tabled
<1>8. CASE Holds(roles, p)
  <2>1. PICK r : r = SlotOf(roles, p)
    OBVIOUS
  <2>2. roles' = [roles EXCEPT ![r] = AI] /\ toClient' = Send(quiet, Present \ {p}, <<Role(r, AI)>>)
    BY <1>6, <1>8, <2>1, Zenon DEF Leave
  <2>3. r \in Slots /\ roles[r] = p
    BY <1>2, <1>3, <1>8, <2>1, SlotFound
  <2>4. PICK m : m = Changes(r, AI, FALSE, r)
    OBVIOUS
  <2>5. m = <<Role(r, AI)>>
    BY <2>4 DEF Changes, When
  <2>6. toClient'[o] = toClient[o] \o m
    <3>1. o \in Present \ {p}
      BY <1>2 DEF Present
    <3>2. toClient'[o] = IF o \in Present \ {p} THEN quiet[o] \o <<Role(r, AI)>> ELSE quiet[o]
      BY <1>2, <2>2, SendEach
    <3> QED BY <1>7, <2>5, <3>1, <3>2
  <2>7. Holds(roles', o) = Holds(roles, o)
    BY <1>2, <2>2, <2>3, PlayersAssumption DEF Holds, SlotTable
  <2>8. a = View(o)'
    BY <1>1, <1>4, <1>5, <2>7 DEF View
  <2>9. PICK rs : rs = roles
    OBVIOUS
  <2>10. PICK ss : ss = roles'
    OBVIOUS
  <2>11. ss = Changed(rs, r, AI, FALSE, r)
    BY <1>2, <2>2, <2>9, <2>10 DEF Changed, SlotTable
  <2>12. Sends(o, a, a, rs, ss, m)
    <3>1. PICK c \in BOOLEAN : c = FALSE
      OBVIOUS
    <3>2. PICK w \in Players \cup {AI} : w = AI
      OBVIOUS
    <3>3. ss = Changed(rs, r, w, c, r) /\ m = Changes(r, w, c, r) /\ (c => r \in Slots)
      BY <2>4, <2>11, <3>1, <3>2
    <3>4. rs \in SlotTable
      BY <1>2, <2>9
    <3> QED BY <1>2, <2>3, <3>3, <3>4, RoleSends
  <2> QED BY <1>1, <1>5, <2>6, <2>8, <2>9, <2>10, <2>12, OtherStep
<1>9. CASE ~Holds(roles, p)
  <2>1. toClient' = quiet /\ UNCHANGED roles
    BY <1>6, <1>9, Zenon DEF Leave
  <2> QED BY <1>4, <1>5, <1>7, <2>1, Untouched
<1> QED BY <1>8, <1>9

LEMMA SentTo ==
    ASSUME NEW p \in Players, NEW m
    PROVE  SendTo(p, m)[p] = toClient[p] \o m
BY DEF SendTo, Send

(* What the server takes of another player, and answers him alone.         *)
LEMMA AloneFits ==
    ASSUME Around, NEW p \in Players, NEW o \in Players, o # p, Fitted(o), NEW t, Heard(p, t),
           UNCHANGED <<state, report, roles, client, files>>,
           NEW x, info' = info \/ info' = [info EXCEPT ![p] = x],
           NEW m, UNCHANGED toClient \/ toClient' = SendTo(p, m)
    PROVE  Fitted(o)'
<1>1. info \in [Players -> InfoType] /\ toServer \in [Players -> Seq(Requests)]
  BY Unfolded DEF Around
<1>2. info'[o] = info[o] /\ toServer'[o] = toServer[o]
  BY <1>1 DEF Heard
<1>3. toClient'[o] = toClient[o]
  BY SendEach DEF SendTo
<1>4. client'[o] = client[o] /\ files'[o] = files[o]
  OBVIOUS
<1> QED BY <1>2, <1>3, <1>4, Untouched

(* What the player says first is one of the things he can say.             *)
LEMMA SaidFirst ==
    ASSUME Around, NEW p \in Staying, Fitted(p), NEW a, a = View(p), NEW t, Heard(p, t)
    PROVE  /\ Head(toServer[p]) \in Proper(p, a) /\ Head(toServer[p]).type = t
           /\ a.report = FALSE /\ IInv
           /\ t = "login" => ~a.known
<1>1. toServer[p] \in Seq(Proper(p, a)) /\ Greeted(a, toClient[p], toServer[p])
  BY FittedParts
<1>2. toServer[p] # <<>> /\ Head(toServer[p]).type = t /\ ~report
  BY DEF Heard
<1>3. PICK q \in Seq(Proper(p, a)) : q = toServer[p]
  BY <1>1
<1>4. Head(q) \in Proper(p, a) /\ 1 \in 1 .. Len(q) /\ q[1] = Head(q)
  BY <1>2, <1>3
<1>5. t = "login" => ~a.known
  BY <1>1, <1>2, <1>3, <1>4 DEF Greeted, Free
<1>6. a.report = FALSE
  BY <1>2, Facing
<1> QED BY <1>2, <1>3, <1>4, <1>5, <1>6 DEF Around

LEMMA SilentFits ==
    ASSUME NEW p \in Players, IInv, Fitted(p), NEW t, Heard(p, t), UNCHANGED <<client, files, roles>>,
           NEW a, a = View(p), NEW b, b = View(p)', toClient[p] \in Seq(Messages),
           toClient'[p] = toClient[p], Reads(a, b, Head(toServer[p])), b.known = a.known,
           \A d : Leaves(a, roles, d) => Leaves(b, roles, d)
    PROVE  Fitted(p)'
<1>1. PICK m : m = <<>>
  OBVIOUS
<1>2. toClient'[p] = toClient[p] \o m
  BY <1>1
<1>3. PICK rs : rs = roles
  OBVIOUS
<1>4. \A d : Leaves(a, rs, d) /\ (a.head => d.head) /\ (a.all => d.file) => Leaves(b, rs, d)
  BY <1>3
<1>5. Sends(p, a, b, rs, rs, m)
  BY <1>1, <1>4, NothingSends
<1>6. Sends(p, a, b, roles, roles', m)
  BY <1>3, <1>5
<1> QED BY <1>2, <1>6, HeardStep

LEMMA LoginFits ==
    ASSUME Session, Around, NEW p \in Staying, Fitted(p), OnLogin(p)
    PROVE  Fitted(p)'
<1>1. PICK a : a = View(p)
  OBVIOUS
<1>2. PICK b : b = View(p)'
  OBVIOUS
<1>3. PICK x \in InfoType : x = info[p]
  BY <1>1, Facing
<1>4. /\ p \in Players /\ Core(a) /\ ~x.jip /\ mission \in 0 .. MaxMissions /\ mission \in Nat
      /\ toClient[p] \in Seq(Messages) /\ roles \in SlotTable
      /\ state \in ServerPhases \ {PrepareRole} /\ (mission = 0 => state = Create)
      /\ a.phase = state /\ a.report = report /\ a.info = x.state /\ a.valid = x.valid
      /\ a.known = x.ident /\ a.holds = Holds(roles, p) /\ a.valid \in BOOLEAN
  BY <1>1, <1>3, Facing
<1>5. Heard(p, "login")
  BY DEF OnLogin
<1>6. Head(toServer[p]).type = "login" /\ ~a.known /\ a.report = FALSE /\ IInv
  BY <1>1, <1>5, SaidFirst
<1>7. PICK playing : playing = FALSE
  OBVIOUS
<1>8. (info[p].jip /\ state >= Play) = playing
  BY <1>3, <1>4, <1>7
<1>9. PICK lobby \in BOOLEAN : lobby <=> state >= PrepareSide
  OBVIOUS
<1>10. (~playing /\ state >= PrepareSide) = lobby
  BY <1>7, <1>9
<1>11. PICK s : s = IF state > PrepareRole THEN PrepareRole ELSE state
  OBVIOUS
<1>12. PICK late : late = (~playing /\ state = Play)
  OBVIOUS
<1>13. late = FALSE
  <2>1. a.phase # Play
    BY <1>4, <1>6 DEF Core, OnServer, OnClient
  <2>2. (~playing /\ state = Play) = FALSE
    BY <1>4, <2>1
  <2> QED BY <1>12, <2>2, Zenon
<1>14. PICK h : h = Header(mission, roles)
  OBVIOUS
<1>15. PICK m : m = (<<Identity>> \o When(lobby, <<h>>)) \o <<State(s)>>
  OBVIOUS
<1>16. PICK y : y = Identified(x, playing, lobby)
  OBVIOUS
<1>17. PICK n : n = m \o When(late, <<TimeElapsed>>)
  OBVIOUS
<1>18. /\ info' = [info EXCEPT ![p] = y] /\ toClient' = SendTo(p, n)
       /\ UNCHANGED <<state, report, roles, client, files>>
  <2> DEFINE P == info[p].jip /\ state >= Play
             L == ~P /\ state >= PrepareSide
             S == IF state > PrepareRole THEN PrepareRole ELSE state
             T == ~P /\ state = Play
             M == (<<Identity>> \o When(L, <<Header(mission, roles)>>)) \o <<State(S)>>
             N == M \o When(T, <<TimeElapsed>>)
  <2>1. /\ info' = [info EXCEPT ![p] = Identified(info[p], P, L)] /\ toClient' = SendTo(p, N)
        /\ UNCHANGED <<serverVars, client, files>>
    BY DEF OnLogin
  <2>2. P = playing
    BY <1>8, Zenon
  <2> HIDE DEF P
  <2>3. L = lobby
    BY <1>10, <2>2, Zenon
  <2>4. T = late
    BY <1>12, <2>2, Zenon
  <2>5. S = s
    BY <1>11, Zenon
  <2> HIDE DEF L, T, S
  <2>6. M = m
    BY <1>14, <1>15, <2>3, <2>5, Zenon
  <2> HIDE DEF M
  <2>7. N = n
    BY <1>17, <2>4, <2>6, Zenon
  <2>8. info' = [info EXCEPT ![p] = y]
    BY <1>3, <1>16, <2>1, <2>2, <2>3, Zenon
  <2> HIDE DEF N
  <2>9. toClient' = SendTo(p, n)
    BY <2>1, <2>7, Zenon
  <2> QED BY <2>1, <2>8, <2>9, Zenon DEF serverVars
<1>19. h \in Messages /\ State(s) \in Messages /\ Identity \in Messages
  <2>1. s \in Phases
    BY <1>4, <1>11 DEF ServerPhases
  <2> QED BY <1>4, <1>14, <2>1, TableOnes, QuietOnes DEF Messages
<1>20. m \in Seq(Messages)
  <2>1. <<Identity>> \in Seq(Messages) /\ <<h>> \in Seq(Messages) /\ <<State(s)>> \in Seq(Messages)
    BY <1>19
  <2>2. When(lobby, <<h>>) \in Seq(Messages)
    BY <2>1 DEF When
  <2>3. PICK u \in Seq(Messages) : u = <<Identity>> \o When(lobby, <<h>>)
    BY <2>1, <2>2, SeqOn, Zenon
  <2> QED BY <1>15, <2>1, <2>3, SeqOn, Zenon
<1>21. n = m
  <2>1. When(late, <<TimeElapsed>>) = <<>>
    BY <1>13 DEF When
  <2>2. \A u \in Seq(Messages) : u \o <<>> = u
    OBVIOUS
  <2> QED BY <1>17, <1>20, <2>1, <2>2, Zenon
<1>22. toClient'[p] = toClient[p] \o m
  <2>1. toClient' = SendTo(p, m)
    BY <1>18, <1>21, Zenon
  <2> QED BY <1>4, <2>1, SentTo, Zenon
<1>23. /\ b.phase = a.phase /\ b.report = a.report /\ b.holds = a.holds /\ b.known = TRUE
       /\ b.info = (IF a.phase >= PrepareSide THEN PrepareSide ELSE LoggedIn)
       /\ b.valid = (a.valid /\ ~(a.phase >= PrepareSide))
  <2>1. info'[p] = y
    <3>1. info \in [Players -> InfoType]
      BY Unfolded DEF Around
    <3> QED BY <1>4, <1>18, <3>1
  <2>2. /\ y.state = (IF lobby THEN PrepareSide ELSE LoggedIn) /\ y.ident = TRUE
        /\ y.valid = (x.valid /\ ~playing /\ ~lobby)
    BY <1>7, <1>16 DEF Identified
  <2>3. b.phase = state' /\ b.report = report' /\ b.info = info'[p].state /\ b.valid = info'[p].valid
        /\ b.known = info'[p].ident /\ b.holds = Holds(roles', p)
    BY <1>2, ViewIsNext
  <2>4. b.holds = a.holds
    BY <1>4, <1>18, <2>3, Zenon
  <2>5. b.info = IF lobby THEN PrepareSide ELSE LoggedIn
    BY <2>1, <2>2, <2>3
  <2>6. b.valid = (a.valid /\ ~(a.phase >= PrepareSide))
    <3>1. b.valid = (x.valid /\ ~playing /\ ~lobby)
      BY <2>1, <2>2, <2>3
    <3>2. (x.valid /\ ~playing /\ ~lobby) = (a.valid /\ ~(a.phase >= PrepareSide))
      BY <1>4, <1>7, <1>9
    <3> QED BY <3>1, <3>2, Zenon
  <2> QED BY <1>4, <1>9, <1>18, <2>1, <2>2, <2>3, <2>4, <2>5, <2>6
<1>24. SameClient(a, b)
  BY <1>1, <1>2, <1>18, ViewClient
<1>25. Reads(a, b, Head(toServer[p])) /\ ~Hearable(a, Briefing)
  BY <1>4, <1>6, <1>23, <1>24, LoginReads
<1>26. PICK rs \in SlotTable : rs = roles
  BY <1>4
<1>27. PICK k : k = mission
  OBVIOUS
<1>28. lobby => k \in 1 .. MaxMissions
  BY <1>4, <1>9, <1>27, BoundsAssumption
<1>29. m = (<<Identity>> \o When(lobby, <<Header(k, rs)>>)) \o <<State(s)>>
  BY <1>14, <1>15, <1>26, <1>27, Zenon
<1>30. lobby <=> a.phase >= PrepareSide
  BY <1>4, <1>9
<1>31. s = IF a.phase > PrepareRole THEN PrepareRole ELSE a.phase
  BY <1>4, <1>11
<1>32. Sends(p, a, b, rs, rs, m)
  BY <1>4, <1>6, <1>23, <1>24, <1>25, <1>28, <1>29, <1>30, <1>31, LoginSends
<1>33. Sends(p, a, b, roles, roles', m)
  BY <1>18, <1>26, <1>32
<1>34. UNCHANGED <<client, files>> /\ b.known = TRUE
  BY <1>18, <1>23
<1> QED BY <1>1, <1>2, <1>4, <1>5, <1>6, <1>22, <1>25, <1>33, <1>34, HeardStep

LEMMA AskFits ==
    ASSUME Session, Around, NEW p \in Staying, Fitted(p), OnAskMissionFile(p)
    PROVE  Fitted(p)'
<1>1. PICK a : a = View(p)
  OBVIOUS
<1>2. PICK b : b = View(p)'
  OBVIOUS
<1>3. PICK x \in InfoType : x = info[p]
  BY <1>1, Facing
<1>4. /\ p \in Players /\ Core(a) /\ toClient[p] \in Seq(Messages)
      /\ a.phase = state /\ a.report = report /\ a.info = x.state /\ a.valid = x.valid
      /\ a.known = x.ident /\ a.holds = Holds(roles, p)
  BY <1>1, <1>3, Facing
<1>5. Heard(p, "ask")
  BY DEF OnAskMissionFile
<1>6. PICK m : m = Head(toServer[p])
  OBVIOUS
<1>7. m.type = "ask" /\ m \in Proper(p, a) /\ IInv
  BY <1>1, <1>5, <1>6, SaidFirst
<1>8. m.valid \in BOOLEAN /\ (m.valid => a.all)
  BY <1>7, ProperTyped
<1>9. /\ info' = [info EXCEPT ![p].valid = @ \/ m.valid]
      /\ UNCHANGED <<state, report, roles, toClient, client, files>>
  BY <1>6 DEF OnAskMissionFile, serverVars
<1>10. info \in [Players -> InfoType]
  BY Unfolded DEF Around
<1>11. info'[p] = [x EXCEPT !.valid = x.valid \/ m.valid]
  BY <1>3, <1>4, <1>9, <1>10
<1>12. /\ b.phase = a.phase /\ b.report = a.report /\ b.holds = a.holds /\ b.known = a.known
       /\ b.info = a.info /\ b.valid = (a.valid \/ m.valid)
  <2>1. b.phase = state' /\ b.report = report' /\ b.info = info'[p].state /\ b.valid = info'[p].valid
        /\ b.known = info'[p].ident /\ b.holds = Holds(roles', p)
    BY <1>2, ViewIsNext
  <2>2. b.holds = a.holds
    BY <1>4, <1>9, <2>1, Zenon
  <2>3. info'[p].state = x.state /\ info'[p].ident = x.ident /\ info'[p].valid = (x.valid \/ m.valid)
    BY <1>3, <1>11 DEF InfoType
  <2> QED BY <1>4, <1>9, <2>1, <2>2, <2>3
<1>13. SameClient(a, b)
  BY <1>1, <1>2, <1>9, ViewClient
<1>14. Reads(a, b, m)
  BY <1>4, <1>7, <1>8, <1>12, <1>13, AskReads
<1>15. \A d : Leaves(a, roles, d) => Leaves(b, roles, d)
  BY <1>12 DEF Leaves
<1>16. Reads(a, b, Head(toServer[p])) /\ toClient'[p] = toClient[p] /\ UNCHANGED <<client, files, roles>>
  BY <1>6, <1>9, <1>14
<1> QED BY <1>1, <1>2, <1>4, <1>5, <1>7, <1>12, <1>15, <1>16, SilentFits

(* What a player says of his own phase leads the server where his client is led. *)
LEMMA ReadyLeaves ==
    ASSUME NEW a, NEW b, Core(a), NEW m, m.type = "ready", m.state \in Phases,
           Rank(Over(a), m) \in Least(a) .. Bound(a),
           b.phase = a.phase, b.holds = a.holds,
           b.info = IF a.phase \in Transfer .. Briefing /\ a.info >= Transfer /\ m.state <= PrepareOK
                    THEN a.info ELSE m.state,
           NEW rs, NEW d, Leaves(a, rs, d)
    PROVE  Leaves(b, rs, d)
<1>1. /\ a.phase \in {Create, PrepareSide, Transfer, LoadIsland, Briefing, Play, Debriefing}
      /\ a.info \in Phases /\ a.screen \in Screens /\ a.state \in Phases /\ a.holds \in BOOLEAN
  BY DEF Core, Views, OnServer
<1>2. CASE b.info = a.info
  BY <1>2 DEF Leaves
<1>3. CASE b.info # a.info /\ b.info = m.state
           /\ ~(a.phase \in Transfer .. Briefing /\ a.info >= Transfer /\ m.state <= PrepareOK)
  <2>1. m.state \notin {LoadIsland, Transfer, None} \/ m.state = None
    BY <1>1 DEF Rank, Bound, Screens
  <2>2. m.state # LoadIsland /\ m.state # Transfer
    BY <1>1 DEF Rank, Bound, Screens
  <2>3. CASE a.phase # Briefing
    BY <1>3, <2>2, <2>3 DEF Leaves
  <2>4. CASE a.phase = Briefing
    <3>1. ~Over(a)
      BY <2>4 DEF Over
    <3>2. a.screen \notin {"mission", "debriefing"}
      BY <3>1 DEF Core, OnScreen
    <3>3. m.state >= Briefing => a.info >= Briefing
      <4>1. SUFFICES ASSUME m.state >= Briefing
                     PROVE  a.info >= Briefing
        OBVIOUS
      <4>2. Rank(Over(a), m) \in {2, 3}
        BY <1>1, <4>1 DEF Rank
      <4>3. a.screen \in {"getready", "launched"}
        BY <1>1, <2>4, <3>1, <3>2, <4>2 DEF Bound, Screens
      <4>4. a.state = Briefing
        BY <2>4, <4>3 DEF Core, OnScreen
      <4> QED BY <2>4, <3>1, <4>4 DEF Core, OnClient
    <3>4. a.info >= Transfer => m.state >= Briefing
      <4>1. SUFFICES ASSUME a.info >= Transfer
                     PROVE  m.state >= Briefing
        OBVIOUS
      <4>2. m.state > PrepareOK
        BY <1>1, <1>3, <2>4, <4>1
      <4>3. Least(a) >= 1
        BY <2>4, <3>1, <4>1 DEF Least
      <4>4. m.state # DebriefingOK
        BY <3>1, <4>3, BoundsTyped DEF Rank
      <4>5. Bound(a) <= 3
        BY <1>1, <2>4, <3>1, <3>2 DEF Bound, Screens
      <4>6. m.state # Debriefing
        BY <4>5, <3>1, BoundsTyped DEF Rank
      <4> QED BY <2>2, <4>2, <4>4, <4>6
    <3> QED BY <1>1, <1>3, <2>2, <2>4, <3>3, <3>4 DEF Leaves
  <2> QED BY <2>3, <2>4
<1> QED BY <1>2, <1>3

LEMMA ReadyFits ==
    ASSUME Session, Around, NEW p \in Staying, Fitted(p), OnReady(p) \/ OnReadyBriefing(p)
    PROVE  Fitted(p)'
<1>1. PICK a : a = View(p)
  OBVIOUS
<1>2. PICK b : b = View(p)'
  OBVIOUS
<1>3. PICK x \in InfoType : x = info[p]
  BY <1>1, Facing
<1>4. /\ p \in Players /\ Core(a) /\ toClient[p] \in Seq(Messages) /\ x.jip = FALSE
      /\ state \in ServerPhases
      /\ a.phase = state /\ a.report = report /\ a.info = x.state /\ a.valid = x.valid
      /\ a.known = x.ident /\ a.holds = Holds(roles, p)
  BY <1>1, <1>3, Facing DEF InfoType
<1>5. Heard(p, "ready")
  BY DEF OnReady, OnReadyBriefing
<1>6. PICK m : m = Head(toServer[p])
  OBVIOUS
<1>7. m.type = "ready" /\ m \in Proper(p, a) /\ IInv
  BY <1>1, <1>5, <1>6, SaidFirst
<1>8. m.state \in Phases /\ Rank(Over(a), m) \in Least(a) .. Bound(a)
  BY <1>7, ProperTyped
<1>9. UNCHANGED <<state, report, roles, client, files>>
  BY DEF OnReady, OnReadyBriefing, serverVars
<1>10. info \in [Players -> InfoType]
  BY Unfolded DEF Around
<1>11. PICK n \in Phases : n = IF a.phase \in Transfer .. Briefing /\ a.info >= Transfer /\ m.state <= PrepareOK
                               THEN a.info ELSE m.state
  BY <1>3, <1>4, <1>8 DEF InfoType
<1>12. info'[p] = x \/ info'[p] = [x EXCEPT !.state = m.state]
  <2>1. info' = info \/ info' = [info EXCEPT ![p].state = m.state]
    <3>1. CASE OnReady(p)
      BY <1>6, <3>1, Zenon DEF OnReady
    <3>2. CASE OnReadyBriefing(p)
      BY <1>3, <1>4, <1>6, <3>2 DEF OnReadyBriefing
    <3> QED BY <3>1, <3>2
  <2> QED BY <1>3, <1>4, <1>10, <2>1
<1>13. info'[p].state = n
  <2>1. CASE OnReady(p)
    <3>1. info' = IF Stale(m.state, x) THEN info ELSE [info EXCEPT ![p].state = m.state]
      BY <1>3, <1>6, <2>1, Zenon DEF OnReady
    <3>2. Stale(m.state, x) <=> a.phase \in Transfer .. Briefing /\ a.info >= Transfer /\ m.state <= PrepareOK
      BY <1>4 DEF Stale
    <3> QED BY <1>3, <1>4, <1>10, <1>11, <3>1, <3>2 DEF InfoType
  <2>2. CASE OnReadyBriefing(p)
    <3>1. info' = [info EXCEPT ![p].state = Briefing] /\ m.state = Briefing
      BY <1>3, <1>4, <1>6, <2>2 DEF OnReadyBriefing
    <3>2. n = Briefing
      BY <1>11, <3>1
    <3> QED BY <1>3, <1>4, <1>10, <3>1, <3>2 DEF InfoType
  <2> QED BY <2>1, <2>2
<1>14. /\ b.phase = a.phase /\ b.report = a.report /\ b.holds = a.holds /\ b.known = a.known
       /\ b.valid = a.valid /\ b.info = n
  <2>1. b.phase = state' /\ b.report = report' /\ b.info = info'[p].state /\ b.valid = info'[p].valid
        /\ b.known = info'[p].ident /\ b.holds = Holds(roles', p)
    BY <1>2, ViewIsNext
  <2>2. b.holds = a.holds
    BY <1>4, <1>9, <2>1, Zenon
  <2>3. info'[p].ident = x.ident /\ info'[p].valid = x.valid
    BY <1>3, <1>12 DEF InfoType
  <2> QED BY <1>4, <1>9, <1>13, <2>1, <2>2, <2>3
<1>15. SameClient(a, b)
  BY <1>1, <1>2, <1>9, ViewClient
<1>16. Reads(a, b, m) /\ ~(a.phase = Play /\ a.info = Briefing)
  BY <1>4, <1>7, <1>8, <1>11, <1>14, <1>15, ReadyReads
<1>17. toClient'[p] = toClient[p]
  <2>1. CASE OnReadyBriefing(p)
    BY <1>3, <1>4, <2>1 DEF OnReadyBriefing
  <2>2. CASE OnReady(p)
    <3>1. PICK c1, c2, m2 :
             /\ c1 = (m.state = Play /\ x.state = Briefing /\ state >= Play)
             /\ c2 = (~Stale(m.state, x) /\ m.state = PrepareOK /\ x.jip /\ state >= Briefing)
             /\ m2 = <<State(Transfer)>> \o When(~x.valid, <<File>>) \o <<State(LoadIsland), State(Briefing)>>
      OBVIOUS
    <3>2. toClient' = SendTo(p, When(c1, <<State(Play)>>) \o When(c2, m2))
      BY <1>3, <1>6, <2>2, <3>1, Zenon DEF OnReady
    <3>3. ~(m.state = Play /\ x.state = Briefing /\ state >= Play)
      BY <1>4, <1>16 DEF ServerPhases
    <3>4. ~(~Stale(m.state, x) /\ m.state = PrepareOK /\ x.jip /\ state >= Briefing)
      BY <1>4
    <3>5. ~c1 /\ ~c2
      BY <3>1, <3>3, <3>4, Zenon
    <3>6. When(c1, <<State(Play)>>) = <<>> /\ When(c2, m2) = <<>>
      BY <3>5, Zenon DEF When
    <3>7. toClient' = SendTo(p, <<>> \o <<>>)
      BY <3>2, <3>6, Zenon
    <3>8. toClient'[p] = toClient[p] \o (<<>> \o <<>>)
      BY <1>4, <3>7, SentTo, Zenon
    <3> QED BY <1>4, <3>8
  <2> QED BY <2>1, <2>2
<1>18. \A d : Leaves(a, roles, d) => Leaves(b, roles, d)
  BY <1>4, <1>7, <1>8, <1>11, <1>14, ReadyLeaves
<1>19. Reads(a, b, Head(toServer[p])) /\ UNCHANGED <<client, files, roles>>
  BY <1>6, <1>9, <1>16
<1> QED BY <1>1, <1>2, <1>4, <1>5, <1>7, <1>14, <1>17, <1>18, <1>19, SilentFits

-----------------------------------------------------------------------------
(* A slot is asked for.                                                    *)

(* The slots after the request has been granted, as the messages say it.    *)
ClaimTable(r, w) == [s \in Slots |-> IF s = r THEN w ELSE IF s \in GivenUp(r, w) THEN AI ELSE roles[s]]

LEMMA ClaimChanged ==
    ASSUME IInv, NEW r \in Slots, NEW w \in Players \cup {AI},
           NEW c \in BOOLEAN, c <=> GivenUp(r, w) # {}, NEW o, o = SlotOf(roles, w)
    PROVE  /\ c => o \in Slots /\ roles[o] = w /\ o # r /\ w # AI
           /\ ClaimTable(r, w) = Changed(roles, r, w, c, o)
<1>1. roles \in SlotTable /\ Once(roles)
  BY Unfolded
<1>2. c <=> w # AI /\ Holds(roles, w) /\ o # r
  BY DEF GivenUp
<1>3. GivenUp(r, w) = IF c THEN {o} ELSE {}
  BY <1>2 DEF GivenUp
<1>4. c => o \in Slots /\ roles[o] = w /\ o # r /\ w # AI
  <2> SUFFICES ASSUME c PROVE o \in Slots /\ roles[o] = w /\ o # r /\ w # AI
    OBVIOUS
  <2>1. w \in Players /\ Holds(roles, w) /\ o # r
    BY <1>2
  <2> QED BY <1>1, <2>1, SlotFound, PlayersAssumption
<1>5. \A s \in Slots : (IF s = r THEN w ELSE IF s \in GivenUp(r, w) THEN AI ELSE roles[s])
                       = (IF c /\ s = o THEN AI ELSE IF s = r THEN w ELSE roles[s])
  BY <1>3, <1>4
<1> QED BY <1>4, <1>5 DEF ClaimTable, Changed

(* What is then under way to the players, but for what the one that asks has
   missed; and the whole step.                                               *)
ClaimHeard(r, w) ==
    Send(toClient, Present, <<Role(r, w)>> \o When(GivenUp(r, w) # {}, <<Role(SlotOf(roles, w), AI)>>))
ClaimDone(p, r, w, rs, q) ==
    /\ Open(info[p]) /\ roles' = rs
    /\ roles[r] \in {AI, p} /\ (w = AI => roles[r] = p)
    /\ IF MissesMission(p, rs)
       THEN info' = [info EXCEPT ![p] = CaughtUp(p, rs)] /\ toClient' = Send(q, {p}, Missed(p, rs))
       ELSE toClient' = q /\ UNCHANGED info

(* A request of a player that is no admin, part by part.                   *)
LEMMA ClaimParts ==
    ASSUME Around, NEW p \in Players, OnClaim(p), NEW r, r = Head(toServer[p]).slot,
           NEW w, w = Head(toServer[p]).player
    PROVE  /\ Heard(p, "claim") /\ r \in Slots /\ w \in {AI, p} /\ w \in Players \cup {AI} /\ IInv
           /\ UNCHANGED <<state, report, client, files>>
           /\ \/ UNCHANGED <<roles, info, toClient>>
              \/ ClaimDone(p, r, w, ClaimTable(r, w), ClaimHeard(r, w))
<1>1. Heard(p, "claim") /\ UNCHANGED <<state, report, client, files>>
  BY DEF OnClaim
<1>2. Head(toServer[p]) \in Asks(p) /\ Head(toServer[p]) \in Requests /\ Head(toServer[p]).type = "claim"
  BY <1>1, AskedOf
<1>3. r \in Slots /\ w \in {AI, p} /\ w \in Players \cup {AI}
  BY <1>2, RequestTyped DEF Asks
<1>4. p # master /\ p # AI
  BY PlayersAssumption DEF Around, Calm
<1>5. PICK rs : rs = ClaimTable(r, w)
  OBVIOUS
<1>6. rs = [s \in Slots |-> IF s = r THEN w ELSE IF s \in GivenUp(r, w) THEN AI ELSE roles[s]]
  BY <1>5 DEF ClaimTable
<1>7. PICK q : q = ClaimHeard(r, w)
  OBVIOUS
<1>8. CASE ~(Open(info[p]) /\ Granted(p, r, w))
  <2>1. UNCHANGED <<roles, info, toClient>>
    BY <1>8, Zenon DEF OnClaim
  <2> QED BY <1>1, <1>3, <2>1 DEF Around
<1>9. CASE Open(info[p]) /\ Granted(p, r, w)
  <2>1. /\ roles' = rs
        /\ IF MissesMission(p, rs)
           THEN /\ info' = [info EXCEPT ![p] = CaughtUp(p, rs)]
                /\ toClient' = Send(q, {p}, Missed(p, rs))
           ELSE toClient' = q /\ UNCHANGED info
    BY <1>6, <1>7, <1>9, Zenon DEF OnClaim, ClaimHeard, ClaimTable
  <2>2. RoleSwapAllowed(roles[r], w, p)
    BY <1>4, <1>9 DEF Granted
  <2>3. roles[r] \in {AI, p} /\ (w = AI => roles[r] = p)
    BY <1>4, <2>2 DEF RoleSwapAllowed
  <2>4. ClaimDone(p, r, w, rs, q)
    BY <1>9, <2>1, <2>3, Zenon DEF ClaimDone
  <2> QED BY <1>1, <1>3, <1>5, <1>7, <2>4 DEF Around
<1> QED BY <1>8, <1>9

LEMMA OthersClaimFits ==
    ASSUME Session, Around, NEW p \in Players, OnClaim(p), NEW o \in Staying, o # p, Fitted(o)
    PROVE  Fitted(o)'
<1>1. PICK a : a = View(o)
  OBVIOUS
<1>2. /\ o \in Players /\ info[o].state # None /\ roles \in SlotTable /\ mission \in Nat /\ Core(a)
  BY <1>1, Facing
<1>3. PICK r : r = Head(toServer[p]).slot
  OBVIOUS
<1>4. PICK w : w = Head(toServer[p]).player
  OBVIOUS
<1>5. /\ Heard(p, "claim") /\ r \in Slots /\ w \in {AI, p} /\ w \in Players \cup {AI} /\ IInv
      /\ UNCHANGED <<state, report, client, files>>
  BY <1>3, <1>4, ClaimParts, Zenon
<1>6. info \in [Players -> InfoType] /\ toServer \in [Players -> Seq(Requests)]
  BY Unfolded DEF Around
<1>7. toServer'[o] = toServer[o] /\ client'[o] = client[o] /\ files'[o] = files[o]
  BY <1>2, <1>5, <1>6 DEF Heard
<1>8. CASE UNCHANGED <<roles, info, toClient>>
  BY <1>2, <1>5, <1>7, <1>8, Untouched
<1>9. CASE ~UNCHANGED <<roles, info, toClient>>
  <2>1. PICK c \in BOOLEAN : c <=> GivenUp(r, w) # {}
    OBVIOUS
  <2>2. PICK oo : oo = SlotOf(roles, w)
    OBVIOUS
  <2>3. PICK rs : rs = ClaimTable(r, w)
    OBVIOUS
  <2>4. (c => oo \in Slots /\ roles[oo] = w /\ oo # r /\ w # AI) /\ rs = Changed(roles, r, w, c, oo)
    BY <1>5, <2>1, <2>2, <2>3, ClaimChanged
  <2>5. PICK m : m = Changes(r, w, c, oo)
    OBVIOUS
  <2>6. PICK q : q = ClaimHeard(r, w)
    OBVIOUS
  <2>7. q = Send(toClient, Present, m)
    BY <2>1, <2>2, <2>5, <2>6, Zenon DEF Changes, ClaimHeard
  <2>8. q[o] = toClient[o] \o m
    <3>1. o \in Present
      BY <1>2 DEF Present
    <3>2. PICK to : to = Present
      OBVIOUS
    <3>3. q[o] = IF o \in to THEN toClient[o] \o m ELSE toClient[o]
      BY <1>2, <2>7, <3>2, SendEach
    <3> QED BY <3>1, <3>2, <3>3
  <2>9. /\ roles' = rs /\ roles[r] \in {AI, p}
        /\ \/ info' = [info EXCEPT ![p] = CaughtUp(p, rs)] /\ toClient' = Send(q, {p}, Missed(p, rs))
           \/ toClient' = q /\ UNCHANGED info
    <3>2. ClaimDone(p, r, w, ClaimTable(r, w), ClaimHeard(r, w))
      BY <1>3, <1>4, <1>9, ClaimParts
    <3>1. ClaimDone(p, r, w, rs, q)
      BY <2>3, <2>6, <3>2
    <3> QED BY <3>1, Zenon DEF ClaimDone
  <2>10. info'[o] = info[o]
    BY <1>2, <1>6, <2>9
  <2>11. toClient'[o] = q[o]
    BY <1>2, <2>9, SendEach
  <2>12. Holds(roles', o) = Holds(roles, o)
    <3>1. o # AI /\ o # p /\ o # w
      BY <1>2, <1>5, PlayersAssumption
    <3>2. DOMAIN rs = Slots /\ DOMAIN roles = Slots
      BY <1>2, <2>4 DEF Changed, SlotTable
    <3>3. \A s \in Slots : rs[s] = o <=> roles[s] = o
      BY <1>5, <2>4, <2>9, <3>1 DEF Changed
    <3> QED BY <2>9, <3>2, <3>3 DEF Holds
  <2>13. a = View(o)'
    BY <1>1, <1>5, <1>7, <2>10, <2>12 DEF View
  <2>14. PICK rt \in SlotTable : rt = roles
    BY <1>2
  <2>15. rs = Changed(rt, r, w, c, oo) /\ (c => oo \in Slots)
    BY <2>4, <2>14
  <2>16. Sends(o, a, a, rt, rs, m)
    BY <1>2, <1>5, <2>5, <2>15, RoleSends
  <2>17. Sends(o, a, a, roles, roles', m) /\ toClient'[o] = toClient[o] \o m
    BY <2>8, <2>9, <2>11, <2>14, <2>16
  <2> QED BY <1>1, <1>7, <2>13, <2>17, OtherStep
<1> QED BY <1>8, <1>9

LEMMA OwnClaimFits ==
    ASSUME Session, Around, NEW p \in Staying, Fitted(p), OnClaim(p)
    PROVE  Fitted(p)'
<1>1. PICK a : a = View(p)
  OBVIOUS
<1>2. PICK b : b = View(p)'
  OBVIOUS
<1>3. PICK x \in InfoType : x = info[p]
  BY <1>1, Facing
<1>4. /\ p \in Players /\ Core(a) /\ toClient[p] \in Seq(Messages) /\ x.jip = FALSE /\ x.state # None
      /\ state \in ServerPhases \ {PrepareRole} /\ roles \in SlotTable /\ mission \in Nat
      /\ a.phase = state /\ a.report = report /\ a.info = x.state /\ a.valid = x.valid
      /\ a.known = x.ident /\ a.holds = Holds(roles, p) /\ a.holds \in BOOLEAN /\ a.info \in Phases
      /\ a.valid \in BOOLEAN
  BY <1>1, <1>3, Facing DEF InfoType
<1>5. PICK r : r = Head(toServer[p]).slot
  OBVIOUS
<1>6. PICK w : w = Head(toServer[p]).player
  OBVIOUS
<1>7. /\ Heard(p, "claim") /\ r \in Slots /\ w \in {AI, p} /\ w \in Players \cup {AI} /\ IInv
      /\ UNCHANGED <<state, report, client, files>>
  BY <1>4, <1>5, <1>6, ClaimParts, Zenon
<1>8. PICK k : k = Head(toServer[p])
  OBVIOUS
<1>9. k.type = "claim" /\ k \in Proper(p, a)
  BY <1>1, <1>7, <1>8, SaidFirst
<1>10. a.ident /\ a.head /\ Rank(Over(a), k) \in Least(a) .. Bound(a)
  BY <1>9, ProperTyped
<1>11. info \in [Players -> InfoType] /\ Once(roles)
  BY Unfolded DEF Around
<1>12. SameClient(a, b)
  BY <1>1, <1>2, <1>7, ViewClient
<1>13. b.phase = state' /\ b.report = report' /\ b.info = info'[p].state /\ b.valid = info'[p].valid
       /\ b.known = info'[p].ident /\ b.holds = Holds(roles', p)
  BY <1>2, ViewIsNext
<1>14. CASE UNCHANGED <<roles, info, toClient>>
  <2>1. SameServer(a, b)
    BY <1>1, <1>2, <1>7, <1>14, ViewServer
  <2>2. Reads(a, b, k)
    BY <1>4, <1>9, <1>10, <1>12, <2>1, RefusedReads
  <2>3. \A d : Leaves(a, roles, d) => Leaves(b, roles, d)
    BY <2>1 DEF Leaves, SameServer
  <2>4. b.known = a.known /\ toClient'[p] = toClient[p] /\ UNCHANGED roles
    BY <1>14, <2>1 DEF SameServer
  <2>5. Reads(a, b, Head(toServer[p])) /\ UNCHANGED <<client, files, roles>>
    BY <1>7, <1>8, <1>14, <2>2
  <2> QED BY <1>1, <1>2, <1>4, <1>7, <2>3, <2>4, <2>5, SilentFits
<1>15. CASE ~UNCHANGED <<roles, info, toClient>>
  <2>1. PICK c \in BOOLEAN : c <=> GivenUp(r, w) # {}
    OBVIOUS
  <2>2. PICK oo : oo = SlotOf(roles, w)
    OBVIOUS
  <2>3. PICK rs : rs = ClaimTable(r, w)
    OBVIOUS
  <2>4. (c => oo \in Slots /\ roles[oo] = w /\ oo # r /\ w # AI) /\ rs = Changed(roles, r, w, c, oo)
    BY <1>7, <2>1, <2>2, <2>3, ClaimChanged
  <2>5. PICK m : m = Changes(r, w, c, oo)
    OBVIOUS
  <2>6. PICK q : q = ClaimHeard(r, w)
    OBVIOUS
  <2>7. q = Send(toClient, Present, m)
    BY <2>1, <2>2, <2>5, <2>6, Zenon DEF Changes, ClaimHeard
  <2>8. q[p] = toClient[p] \o m
    <3>1. p \in Present
      BY <1>3, <1>4 DEF Present
    <3>2. PICK to : to = Present
      OBVIOUS
    <3>3. q[p] = IF p \in to THEN toClient[p] \o m ELSE toClient[p]
      BY <1>4, <2>7, <3>2, SendEach
    <3> QED BY <3>1, <3>2, <3>3
  <2>9. /\ Open(info[p]) /\ roles' = rs /\ roles[r] \in {AI, p} /\ (w = AI => roles[r] = p)
        /\ IF MissesMission(p, rs)
           THEN info' = [info EXCEPT ![p] = CaughtUp(p, rs)] /\ toClient' = Send(q, {p}, Missed(p, rs))
           ELSE toClient' = q /\ UNCHANGED info
    <3>2. ClaimDone(p, r, w, ClaimTable(r, w), ClaimHeard(r, w))
      BY <1>4, <1>5, <1>6, <1>15, ClaimParts
    <3>1. ClaimDone(p, r, w, rs, q)
      BY <2>3, <2>6, <3>2
    <3> QED BY <3>1, Zenon DEF ClaimDone
  <2>10. a.phase = PrepareSide \/ (a.phase \in Transfer .. Briefing /\ a.info < Play)
    BY <1>3, <1>4, <2>9 DEF Open
  <2>11. b.holds \/ a.holds
    <3>1. CASE w = AI
      <4>1. Holds(roles, p)
        BY <1>4, <1>7, <2>9, <3>1 DEF Holds, SlotTable
      <4> QED BY <1>4, <4>1
    <3>2. CASE w = p
      <4>1. rs[r] = p /\ DOMAIN rs = Slots
        BY <1>7, <2>4, <3>2 DEF Changed
      <4>2. Holds(roles', p)
        BY <1>7, <2>9, <4>1 DEF Holds
      <4> QED BY <1>13, <4>2
    <3> QED BY <1>7, <3>1, <3>2
  <2>12. b.holds \in BOOLEAN
    BY <1>13 DEF Holds
  <2>13. MissesMission(p, rs) <=> Misses(a, b)
    BY <1>3, <1>4, <1>13, <2>9 DEF MissesMission, Misses
  <2>14. PICK y : y = CaughtUp(p, rs)
    OBVIOUS
  <2>15. /\ y.state = (IF a.phase >= LoadIsland THEN a.phase ELSE IF a.info > Transfer THEN a.info ELSE Transfer)
         /\ y.ident = x.ident /\ y.valid = x.valid
    BY <1>3, <1>4, <2>14 DEF CaughtUp, Largest, InfoType
  <2>16. /\ b.phase = a.phase /\ b.report = a.report /\ b.known = a.known /\ b.valid = a.valid
         /\ b.info = IF ~Misses(a, b) THEN a.info
                     ELSE IF a.phase >= LoadIsland THEN a.phase
                     ELSE IF a.info > Transfer THEN a.info ELSE Transfer
    <3>1. info'[p] = IF Misses(a, b) THEN y ELSE x
      BY <1>3, <1>4, <1>11, <2>9, <2>13, <2>14
    <3> QED BY <1>4, <1>7, <1>13, <2>15, <3>1
  <2>17. Reads(a, b, k) /\ (Misses(a, b) => ~Hearable(a, Briefing))
    BY <1>4, <1>9, <1>10, <1>12, <2>10, <2>11, <2>12, <2>16, GrantedReads
  <2>18. PICK rt \in SlotTable : rt = roles
    BY <1>4
  <2>19. rs = Changed(rt, r, w, c, oo) /\ (c => oo \in Slots)
    BY <2>4, <2>18
  <2>20. Reads(a, b, Head(toServer[p])) /\ b.known = a.known /\ UNCHANGED <<client, files>>
    BY <1>7, <1>8, <2>16, <2>17
  <2>21. CASE ~Misses(a, b)
    <3>1. b.info = a.info /\ (b.holds = a.holds \/ a.phase # Debriefing)
      BY <2>10, <2>16, <2>21
    <3>2. Sends(p, a, b, rt, rs, m)
      BY <1>4, <1>7, <2>5, <2>16, <2>19, <3>1, RoleSends
    <3>3. Sends(p, a, b, roles, roles', m) /\ toClient'[p] = toClient[p] \o m
      BY <2>8, <2>9, <2>13, <2>18, <2>21, <3>2
    <3> QED BY <1>1, <1>2, <1>4, <1>7, <2>20, <3>3, HeardStep
  <2>22. CASE Misses(a, b)
    <3>1. Holds(rs, p) /\ rs \in SlotTable /\ Once(rs)
      <4>1. Holds(rs, p)
        BY <1>13, <2>9, <2>22 DEF Misses
      <4>2. rs = [s \in Slots |-> IF s = r THEN w ELSE IF s \in GivenUp(r, w) THEN AI ELSE roles[s]]
        BY <2>3 DEF ClaimTable
      <4>3. roles' \in SlotTable /\ Once(roles')
        BY <1>7, <2>9, <4>2, OnClaimSlots
      <4> QED BY <2>9, <4>1, <4>3
    <3>2. PICK n : n = PersonOf(rs, x, p)
      OBVIOUS
    <3>3. n \in Slots
      BY <1>4, <1>7, <3>1, <3>2, PersonFound
    <3>4. Missed(p, rs) = CatchUp(a, n)
      BY <1>3, <1>4, <3>2 DEF Missed, CatchUp, Started
    <3>5. m \in Seq(Plain(b)) /\ Free("state", m)
      BY <1>4, <1>7, <2>5, <2>19, RoleOnes
    <3>6. PICK z : z = m \o CatchUp(a, n)
      OBVIOUS
    <3>7. ASSUME NEW d, Leaves(a, rt, d), a.head => d.head, a.all => d.file
          PROVE  \E e : Way(p, d, m, e) /\ Waiting(p, rs, a.valid, e)
      <4>1. Whole(d)
        BY <3>7, LeavesWhole
      <4>2. PICK f : f = Informed(p, d, r, w, c, oo)
        OBVIOUS
      <4>3. Way(p, d, m, f)
        BY <1>4, <1>7, <2>5, <2>19, <4>1, <4>2, RoleWay
      <4>4. /\ Whole(f) /\ f.state = d.state /\ f.head = d.head /\ f.file = d.file
            /\ d.roles = rt => f.roles = rs
        BY <1>7, <2>19, <4>1, <4>2, RoleKnown
      <4>5. a.phase \in Transfer .. Briefing /\ a.info < Briefing /\ (a.valid => a.all)
        BY <1>4, <2>22 DEF Misses, Core, OnClient
      <4>6. Waiting(p, rs, a.valid, f)
        BY <1>4, <1>10, <3>7, <4>4, <4>5, HeldWaits
      <4> QED BY <4>3, <4>6
    <3>8. b.info = IF a.phase >= LoadIsland THEN a.phase ELSE IF a.info > Transfer THEN a.info ELSE Transfer
      BY <2>16, <2>22
    <3>9. Core(b) /\ ~Hearable(a, Briefing)
      BY <2>17, <2>22 DEF Reads
    <3>10. Sends(p, a, b, rt, rs, z)
      BY <1>4, <1>12, <2>16, <2>22, <3>1, <3>3, <3>5, <3>6, <3>7, <3>8, <3>9, CatchUpSends
    <3>11. toClient'[p] = (toClient[p] \o m) \o CatchUp(a, n)
      <4>1. toClient' = Send(q, {p}, Missed(p, rs))
        BY <2>9, <2>13, <2>22
      <4>2. Send(q, {p}, Missed(p, rs))[p] = q[p] \o Missed(p, rs)
        BY <1>4 DEF Send
      <4> QED BY <2>8, <3>4, <4>1, <4>2, Zenon
    <3>12. toClient'[p] = toClient[p] \o z
      <4>1. PICK u \in Seq(Messages) : u = Missed(p, rs)
        BY <1>4, <1>7, <3>1, MissedQuiet, QuietSent
      <4>2. PICK v \in Seq(Messages) : v = m
        BY <3>5, PlainSeq
      <4>3. \A s \in Seq(Messages) : (s \o v) \o u = s \o (v \o u)
        OBVIOUS
      <4> QED BY <1>4, <3>4, <3>6, <3>11, <4>1, <4>2, <4>3, Zenon
    <3>13. Sends(p, a, b, roles, roles', z)
      BY <2>9, <2>18, <3>10
    <3> QED BY <1>1, <1>2, <1>4, <1>7, <2>20, <3>12, <3>13, HeardStep
  <2> QED BY <2>21, <2>22
<1> QED BY <1>14, <1>15

-----------------------------------------------------------------------------
(* The client reads.                                                       *)

LEMMA FirstHeard ==
    ASSUME NEW p, Fitted(p), toClient[p] # <<>>, NEW a, a = View(p)
    PROVE  /\ Head(toClient[p]) \in Fitting(a)
           /\ Takes(p, Knows(a, client[p].roles), Head(toClient[p]))
<1>1. PICK qc : qc = toClient[p]
  OBVIOUS
<1>2. PICK qs : qs = toServer[p]
  OBVIOUS
<1>3. PICK rs : rs = roles
  OBVIOUS
<1>4. PICK u : u = client[p].roles
  OBVIOUS
<1>5. Fits(p, a, u, rs, qc, qs)
  BY <1>1, <1>2, <1>3, <1>4 DEF Fitted
<1>6. Head(qc) \in Fitting(a) /\ Takes(p, Knows(a, u), Head(qc))
  BY <1>1, <1>5, TakesHead
<1> QED BY <1>1, <1>4, <1>6

LEMMA Reading ==
    ASSUME Around, NEW p \in Staying, Fitted(p), NEW t, Receives(p, t), NEW a, a = View(p),
           NEW c, c = client[p], NEW h, h = Head(toClient[p])
    PROVE  /\ p \in Players /\ Tabled /\ Core(a) /\ toClient[p] # <<>> /\ h.type = t
           /\ toClient' = [toClient EXCEPT ![p] = Tail(@)]
           /\ h \in Fitting(a) /\ h \in Messages /\ Takes(p, Knows(a, c.roles), h)
           /\ Greeted(a, toClient[p], toServer[p]) /\ toClient[p] \in Seq(Messages)
           /\ toServer[p] \in Seq(Proper(p, a))
           /\ DOMAIN c = Fields /\ c.jip = FALSE /\ c.head \in 0 .. MaxMissions
           /\ c.valid = (a.head /\ a.all)
           /\ a.state = c.state /\ a.srv = c.srv /\ a.head = (c.head # 0) /\ a.person = (c.person # 0)
           /\ a.ident = c.ident /\ a.screen = c.screen
<1>1. p \in Players /\ Tabled
  BY DEF Staying, Around
<1>2. /\ Core(a) /\ toClient[p] \in Seq(Messages) /\ toServer[p] \in Seq(Proper(p, a))
      /\ Recorded(client[p], files[p]) /\ Greeted(a, toClient[p], toServer[p])
  BY FittedParts
<1>3. toClient[p] # <<>> /\ h.type = t /\ toClient' = [toClient EXCEPT ![p] = Tail(@)]
  BY DEF Receives
<1>4. h \in Fitting(a) /\ Takes(p, Knows(a, c.roles), h)
  BY <1>3, FirstHeard
<1>5. h \in Messages
  BY <1>4 DEF Fitting
<1>7. DOMAIN c = Fields /\ c.jip = FALSE /\ c.head \in 0 .. MaxMissions /\ c.valid = (a.head /\ a.all)
  BY <1>2, ViewIs DEF Recorded
<1> QED BY <1>1, <1>2, <1>3, <1>4, <1>5, <1>7, ViewIs

(* It has read a message that it does not answer.                          *)
LEMMA QuietFits ==
    ASSUME Around, NEW p \in Staying, Fitted(p), NEW t, Receives(p, t), UNCHANGED <<serverVars, info, toServer>>,
           NEW a, a = View(p), NEW b, b = View(p)', Learns(a, b, Head(toClient[p])),
           Knows(b, client'[p].roles) = After(p, Knows(a, client[p].roles), Head(toClient[p])),
           Recorded(client'[p], files'[p])
    PROVE  Fitted(p)'
<1>1. /\ p \in Players /\ Tabled /\ toClient[p] # <<>> /\ toClient' = [toClient EXCEPT ![p] = Tail(@)]
      /\ toClient[p] \in Seq(Messages) /\ toServer[p] \in Seq(Proper(p, a))
      /\ Greeted(a, toClient[p], toServer[p])
  BY Reading
<1>2. UNCHANGED roles
  BY DEF serverVars
<1>3. PICK m : m = <<>>
  OBVIOUS
<1>4. \A S : m \in Seq(S)
  BY <1>3
<1>5. \A k \in 1 .. Len(m) : ~Ranked(m[k])
  BY <1>3
<1>6. toServer'[p] = toServer[p] \o m
  BY <1>1, <1>3
<1>7. Free("login", m)
  BY <1>3 DEF Free
<1>8. Greeted(b, Tail(toClient[p]), toServer'[p])
  <2>1. PICK qc \in Seq(Messages) : qc = toClient[p]
    BY <1>1
  <2>2. PICK S : S = Proper(p, a)
    OBVIOUS
  <2>3. PICK qs \in Seq(S) : qs = toServer[p]
    BY <1>1, <2>2
  <2>4. PICK r : r = Tail(qc)
    OBVIOUS
  <2>5. PICK z : z = qs \o m
    OBVIOUS
  <2>6. b.known = a.known
    BY DEF Learns, SameServer
  <2>7. Greeted(a, qc, qs) /\ qc # <<>> /\ m \in Seq(S)
    BY <1>1, <1>4, <2>1, <2>3
  <2>8. Greeted(b, r, z)
    BY <1>7, <2>4, <2>5, <2>6, <2>7, GreetedRead
  <2> QED BY <1>6, <2>1, <2>3, <2>4, <2>5, <2>8
<1>9. m \in Seq(Proper(p, b))
  BY <1>4
<1> QED BY <1>1, <1>2, <1>5, <1>6, <1>8, <1>9, ReadStep

(* NMTGameState.                                                           *)
Obeys(p, x, w, s) ==
    /\ DOMAIN x = Fields /\ x.state \in Phases /\ s \in Phases /\ p \notin Worldless
    /\ w.state = x.state /\ w.roles = x.roles /\ (w.head /\ w.file => x.valid)
    /\ Takes(p, w, State(s)) /\ ~Ignores(w, s)

Obeyed(p, x, w, s, e) ==
    /\ DOMAIN e = Fields /\ e.head = x.head /\ e.roles = x.roles /\ e.valid = x.valid
    /\ e.jip = x.jip /\ e.ident = x.ident /\ e.screen = x.screen /\ e.srv = x.srv
    /\ e.state = Turned(p, w, s)
    /\ e.person = IF s = LoadIsland /\ x.state < LoadIsland THEN 0 ELSE x.person

LEMMA FollowedParts ==
    ASSUME NEW p, NEW x, NEW w, NEW s, Obeys(p, x, w, s), NEW e, e = Followed(x, s, p)
    PROVE  Obeyed(p, x, w, s, e)
<1>0. /\ DOMAIN x = Fields /\ x.state \in Phases /\ s \in Phases /\ p \notin Worldless
      /\ w.state = x.state /\ w.roles = x.roles /\ (w.head /\ w.file => x.valid)
      /\ Takes(p, w, State(s)) /\ ~Ignores(w, s)
  BY DEF Obeys
<1>1. /\ s >= PrepareSide => w.head
      /\ s = LoadIsland => Holds(w.roles, p) /\ (w.state >= LoadIsland \/ w.file)
      /\ s = Briefing => w.state >= LoadIsland
      /\ s = Play <=> w.state = Briefing
      /\ s = Debriefing <=> w.state = Play
  <2>1. State(s).type = "state" /\ State(s).to = s
    BY DEF State
  <2> QED BY <1>0, <2>1, Zenon DEF Takes
<1>2. Mine(x, p) <=> Holds(w.roles, p)
  BY <1>0 DEF Mine
<1>3. PICK h \in BOOLEAN : h <=> Holds(w.roles, p)
  BY DEF Holds
<1>4. Turned(p, w, s) = IF s \in {PrepareRole, PrepareOK} \/ (s = Transfer /\ ~(x.state < LoadIsland /\ h))
                        THEN x.state ELSE s
  BY <1>0, <1>3 DEF Turned
<1>5. CASE s = LoadIsland
  <2>1. h /\ (x.state >= LoadIsland \/ x.valid)
    BY <1>0, <1>1, <1>3, <1>5
  <2>2. IF x.state >= LoadIsland THEN e = [x EXCEPT !.state = s] ELSE e = Prepared(x)
    BY <1>0, <1>2, <1>3, <1>5, <2>1 DEF Followed, Prepares
  <2>3. x.state < LoadIsland <=> ~(x.state >= LoadIsland)
    BY <1>0
  <2>4. Turned(p, w, s) = s
    BY <1>4, <1>5
  <2>5. CASE x.state >= LoadIsland
    BY <1>0, <1>5, <2>2, <2>3, <2>4, <2>5 DEF Fields, Obeyed
  <2>6. CASE ~(x.state >= LoadIsland)
    <3>1. e = [x EXCEPT !.state = LoadIsland, !.person = 0]
      BY <2>2, <2>6 DEF Prepared
    <3>2. /\ DOMAIN e = Fields /\ e.head = x.head /\ e.roles = x.roles /\ e.valid = x.valid
          /\ e.jip = x.jip /\ e.ident = x.ident /\ e.screen = x.screen /\ e.srv = x.srv
          /\ e.state = LoadIsland /\ e.person = 0
      BY <1>0, <3>1 DEF Fields, Obeyed
    <3> QED BY <1>5, <2>3, <2>4, <2>6, <3>2 DEF Obeyed
  <2> QED BY <2>5, <2>6
<1>6. CASE s # LoadIsland
  <2>1. IF Turned(p, w, s) = s THEN e \in {x, [x EXCEPT !.state = s]} /\ e.state = s
                              ELSE e = x
    BY <1>0, <1>1, <1>2, <1>3, <1>4, <1>6 DEF Followed, Fields
  <2>2. Turned(p, w, s) \in {s, x.state}
    BY <1>4
  <2> QED BY <1>0, <1>6, <2>1, <2>2 DEF Fields, Obeyed
<1> QED BY <1>5, <1>6

LEMMA FollowedIs ==
    ASSUME Jip, NEW p, p \notin Worldless, NEW c, DOMAIN c = Fields, c.state \in Phases,
           NEW w, w.state = c.state, w.head <=> c.head # 0, w.roles = c.roles, w.head /\ w.file => c.valid,
           NEW s \in Phases, Takes(p, w, State(s)),
           NEW x, x = [c EXCEPT !.srv = s], NEW e, e = IF Leftover(c, s) THEN c ELSE Followed(x, s, p)
    PROVE  /\ DOMAIN e = Fields /\ e.head = c.head /\ e.roles = c.roles /\ e.valid = c.valid
           /\ e.jip = c.jip /\ e.ident = c.ident /\ e.screen = c.screen
           /\ e.state = Turned(p, w, s) /\ e.srv = IF Ignores(w, s) THEN c.srv ELSE s
           /\ e.person = IF s = LoadIsland /\ c.state < LoadIsland THEN 0 ELSE c.person
<1>1. Leftover(c, s) <=> Ignores(w, s)
  BY DEF Leftover, Ignores
<1>2. CASE Ignores(w, s)
  <2>1. e = c
    BY <1>1, <1>2
  <2>2. ~(s = LoadIsland)
    BY <1>2 DEF Ignores
  <2>3. Turned(p, w, s) = c.state
    BY <1>2 DEF Turned
  <2> QED BY <1>2, <2>1, <2>2, <2>3
<1>3. CASE ~Ignores(w, s)
  <2>1. /\ DOMAIN x = Fields /\ x.head = c.head /\ x.roles = c.roles /\ x.valid = c.valid /\ x.person = c.person
        /\ x.jip = c.jip /\ x.ident = c.ident /\ x.screen = c.screen /\ x.state = c.state /\ x.srv = s
    BY DEF Fields
  <2>2. e = Followed(x, s, p)
    BY <1>1, <1>3
  <2>3. Obeys(p, x, w, s)
    BY <1>3, <2>1 DEF Obeys
  <2>4. Obeyed(p, x, w, s, e)
    BY <2>2, <2>3, FollowedParts, Zenon
  <2> QED BY <1>3, <2>1, <2>4 DEF Obeyed
<1> QED BY <1>2, <1>3

LEMMA AfterKnows ==
    ASSUME NEW p, NEW w, NEW m, NEW e, e = After(p, w, m), NEW b, NEW u,
           e.state = b.state, e.head = b.head, e.roles = u, e.file = b.all, e.person = b.person
    PROVE  Knows(b, u) = e
<1>1. PICK x1 : x1 = IF m.type = "state" THEN Turned(p, w, m.to)
                     ELSE IF Loads(p, w, m) THEN LoadIsland ELSE w.state
  OBVIOUS
<1>2. PICK x2 : x2 = (w.head \/ m.type = "header")
  OBVIOUS
<1>3. PICK x3 : x3 = Applied(w.roles, m)
  OBVIOUS
<1>4. PICK x4 : x4 = (w.file \/ m.type = "file")
  OBVIOUS
<1>5. PICK x5 : x5 = IF m.type = "world" THEN w.person \/ (m.person # 0 /\ w.state >= LoadIsland)
                     ELSE w.person /\ ~Loads(p, w, m)
  OBVIOUS
<1>6. e = Walker(x1, x2, x3, x4, x5)
  BY <1>1, <1>2, <1>3, <1>4, <1>5, Zenon DEF After
<1>7. b.state = x1 /\ b.head = x2 /\ u = x3 /\ b.all = x4 /\ b.person = x5
  BY <1>6 DEF Walker
<1> QED BY <1>6, <1>7, Zenon DEF Knows

LEMMA StateIs ==
    ASSUME NEW m \in Messages, m.type = "state"
    PROVE  m = State(m.to) /\ m.to \in Phases
<1>1. m.to \in Phases
  BY MessageTyped
<1>2. m \in [type : {"state"}, to : Phases]
  BY DEF Messages, Quiet, Tables
<1> QED BY <1>1, <1>2 DEF State

LEMMA StateFits ==
    ASSUME Session, Around, NEW p \in Staying, Fitted(p), ReceiveState(p)
    PROVE  Fitted(p)'
<1>1. PICK a : a = View(p)
  OBVIOUS
<1>2. PICK b : b = View(p)'
  OBVIOUS
<1>3. PICK c : c = client[p]
  OBVIOUS
<1>4. PICK h : h = Head(toClient[p])
  OBVIOUS
<1>5. PICK s : s = h.to
  OBVIOUS
<1>6. PICK u : u = c.roles
  OBVIOUS
<1>7. PICK w : w = Knows(a, u)
  OBVIOUS
<1>8. Receives(p, "state") /\ UNCHANGED <<serverVars, info, toServer, files>>
  BY DEF ReceiveState
<1>9. /\ p \in Players /\ Tabled /\ Core(a) /\ Views(a) /\ h.type = "state" /\ h \in Fitting(a) /\ h \in Messages
      /\ Takes(p, w, h) /\ DOMAIN c = Fields /\ c.jip = FALSE /\ c.head \in 0 .. MaxMissions
      /\ c.valid = (a.head /\ a.all)
      /\ a.state = c.state /\ a.srv = c.srv /\ a.head = (c.head # 0) /\ a.person = (c.person # 0)
      /\ a.ident = c.ident /\ a.screen = c.screen
  <2>1. PICK t : t = "state"
    OBVIOUS
  <2>2. Receives(p, t)
    BY <1>8, <2>1
  <2>10. h.type = t /\ toClient[p] # <<>>
    BY <1>4, <2>2 DEF Receives
  <2>3. Takes(p, Knows(a, c.roles), h)
    BY <1>1, <1>3, <1>4, <2>10, FirstHeard
  <2>9. h \in Fitting(a)
    BY <1>1, <1>4, <2>10, FirstHeard
  <2>8. p \in Players /\ Tabled
    BY DEF Staying, Around
  <2>4. Core(a) /\ h.type = t /\ h \in Fitting(a) /\ h \in Messages
    BY <1>1, <2>9, <2>10, FittedParts DEF Fitting
  <2>5. /\ DOMAIN c = Fields /\ c.jip = FALSE /\ c.head \in 0 .. MaxMissions
        /\ c.valid = (a.head /\ a.all)
    <3>1. Recorded(c, files[p])
      BY <1>1, <1>3, FittedParts
    <3> QED BY <1>1, <1>3, <3>1, ViewIs DEF Recorded
  <2>6. /\ a.state = c.state /\ a.srv = c.srv /\ a.head = (c.head # 0) /\ a.person = (c.person # 0)
        /\ a.ident = c.ident /\ a.screen = c.screen
    BY <1>1, <1>3, ViewIs
  <2>7. Views(a)
    BY <2>4 DEF Core
  <2> QED BY <1>6, <1>7, <2>1, <2>3, <2>4, <2>5, <2>6, <2>7, <2>8
<1>10. h = State(s) /\ s \in Phases
  BY <1>5, <1>9, StateIs
<1>11. Takes(p, w, State(s))
  BY <1>9, <1>10
<1>12. /\ w.state = a.state /\ w.head = a.head /\ w.roles = u /\ w.file = a.all /\ w.person = a.person
  BY <1>7 DEF Knows, Walker
<1>13. /\ a.state \in Phases /\ a.head \in BOOLEAN /\ a.all \in BOOLEAN /\ a.person \in BOOLEAN
  BY <1>9 DEF Views
<1>28. PICK z : z = [c EXCEPT !.srv = s]
  OBVIOUS
<1>14. PICK e : e = IF Leftover(c, s) THEN c ELSE Followed(z, s, p)
  OBVIOUS
<1>15. client'[p] = e
  <2>1. client' = IF Leftover(c, s) THEN client
                  ELSE [client EXCEPT ![p] = Followed([c EXCEPT !.srv = s], s, p)]
    BY <1>3, <1>4, <1>5 DEF ReceiveState
  <2> QED BY <1>3, <1>9, <1>14, <1>28, <2>1 DEF Tabled
<1>16. /\ DOMAIN e = Fields /\ e.head = c.head /\ e.roles = c.roles /\ e.valid = c.valid
       /\ e.jip = c.jip /\ e.ident = c.ident /\ e.screen = c.screen
       /\ e.state = Turned(p, w, s) /\ e.srv = IF Ignores(w, s) THEN c.srv ELSE s
       /\ e.person = IF s = LoadIsland /\ c.state < LoadIsland THEN 0 ELSE c.person
  <2>1. w.state = c.state /\ (w.head <=> c.head # 0) /\ w.roles = c.roles /\ (w.head /\ w.file => c.valid)
    BY <1>6, <1>9, <1>12
  <2>2. c.state \in Phases /\ Jip /\ p \notin Worldless
    BY <1>9, <1>13 DEF Session, Staying
  <2>3. DOMAIN c = Fields /\ c.jip = FALSE
    BY <1>9
  <2>4. w.state = c.state
    BY <2>1
  <2>5. w.head <=> c.head # 0
    BY <2>1
  <2>6. w.head /\ w.file => c.valid
    BY <2>1
  <2>7. w.roles = c.roles
    BY <2>1
  <2> QED BY <1>10, <1>11, <1>14, <1>28, <2>2, <2>3, <2>4, <2>5, <2>6, <2>7, FollowedIs
<1>17. /\ b.state = e.state /\ b.srv = e.srv /\ b.head = (e.head # 0) /\ b.all = a.all
       /\ b.person = (e.person # 0) /\ b.ident = e.ident /\ b.screen = e.screen
  <2>1. /\ b.state = client'[p].state /\ b.srv = client'[p].srv /\ b.head = (client'[p].head # 0)
        /\ b.all = (1 .. MaxMissions \subseteq files'[p]) /\ b.person = (client'[p].person # 0)
        /\ b.ident = client'[p].ident /\ b.screen = client'[p].screen
    BY <1>2, ViewIsNext
  <2>2. a.all = (1 .. MaxMissions \subseteq files[p]) /\ files' = files
    BY <1>1, <1>8, ViewIs
  <2> QED BY <1>15, <2>1, <2>2
<1>18. /\ b.state = Turned(p, w, s) /\ b.head = a.head /\ b.all = a.all /\ b.ident = a.ident
       /\ b.screen = a.screen /\ b.srv = IF Ignores(w, s) THEN a.srv ELSE s
  BY <1>9, <1>16, <1>17
<1>19. b.person = (a.person /\ ~(s = LoadIsland /\ a.state < LoadIsland))
  BY <1>9, <1>16, <1>17
<1>20. SameServer(a, b)
  BY <1>1, <1>2, <1>8, ViewServer DEF serverVars
<1>21. Hearable(a, s)
  BY <1>5, <1>9 DEF Fitting
<1>22. Learns(a, b, State(s))
  BY <1>7, <1>9, <1>10, <1>11, <1>18, <1>19, <1>20, <1>21, StateRead
<1>23. PICK x : x = After(p, w, State(s))
  OBVIOUS
<1>24. Knows(b, u) = x
  <2>1. /\ x.state = Turned(p, w, s) /\ x.head = w.head /\ x.roles = w.roles /\ x.file = w.file
        /\ x.person = (w.person /\ ~(s = LoadIsland /\ w.state < LoadIsland))
    BY <1>12, <1>13, <1>23, AfterState
  <2>2. x.state = b.state /\ x.head = b.head /\ x.roles = u /\ x.file = b.all /\ x.person = b.person
    BY <1>12, <1>18, <1>19, <2>1
  <2> QED BY <1>23, <2>2, AfterKnows
<1>25. Recorded(client'[p], files'[p])
  <2>1. Recorded(e, files'[p])
    <3>1. a.head = (e.head # 0) /\ a.all = (1 .. MaxMissions \subseteq files'[p])
      BY <1>1, <1>8, <1>9, <1>16, ViewIs
    <3> QED BY <1>9, <1>16, <3>1 DEF Recorded
  <2> QED BY <1>15, <2>1
<1>26. Knows(b, client'[p].roles) = After(p, Knows(a, client[p].roles), Head(toClient[p]))
  <2>1. client'[p].roles = u /\ client[p].roles = u
    BY <1>3, <1>6, <1>15, <1>16
  <2> QED BY <1>4, <1>7, <1>10, <1>23, <1>24, <2>1
<1>27. Learns(a, b, Head(toClient[p]))
  BY <1>4, <1>10, <1>22
<1> QED BY <1>1, <1>2, <1>8, <1>25, <1>26, <1>27, QuietFits

(* A message other than a change of the phase, or a file: what the client c with
   the files f, of a player who has logged in if known, becomes.             *)
Becomes(c, e, h, f, known) ==
    /\ DOMAIN e = Fields /\ e.state = c.state /\ e.srv = c.srv /\ e.screen = c.screen /\ e.jip = FALSE
    /\ e.roles = Applied(c.roles, h) /\ e.head \in 0 .. MaxMissions
    /\ e.head # 0 <=> c.head # 0 \/ h.type = "header"
    /\ e.person # 0 <=> c.person # 0 \/ (h.type = "world" /\ h.person # 0 /\ c.state >= LoadIsland)
    /\ e.ident \in BOOLEAN /\ (c.ident => e.ident) /\ (e.ident => known)
    /\ e.valid = (e.head # 0 /\ 1 .. MaxMissions \subseteq f)

LEMMA AfterOther ==
    ASSUME NEW p, NEW w, Whole(w), NEW h, h.type \notin {"state", "file"}, NEW x, x = After(p, w, h)
    PROVE  /\ x.state = w.state /\ x.head = (w.head \/ h.type = "header") /\ x.roles = Applied(w.roles, h)
           /\ x.file = w.file /\ x.person = (w.person \/ (h.type = "world" /\ h.person # 0 /\ w.state >= LoadIsland))
<1>1. w.head \in BOOLEAN /\ w.file \in BOOLEAN /\ w.person \in BOOLEAN
  BY DEF Whole
<1>2. PICK y : y = Applied(w.roles, h)
  OBVIOUS
<1>3. ~Loads(p, w, h)
  BY DEF Loads
<1> QED BY <1>1, <1>2, <1>3 DEF After, Walker

LEMMA KnowsParts ==
    ASSUME NEW a, Views(a), NEW u, NEW w, w = Knows(a, u)
    PROVE  /\ w.state = a.state /\ w.head = a.head /\ w.roles = u /\ w.file = a.all /\ w.person = a.person
           /\ Whole(w)
BY DEF Knows, Walker, Views, Whole

LEMMA OtherLearns ==
    ASSUME NEW p, Fitted(p), UNCHANGED <<serverVars, info, files>>, NEW a, a = View(p), NEW b, b = View(p)',
           NEW c, c = client[p], NEW h, h.type \notin {"state", "file"},
           NEW e, client'[p] = e, Becomes(c, e, h, files[p], info[p].ident)
    PROVE  /\ Learns(a, b, h) /\ Knows(b, e.roles) = After(p, Knows(a, c.roles), h)
           /\ Recorded(e, files'[p])
<1>1. Core(a) /\ Views(a)
  BY FittedParts DEF Core
<1>2. /\ DOMAIN e = Fields /\ e.state = c.state /\ e.srv = c.srv /\ e.screen = c.screen /\ e.jip = FALSE
      /\ e.roles = Applied(c.roles, h) /\ e.head \in 0 .. MaxMissions
      /\ e.head # 0 <=> c.head # 0 \/ h.type = "header"
      /\ e.person # 0 <=> c.person # 0 \/ (h.type = "world" /\ h.person # 0 /\ c.state >= LoadIsland)
      /\ e.ident \in BOOLEAN /\ (c.ident => e.ident) /\ (e.ident => info[p].ident)
      /\ e.valid = (e.head # 0 /\ 1 .. MaxMissions \subseteq files[p])
  BY Zenon DEF Becomes
<1>3. /\ a.state = c.state /\ a.srv = c.srv /\ a.head = (c.head # 0) /\ a.person = (c.person # 0)
      /\ a.ident = c.ident /\ a.screen = c.screen /\ a.known = info[p].ident
      /\ a.all = (1 .. MaxMissions \subseteq files[p])
  BY ViewIs
<1>4. /\ b.state = e.state /\ b.srv = e.srv /\ b.head = (e.head # 0) /\ b.person = (e.person # 0)
      /\ b.ident = e.ident /\ b.screen = e.screen /\ b.all = (1 .. MaxMissions \subseteq files[p])
      /\ b.known = info[p].ident
  <2>1. info' = info /\ files' = files
    OBVIOUS
  <2> QED BY <2>1, ViewIsNext
<1>5. SameServer(a, b)
  BY ViewServer DEF serverVars
<1>6. Learns(a, b, h)
  <2>1. b.state = a.state /\ b.srv = a.srv /\ b.all = a.all /\ b.screen = a.screen
    BY <1>2, <1>3, <1>4
  <2>2. b.head \in BOOLEAN /\ b.person \in BOOLEAN /\ b.ident \in BOOLEAN
    BY <1>2, <1>4
  <2>3. (a.head => b.head) /\ (a.person => b.person) /\ (a.ident => b.ident) /\ (b.ident => b.known)
    BY <1>2, <1>3, <1>4
  <2> QED BY <1>1, <1>5, <2>1, <2>2, <2>3, OtherRead
<1>7. Knows(b, e.roles) = After(p, Knows(a, c.roles), h)
  <2>1. PICK u : u = c.roles
    OBVIOUS
  <2>2. PICK w : w = Knows(a, u)
    OBVIOUS
  <2>3. PICK x : x = After(p, w, h)
    OBVIOUS
  <2>4. /\ w.state = a.state /\ w.head = a.head /\ w.roles = u /\ w.file = a.all /\ w.person = a.person
        /\ Whole(w)
    BY <1>1, <2>2, KnowsParts
  <2>5. /\ x.state = w.state /\ x.head = (w.head \/ h.type = "header") /\ x.roles = Applied(w.roles, h)
        /\ x.file = w.file /\ x.person = (w.person \/ (h.type = "world" /\ h.person # 0 /\ w.state >= LoadIsland))
    BY <2>3, <2>4, AfterOther
  <2>6. PICK v : v = e.roles
    OBVIOUS
  <2>7. x.state = b.state /\ x.roles = v
    BY <1>2, <1>3, <1>4, <2>1, <2>4, <2>5, <2>6
  <2>8. x.head = b.head /\ x.file = b.all /\ x.person = b.person
    <3>1. x.head = b.head
      BY <1>2, <1>3, <1>4, <2>4, <2>5
    <3>2. x.file = b.all
      BY <1>2, <1>3, <1>4, <2>4, <2>5
    <3>3. x.person = b.person
      BY <1>2, <1>3, <1>4, <2>4, <2>5
    <3> QED BY <3>1, <3>2, <3>3
  <2>9. Knows(b, v) = x
    BY <2>3, <2>7, <2>8, AfterKnows
  <2> QED BY <2>1, <2>2, <2>3, <2>6, <2>9
<1>8. Recorded(e, files'[p])
  BY <1>2 DEF Recorded
<1> QED BY <1>6, <1>7, <1>8

(* It has read a message, and answers.                                     *)
LEMMA AnswerFits ==
    ASSUME Around, NEW p \in Staying, Fitted(p), NEW t, Receives(p, t), UNCHANGED <<serverVars, info>>,
           NEW a, a = View(p), NEW b, b = View(p)', Learns(a, b, Head(toClient[p])),
           Knows(b, client'[p].roles) = After(p, Knows(a, client[p].roles), Head(toClient[p])),
           Recorded(client'[p], files'[p]), NEW x \in Proper(p, b), ~Ranked(x), x.type # "login" \/ t = "player",
           NEW m, m = <<x>>, Answer(p, m)
    PROVE  Fitted(p)'
<1>1. /\ p \in Players /\ Tabled /\ toClient[p] # <<>> /\ toClient' = [toClient EXCEPT ![p] = Tail(@)]
      /\ toClient[p] \in Seq(Messages) /\ toServer[p] \in Seq(Proper(p, a))
      /\ Greeted(a, toClient[p], toServer[p]) /\ Head(toClient[p]).type = t
  <2>1. p \in Players /\ Tabled
    BY DEF Staying, Around
  <2>2. toClient[p] # <<>> /\ toClient' = [toClient EXCEPT ![p] = Tail(@)] /\ Head(toClient[p]).type = t
    BY DEF Receives
  <2>3. /\ toClient[p] \in Seq(Messages) /\ toServer[p] \in Seq(Proper(p, a))
        /\ Greeted(a, toClient[p], toServer[p])
    BY FittedParts
  <2> QED BY <2>1, <2>2, <2>3
<1>2. UNCHANGED roles
  BY DEF serverVars
<1>3. m \in Seq(Proper(p, b)) /\ m \in Seq({x}) /\ Len(m) = 1 /\ m[1] = x
  OBVIOUS
<1>4. \A k \in 1 .. Len(m) : ~Ranked(m[k])
  BY <1>3
<1>5. toServer'[p] = toServer[p] \o m
  <2>1. toServer \in [Players -> Seq(Requests)]
    BY Unfolded DEF Around
  <2> QED BY <1>1, <2>1 DEF Answer
<1>6. Greeted(b, Tail(toClient[p]), toServer'[p])
  <2>1. PICK qc \in Seq(Messages) : qc = toClient[p]
    BY <1>1
  <2>2. PICK S : S = Proper(p, a) \cup {x}
    OBVIOUS
  <2>3. PICK qs \in Seq(S) : qs = toServer[p]
    <3>1. Proper(p, a) \subseteq S
      BY <2>2
    <3>2. toServer[p] \in Seq(S)
      BY <1>1, <3>1
    <3> QED BY <3>2
  <2>4. PICK r : r = Tail(qc)
    OBVIOUS
  <2>5. PICK z : z = qs \o m
    OBVIOUS
  <2>6. b.known = a.known
    BY DEF Learns, SameServer
  <2>7. Greeted(a, qc, qs) /\ qc # <<>> /\ Head(qc).type = t /\ x \in S /\ m \in Seq(S)
    BY <1>1, <1>3, <2>1, <2>2, <2>3
  <2>8. CASE x.type # "login"
    <3>1. Free("login", m)
      BY <1>3, <2>8 DEF Free
    <3>2. Greeted(b, r, z)
      BY <2>4, <2>5, <2>6, <2>7, <3>1, GreetedRead
    <3> QED BY <1>5, <2>1, <2>3, <2>4, <2>5, <3>2
  <2>9. CASE t = "player"
    <3>1. Head(qc).type = "player" /\ z = qs \o <<x>>
      BY <2>5, <2>7, <2>9
    <3>2. Greeted(b, r, z)
      BY <2>4, <2>6, <2>7, <3>1, GreetedLogin
    <3> QED BY <1>5, <2>1, <2>3, <2>4, <2>5, <3>2
  <2> QED BY <2>8, <2>9
<1> QED BY <1>1, <1>2, <1>3, <1>4, <1>5, <1>6, ReadStep

(* NMTMissionHeader.                                                       *)
LEMMA OneMission ==
    ASSUME Session, Around, NEW p \in Players, NEW n \in 1 .. MaxMissions
    PROVE  (n \in files[p]) <=> 1 .. MaxMissions \subseteq files[p]
<1>0. MaxMissions \in Nat
  BY BoundsAssumption
<1>1. CASE Cached = Players
  <2>1. 1 .. MaxMissions \subseteq files[p]
    BY <1>1 DEF Around, Stored
  <2> QED BY <2>1
<1>2. CASE MaxMissions <= 1
  <2>1. n = 1 /\ 1 .. MaxMissions = {1}
    BY <1>0, <1>2
  <2> QED BY <2>1
<1> QED BY <1>1, <1>2 DEF Session

LEMMA HeaderFits ==
    ASSUME Session, Around, NEW p \in Staying, Fitted(p), ReceiveHeader(p)
    PROVE  Fitted(p)'
<1>1. PICK a : a = View(p)
  OBVIOUS
<1>2. PICK b : b = View(p)'
  OBVIOUS
<1>3. PICK c : c = client[p]
  OBVIOUS
<1>4. PICK h : h = Head(toClient[p])
  OBVIOUS
<1>5. PICK valid : valid = (h.mission \in files[p])
  OBVIOUS
<1>6. PICK e : e = [c EXCEPT !.head = h.mission, !.roles = h.roles, !.valid = valid]
  OBVIOUS
<1>7. PICK t : t = "header"
  OBVIOUS
<1>8. PICK x : x = Ask(valid)
  OBVIOUS
<1>9. PICK m : m = <<x>>
  OBVIOUS
<1>10. Receives(p, t) /\ UNCHANGED <<serverVars, info, files>>
  BY <1>7 DEF ReceiveHeader
<1>11. client' = [client EXCEPT ![p] = e] /\ Answer(p, m)
  BY <1>3, <1>4, <1>5, <1>6, <1>8, <1>9, Zenon DEF ReceiveHeader
<1>12. /\ p \in Players /\ Tabled /\ Recorded(c, files[p]) /\ h \in Fitting(a) /\ h.type = t /\ Core(a)
  <2>1. p \in Players /\ Tabled
    BY DEF Staying, Around
  <2>2. toClient[p] # <<>> /\ h.type = t
    BY <1>4, <1>10 DEF Receives
  <2>3. Core(a) /\ Recorded(c, files[p])
    BY <1>1, <1>3, FittedParts
  <2>4. h \in Fitting(a)
    BY <1>1, <1>4, <2>2, FirstHeard
  <2> QED BY <2>1, <2>2, <2>3, <2>4
<1>13. h.mission \in 1 .. MaxMissions /\ valid = (1 .. MaxMissions \subseteq files[p])
  <2>1. h.mission \in 1 .. MaxMissions
    BY <1>7, <1>12 DEF Fitting
  <2> QED BY <1>5, <1>12, <2>1, OneMission
<1>14. client'[p] = e
  BY <1>11, <1>12 DEF Tabled
<1>15. DOMAIN c = Fields /\ c.jip = FALSE
  BY <1>12 DEF Recorded
<1>16. /\ DOMAIN e = Fields /\ e.state = c.state /\ e.srv = c.srv /\ e.screen = c.screen /\ e.jip = FALSE
       /\ e.roles = h.roles /\ e.head = h.mission /\ e.person = c.person /\ e.ident = c.ident /\ e.valid = valid
  BY <1>6, <1>15 DEF Fields
<1>17. Becomes(c, e, h, files[p], info[p].ident)
  <2>1. Applied(c.roles, h) = h.roles
    BY <1>7, <1>12 DEF Applied
  <2>2. e.head \in 0 .. MaxMissions /\ e.head # 0
    BY <1>13, <1>16, BoundsAssumption
  <2>3. e.ident \in BOOLEAN /\ (e.ident => info[p].ident)
    <3>1. a.ident = c.ident /\ a.known = info[p].ident
      BY <1>1, <1>3, ViewIs
    <3> QED BY <1>12, <1>16, <3>1 DEF Core, Views, OnClient
  <2>4. h.type = "header"
    BY <1>7, <1>12
  <2> QED BY <1>13, <1>16, <2>1, <2>2, <2>3, <2>4 DEF Becomes
<1>18. h.type \notin {"state", "file"}
  BY <1>7, <1>12
<1>19. Learns(a, b, h) /\ Knows(b, e.roles) = After(p, Knows(a, c.roles), h) /\ Recorded(e, files'[p])
  BY <1>1, <1>2, <1>3, <1>10, <1>14, <1>17, <1>18, OtherLearns
<1>20. x \in Proper(p, b) /\ ~Ranked(x) /\ x.type # "login"
  <2>1. x.type = "ask" /\ x.valid = valid
    BY <1>8 DEF Ask
  <2>2. b.all = (1 .. MaxMissions \subseteq files'[p])
    BY <1>2, ViewIsNext
  <2>3. valid \in BOOLEAN /\ (valid => b.all)
    BY <1>10, <1>13, <2>2
  <2>4. x \in Requests
    BY <1>8, <2>3 DEF Requests, Ask
  <2> QED BY <2>1, <2>3, <2>4 DEF Proper, Ranked
<1>21. /\ Learns(a, b, Head(toClient[p])) /\ Recorded(client'[p], files'[p])
       /\ Knows(b, client'[p].roles) = After(p, Knows(a, client[p].roles), Head(toClient[p]))
  BY <1>3, <1>4, <1>14, <1>19
<1>22. UNCHANGED <<serverVars, info>>
  BY <1>10
<1> QED BY <1>1, <1>2, <1>9, <1>10, <1>11, <1>20, <1>21, <1>22, AnswerFits

(* What is first under way to the client, and what the client is.          *)
LEMMA Opening ==
    ASSUME Around, NEW p \in Staying, Fitted(p), NEW t, Receives(p, t), NEW a, a = View(p),
           NEW h, h = Head(toClient[p])
    PROVE  /\ p \in Players /\ Tabled /\ Recorded(client[p], files[p]) /\ h \in Fitting(a) /\ h.type = t
           /\ Core(a) /\ h \in Messages /\ Takes(p, Knows(a, client[p].roles), h)
<1>1. p \in Players /\ Tabled
  BY DEF Staying, Around
<1>2. toClient[p] # <<>> /\ h.type = t
  BY DEF Receives
<1>3. Core(a) /\ Recorded(client[p], files[p])
  BY FittedParts
<1>4. h \in Fitting(a) /\ Takes(p, Knows(a, client[p].roles), h)
  BY <1>2, FirstHeard
<1>5. h \in Messages
  BY <1>4 DEF Fitting
<1> QED BY <1>1, <1>2, <1>3, <1>4, <1>5

LEMMA Identified1 ==
    ASSUME NEW p, NEW a, a = View(p), Core(a)
    PROVE  client[p].ident \in BOOLEAN /\ (client[p].ident => info[p].ident)
<1>1. a.ident = client[p].ident /\ a.known = info[p].ident
  BY ViewIs
<1> QED BY <1>1 DEF Core, Views, OnClient

(* What it does not answer.                                                *)
LEMMA BecomesFits ==
    ASSUME Around, NEW p \in Staying, Fitted(p), NEW t, t \notin {"state", "file"}, Receives(p, t),
           UNCHANGED <<serverVars, info, toServer, files>>, NEW h, h = Head(toClient[p]),
           NEW e, client'[p] = e, Becomes(client[p], e, h, files[p], info[p].ident)
    PROVE  Fitted(p)'
<1>1. PICK a : a = View(p)
  OBVIOUS
<1>2. PICK b : b = View(p)'
  OBVIOUS
<1>3. PICK c : c = client[p]
  OBVIOUS
<1>4. h.type \notin {"state", "file"}
  BY DEF Receives
<1>5. Becomes(c, e, h, files[p], info[p].ident)
  BY <1>3
<1>6. UNCHANGED <<serverVars, info, files>>
  OBVIOUS
<1>7. Learns(a, b, h) /\ Knows(b, e.roles) = After(p, Knows(a, c.roles), h) /\ Recorded(e, files'[p])
  BY <1>1, <1>2, <1>3, <1>4, <1>5, <1>6, OtherLearns
<1>8. /\ Learns(a, b, Head(toClient[p])) /\ Recorded(client'[p], files'[p])
      /\ Knows(b, client'[p].roles) = After(p, Knows(a, client[p].roles), Head(toClient[p]))
  BY <1>3, <1>7
<1>9. UNCHANGED <<serverVars, info, toServer>>
  OBVIOUS
<1> QED BY <1>1, <1>2, <1>8, <1>9, QuietFits

LEMMA RoleFits ==
    ASSUME Around, NEW p \in Staying, Fitted(p), ReceiveRole(p)
    PROVE  Fitted(p)'
<1>1. PICK a : a = View(p)
  OBVIOUS
<1>2. PICK c : c = client[p]
  OBVIOUS
<1>3. PICK h : h = Head(toClient[p])
  OBVIOUS
<1>4. PICK t : t = "role"
  OBVIOUS
<1>5. ~Receives(p, "roles")
  <2> SUFFICES ASSUME Receives(p, "roles") PROVE FALSE
    OBVIOUS
  <2>1. PICK u : u = "roles"
    OBVIOUS
  <2>2. h \in Fitting(a) /\ h.type = u
    BY <1>1, <1>3, <2>1, Opening
  <2> QED BY <2>1, <2>2 DEF Fitting
<1>6. /\ Receives(p, t)
      /\ client' = [client EXCEPT ![p].roles =
                       [r \in DOMAIN @ \cup {h.slot} |-> IF r = h.slot THEN h.player ELSE @[r]]]
      /\ UNCHANGED <<serverVars, info, toServer, files>>
  BY <1>3, <1>4, <1>5 DEF ReceiveRole
<1>7. /\ p \in Players /\ Tabled /\ Recorded(c, files[p]) /\ h.type = t /\ Core(a)
  BY <1>1, <1>2, <1>3, <1>6, Opening
<1>8. PICK y : y = [r \in DOMAIN c.roles \cup {h.slot} |-> IF r = h.slot THEN h.player ELSE c.roles[r]]
  OBVIOUS
<1>9. PICK e : e = [c EXCEPT !.roles = y]
  OBVIOUS
<1>10. client'[p] = e
  BY <1>2, <1>6, <1>7, <1>8, <1>9 DEF Tabled
<1>11. y = Applied(c.roles, h)
  BY <1>4, <1>7, <1>8 DEF Applied
<1>12. /\ DOMAIN c = Fields /\ c.jip = FALSE /\ c.head \in 0 .. MaxMissions
       /\ c.valid = (c.head # 0 /\ 1 .. MaxMissions \subseteq files[p])
  BY <1>7 DEF Recorded
<1>13. /\ DOMAIN e = Fields /\ e.state = c.state /\ e.srv = c.srv /\ e.screen = c.screen /\ e.jip = FALSE
       /\ e.roles = y /\ e.head = c.head /\ e.person = c.person /\ e.ident = c.ident /\ e.valid = c.valid
  BY <1>9, <1>12 DEF Fields
<1>14. c.ident \in BOOLEAN /\ (c.ident => info[p].ident)
  BY <1>1, <1>2, <1>7, Identified1
<1>15. h.type # "header" /\ h.type # "world"
  BY <1>4, <1>7
<1>16. Becomes(c, e, h, files[p], info[p].ident)
  BY <1>11, <1>12, <1>13, <1>14, <1>15 DEF Becomes
<1>17. t \notin {"state", "file"} /\ Becomes(client[p], e, h, files[p], info[p].ident)
  BY <1>2, <1>4, <1>16
<1> QED BY <1>3, <1>6, <1>10, <1>17, BecomesFits

LEMMA OtherFits ==
    ASSUME Around, NEW p \in Staying, Fitted(p), ReceiveOther(p)
    PROVE  Fitted(p)'
<1>1. PICK a : a = View(p)
  OBVIOUS
<1>2. PICK c : c = client[p]
  OBVIOUS
<1>3. PICK h : h = Head(toClient[p])
  OBVIOUS
<1>4. UNCHANGED <<serverVars, info, toServer, files>>
  BY DEF ReceiveOther
<1>5. p \in Players /\ Tabled /\ Core(a) /\ Recorded(c, files[p])
  <2>1. p \in Players /\ Tabled
    BY DEF Staying, Around
  <2> QED BY <1>1, <1>2, <2>1, FittedParts
<1>6. /\ DOMAIN c = Fields /\ c.jip = FALSE /\ c.head \in 0 .. MaxMissions
      /\ c.valid = (c.head # 0 /\ 1 .. MaxMissions \subseteq files[p])
  BY <1>5 DEF Recorded
<1>7. c.ident \in BOOLEAN /\ (c.ident => info[p].ident)
  BY <1>1, <1>2, <1>5, Identified1
<1>8. CASE Receives(p, "identity") /\ client' = [client EXCEPT ![p].ident = TRUE]
  <2>1. PICK t : t = "identity"
    OBVIOUS
  <2>2. PICK e : e = [c EXCEPT !.ident = TRUE]
    OBVIOUS
  <2>3. client'[p] = e
    BY <1>2, <1>5, <1>8, <2>2 DEF Tabled
  <2>4. Receives(p, t)
    BY <1>8, <2>1
  <2>5. h.type = t /\ h \in Fitting(a)
    BY <1>1, <1>3, <2>4, Opening
  <2>6. info[p].ident
    <3>1. a.known
      BY <2>1, <2>5 DEF Fitting
    <3> QED BY <1>1, <3>1, ViewIs
  <2>7. /\ DOMAIN e = Fields /\ e.state = c.state /\ e.srv = c.srv /\ e.screen = c.screen /\ e.jip = FALSE
        /\ e.roles = c.roles /\ e.head = c.head /\ e.person = c.person /\ e.ident = TRUE /\ e.valid = c.valid
    BY <1>6, <2>2 DEF Fields
  <2>8. Applied(c.roles, h) = c.roles /\ h.type # "header" /\ h.type # "world"
    BY <2>1, <2>5 DEF Applied
  <2>9. Becomes(c, e, h, files[p], info[p].ident)
    BY <1>6, <1>7, <2>6, <2>7, <2>8 DEF Becomes
  <2>10. t \notin {"state", "file"} /\ Becomes(client[p], e, h, files[p], info[p].ident)
    BY <1>2, <2>1, <2>9
  <2> QED BY <1>3, <1>4, <2>3, <2>4, <2>10, BecomesFits
<1>9. CASE Receives(p, "time")
  <2>1. PICK t : t = "time"
    OBVIOUS
  <2>2. h \in Fitting(a) /\ h.type = t
    BY <1>1, <1>3, <1>9, <2>1, Opening
  <2> QED BY <2>1, <2>2 DEF Fitting
<1>10. CASE /\ Receives(p, "world")
            /\ client' = [client EXCEPT ![p].person =
                              IF Head(toClient[p]).person = 0 \/ client[p].state < LoadIsland THEN @
                              ELSE Head(toClient[p]).person]
  <2>1. PICK t : t = "world"
    OBVIOUS
  <2>2. PICK n : n = IF h.person = 0 \/ c.state < LoadIsland THEN c.person ELSE h.person
    OBVIOUS
  <2>3. PICK e : e = [c EXCEPT !.person = n]
    OBVIOUS
  <2>4. client'[p] = e
    BY <1>2, <1>3, <1>5, <1>10, <2>2, <2>3 DEF Tabled
  <2>5. Receives(p, t)
    BY <1>10, <2>1
  <2>6. h.type = t
    BY <1>3, <2>5 DEF Receives
  <2>7. /\ DOMAIN e = Fields /\ e.state = c.state /\ e.srv = c.srv /\ e.screen = c.screen /\ e.jip = FALSE
        /\ e.roles = c.roles /\ e.head = c.head /\ e.person = n /\ e.ident = c.ident /\ e.valid = c.valid
    BY <1>6, <2>3 DEF Fields
  <2>8. Applied(c.roles, h) = c.roles /\ h.type # "header" /\ h.type = "world"
    BY <2>1, <2>6 DEF Applied
  <2>9. n # 0 <=> c.person # 0 \/ (h.person # 0 /\ c.state >= LoadIsland)
    <3>1. c.state \in Phases
      BY <1>1, <1>2, <1>5, ViewIs DEF Core, Views
    <3> QED BY <2>2, <3>1
  <2>10. Becomes(c, e, h, files[p], info[p].ident)
    BY <1>6, <1>7, <2>7, <2>8, <2>9 DEF Becomes
  <2>11. t \notin {"state", "file"} /\ Becomes(client[p], e, h, files[p], info[p].ident)
    BY <1>2, <2>1, <2>10
  <2> QED BY <1>3, <1>4, <2>4, <2>5, <2>11, BecomesFits
<1> QED BY <1>8, <1>9, <1>10 DEF ReceiveOther

LEMMA PlayerFits ==
    ASSUME Around, NEW p \in Staying, Fitted(p), ReceivePlayer(p)
    PROVE  Fitted(p)'
<1>1. PICK a : a = View(p)
  OBVIOUS
<1>2. PICK b : b = View(p)'
  OBVIOUS
<1>3. PICK c : c = client[p]
  OBVIOUS
<1>4. PICK h : h = Head(toClient[p])
  OBVIOUS
<1>5. PICK t : t = "player"
  OBVIOUS
<1>6. PICK x : x = Login
  OBVIOUS
<1>7. PICK m : m = <<x>>
  OBVIOUS
<1>8. /\ Receives(p, t) /\ Answer(p, m) /\ UNCHANGED <<serverVars, info, files>> /\ client' = client
  BY <1>5, <1>6, <1>7 DEF ReceivePlayer
<1>9. /\ p \in Players /\ Recorded(c, files[p]) /\ h.type = t /\ Core(a)
  BY <1>1, <1>3, <1>4, <1>8, Opening
<1>10. c.ident \in BOOLEAN /\ (c.ident => info[p].ident)
  BY <1>1, <1>3, <1>9, Identified1
<1>11. Becomes(c, c, h, files[p], info[p].ident)
  <2>1. Applied(c.roles, h) = c.roles /\ h.type # "header" /\ h.type # "world"
    BY <1>5, <1>9 DEF Applied
  <2> QED BY <1>9, <1>10, <2>1 DEF Becomes, Recorded
<1>12. h.type \notin {"state", "file"} /\ client'[p] = c
  BY <1>3, <1>5, <1>8, <1>9
<1>13. UNCHANGED <<serverVars, info, files>>
  BY <1>8
<1>14. Learns(a, b, h) /\ Knows(b, c.roles) = After(p, Knows(a, c.roles), h) /\ Recorded(c, files'[p])
  BY <1>1, <1>2, <1>3, <1>11, <1>12, <1>13, OtherLearns
<1>15. x \in Proper(p, b) /\ ~Ranked(x)
  BY <1>6 DEF Proper, Requests, Login, Ranked
<1>16. /\ Learns(a, b, Head(toClient[p])) /\ Recorded(client'[p], files'[p])
       /\ Knows(b, client'[p].roles) = After(p, Knows(a, client[p].roles), Head(toClient[p]))
  BY <1>3, <1>4, <1>12, <1>14
<1>17. UNCHANGED <<serverVars, info>>
  BY <1>8
<1> QED BY <1>1, <1>2, <1>5, <1>7, <1>8, <1>15, <1>16, <1>17, AnswerFits

(* NMTTransferMissionFile.                                                 *)
LEMMA AfterFileOf ==
    ASSUME NEW p, NEW w, Whole(w), NEW h, h.type = "file", NEW x, x = After(p, w, h)
    PROVE  /\ x.state = IF w.state = Transfer /\ Holds(w.roles, p) THEN LoadIsland ELSE w.state
           /\ x.head = w.head /\ x.file \in BOOLEAN /\ x.file /\ x.roles = w.roles
           /\ x.person = (w.person /\ ~(w.state = Transfer /\ Holds(w.roles, p)))
<1>1. w.head \in BOOLEAN /\ w.file \in BOOLEAN /\ w.person \in BOOLEAN
  BY DEF Whole
<1> QED BY <1>1 DEF After, Walker, Applied, Loads

(* With the file, the client has all of them.                              *)
LEMMA AllFiles ==
    ASSUME Session, Around, NEW p \in Players, NEW n \in 1 .. MaxMissions
    PROVE  1 .. MaxMissions \subseteq files[p] \cup {n}
<1>0. MaxMissions \in Nat
  BY BoundsAssumption
<1>1. CASE Cached = Players
  BY <1>1 DEF Around, Stored
<1>2. CASE MaxMissions <= 1
  <2>1. n = 1 /\ 1 .. MaxMissions = {1}
    BY <1>0, <1>2
  <2> QED BY <2>1
<1> QED BY <1>1, <1>2 DEF Session

LEMMA FileFits ==
    ASSUME Session, Around, NEW p \in Staying, Fitted(p), ReceiveFile(p)
    PROVE  Fitted(p)'
<1>1. PICK a : a = View(p)
  OBVIOUS
<1>2. PICK b : b = View(p)'
  OBVIOUS
<1>3. PICK c : c = client[p]
  OBVIOUS
<1>4. PICK h : h = Head(toClient[p])
  OBVIOUS
<1>5. PICK t : t = "file"
  OBVIOUS
<1>6. PICK x : x = Ask(TRUE)
  OBVIOUS
<1>7. PICK m : m = <<x>>
  OBVIOUS
<1>8. PICK u : u = c.roles
  OBVIOUS
<1>9. PICK w : w = Knows(a, u)
  OBVIOUS
<1>10. PICK d : d = [c EXCEPT !.valid = TRUE]
  OBVIOUS
<1>11. PICK s \in BOOLEAN : s <=> c.state = Transfer /\ Holds(u, p)
  BY DEF Holds
<1>12. PICK e : e = IF s THEN Prepared(d) ELSE d
  OBVIOUS
<1>13. Receives(p, t) /\ UNCHANGED <<serverVars, info>> /\ files' = [files EXCEPT ![p] = @ \cup {c.head}]
  BY <1>3, <1>5 DEF ReceiveFile
<1>14. /\ p \in Players /\ Tabled /\ Recorded(c, files[p]) /\ h.type = t /\ Core(a) /\ Takes(p, w, h)
  BY <1>1, <1>3, <1>4, <1>8, <1>9, <1>13, Opening
<1>15. /\ DOMAIN c = Fields /\ c.jip = FALSE /\ c.head \in 0 .. MaxMissions
  BY <1>14 DEF Recorded
<1>16. /\ DOMAIN d = Fields /\ d.state = c.state /\ d.srv = c.srv /\ d.screen = c.screen /\ d.jip = FALSE
       /\ d.roles = c.roles /\ d.head = c.head /\ d.person = c.person /\ d.ident = c.ident /\ d.valid = TRUE
  BY <1>10, <1>15 DEF Fields
<1>17. client' = [client EXCEPT ![p] = e] /\ Answer(p, m)
  <2>1. Prepares(d, p) <=> Holds(u, p)
    BY <1>8, <1>16 DEF Mine, Prepares, Staying
  <2>2. s <=> d.state = Transfer /\ Prepares(d, p)
    BY <1>11, <1>16, <2>1
  <2>3. PICK brief \in BOOLEAN : brief <=> (d.state = Transfer /\ Prepares(d, p)) /\ d.jip /\ Jip
    <3>1. PICK z : z = ((d.state = Transfer /\ Prepares(d, p)) /\ d.jip /\ Jip)
      OBVIOUS
    <3> QED BY <3>1
  <2>4. brief = FALSE
    BY <1>16, <2>3
  <2>5. client' = [client EXCEPT ![p] = IF brief THEN [Prepared(d) EXCEPT !.state = Briefing]
                                        ELSE IF d.state = Transfer /\ Prepares(d, p) THEN Prepared(d) ELSE d]
    BY <1>3, <1>10, <2>3 DEF ReceiveFile
  <2>6. client' = [client EXCEPT ![p] = e]
    BY <1>12, <2>2, <2>4, <2>5
  <2>7. Answer(p, <<Ask(TRUE)>> \o When((d.state = Transfer /\ Prepares(d, p)) /\ d.jip /\ Jip, <<Ready(Briefing)>>))
    BY <1>3, <1>10 DEF ReceiveFile
  <2>8. When((d.state = Transfer /\ Prepares(d, p)) /\ d.jip /\ Jip, <<Ready(Briefing)>>) = <<>>
    BY <1>16 DEF When
  <2>9. <<x>> \o <<>> = <<x>>
    OBVIOUS
  <2>10. Answer(p, m)
    BY <1>6, <1>7, <2>7, <2>8, <2>9
  <2> QED BY <2>6, <2>10
<1>18. client'[p] = e
  BY <1>14, <1>17 DEF Tabled
<1>19. /\ DOMAIN e = Fields /\ e.srv = c.srv /\ e.screen = c.screen /\ e.jip = FALSE
       /\ e.roles = u /\ e.head = c.head /\ e.ident = c.ident /\ e.valid = TRUE
       /\ e.state = IF s THEN LoadIsland ELSE c.state
       /\ e.person = IF s THEN 0 ELSE c.person
  BY <1>8, <1>12, <1>16 DEF Prepared, Fields
<1>20. Views(a) /\ a.state = c.state /\ a.srv = c.srv /\ a.head = (c.head # 0) /\ a.person = (c.person # 0)
       /\ a.ident = c.ident /\ a.screen = c.screen
  BY <1>1, <1>3, <1>14, ViewIs DEF Core
<1>21. /\ w.state = a.state /\ w.head = a.head /\ w.roles = u /\ w.file = a.all /\ w.person = a.person
       /\ Whole(w)
  BY <1>9, <1>20, KnowsParts
<1>22. a.head /\ c.head \in 1 .. MaxMissions /\ c.head # 0
  <2>1. a.head
    BY <1>5, <1>14, <1>21 DEF Takes
  <2>2. MaxMissions \in Nat
    BY BoundsAssumption
  <2>3. c.head # 0
    BY <1>20, <2>1
  <2> QED BY <1>15, <2>1, <2>2, <2>3
<1>23. 1 .. MaxMissions \subseteq files'[p]
  <2>1. files'[p] = files[p] \cup {c.head}
    BY <1>13, <1>14 DEF Tabled
  <2>2. PICK n \in 1 .. MaxMissions : n = c.head
    BY <1>22
  <2> QED BY <1>14, <2>1, <2>2, AllFiles
<1>24. Recorded(e, files'[p])
  <2>1. e.head \in 0 .. MaxMissions /\ e.head # 0
    BY <1>15, <1>19, <1>22
  <2> QED BY <1>19, <1>23, <2>1 DEF Recorded
<1>25. /\ b.state = e.state /\ b.srv = e.srv /\ b.head = (e.head # 0) /\ b.all = TRUE
       /\ b.person = (e.person # 0) /\ b.ident = e.ident /\ b.screen = e.screen
  <2>1. /\ b.state = client'[p].state /\ b.srv = client'[p].srv /\ b.head = (client'[p].head # 0)
        /\ b.all = (1 .. MaxMissions \subseteq files'[p]) /\ b.person = (client'[p].person # 0)
        /\ b.ident = client'[p].ident /\ b.screen = client'[p].screen
    BY <1>2, ViewIsNext
  <2> QED BY <1>18, <1>23, <2>1
<1>26. SameServer(a, b)
  BY <1>1, <1>2, <1>13, ViewServer DEF serverVars
<1>27. /\ b.state = IF s THEN LoadIsland ELSE a.state
       /\ b.person = (a.person /\ ~s)
       /\ b.head = a.head /\ b.ident = a.ident /\ b.screen = a.screen /\ b.srv = a.srv
  BY <1>19, <1>20, <1>25
<1>28. s <=> a.state = Transfer /\ Holds(u, p)
  BY <1>11, <1>20
<1>29. Learns(a, b, h)
  <2>1. b.state = IF a.state = Transfer /\ Holds(u, p) THEN LoadIsland ELSE a.state
    BY <1>27, <1>28
  <2>2. b.person = (a.person /\ ~(a.state = Transfer /\ Holds(u, p)))
    BY <1>27, <1>28
  <2>3. h.type = "file" /\ b.all = TRUE
    BY <1>5, <1>14, <1>25
  <2> QED BY <1>14, <1>22, <1>26, <1>27, <2>1, <2>2, <2>3, FileRead
<1>30. PICK y : y = After(p, w, h)
  OBVIOUS
<1>31. Knows(b, u) = y
  <2>1. /\ y.state = IF w.state = Transfer /\ Holds(w.roles, p) THEN LoadIsland ELSE w.state
        /\ y.head = w.head /\ y.file \in BOOLEAN /\ y.file /\ y.roles = w.roles
        /\ y.person = (w.person /\ ~(w.state = Transfer /\ Holds(w.roles, p)))
    BY <1>5, <1>14, <1>21, <1>30, AfterFileOf
  <2>2. y.state = b.state /\ y.head = b.head /\ y.roles = u /\ y.file = b.all /\ y.person = b.person
    BY <1>21, <1>25, <1>27, <1>28, <2>1
  <2> QED BY <1>30, <2>2, AfterKnows
<1>32. x \in Proper(p, b) /\ ~Ranked(x) /\ x.type # "login"
  <2>1. x.type = "ask" /\ x.valid = TRUE /\ x \in Requests
    BY <1>6 DEF Ask, Requests
  <2> QED BY <1>25, <2>1 DEF Proper, Ranked
<1>33. /\ Learns(a, b, Head(toClient[p])) /\ Recorded(client'[p], files'[p])
       /\ Knows(b, client'[p].roles) = After(p, Knows(a, client[p].roles), Head(toClient[p]))
  <2>1. client'[p].roles = u /\ client[p].roles = u
    BY <1>3, <1>8, <1>18, <1>19
  <2> QED BY <1>4, <1>9, <1>18, <1>24, <1>29, <1>30, <1>31, <2>1
<1>34. UNCHANGED <<serverVars, info>>
  BY <1>13
<1> QED BY <1>1, <1>2, <1>7, <1>13, <1>17, <1>32, <1>33, <1>34, AnswerFits

-----------------------------------------------------------------------------
(* The displays, and who sits in front of them.                            *)

(* The client keeps all but its display, and maybe its person.             *)
Placed(c, e) ==
    /\ DOMAIN e = Fields /\ e.state = c.state /\ e.srv = c.srv /\ e.head = c.head /\ e.roles = c.roles
    /\ e.valid = c.valid /\ e.jip = c.jip /\ e.ident = c.ident

Sits == UNCHANGED serverVars /\ UNCHANGED info /\ UNCHANGED toClient /\ UNCHANGED files

LEMMA Placement ==
    ASSUME NEW p, Fitted(p), Sits, NEW a, a = View(p), NEW b, b = View(p)',
           NEW c, c = client[p], NEW e, client'[p] = e, Placed(c, e)
    PROVE  /\ Core(a) /\ SameServer(a, b) /\ SamePlace(a, b) /\ Recorded(client'[p], files'[p])
           /\ client'[p].roles = client[p].roles
           /\ a.person = (c.person # 0) /\ b.person = (e.person # 0) /\ b.person \in BOOLEAN
           /\ a.screen = c.screen /\ b.screen = e.screen
           /\ a.state = c.state /\ a.srv = c.srv /\ a.head = (c.head # 0) /\ a.ident = c.ident
<1>1. Core(a) /\ Recorded(c, files[p])
  BY FittedParts
<1>2. /\ DOMAIN e = Fields /\ e.state = c.state /\ e.srv = c.srv /\ e.head = c.head /\ e.roles = c.roles
      /\ e.valid = c.valid /\ e.jip = c.jip /\ e.ident = c.ident
  BY DEF Placed
<1>3. files' = files /\ UNCHANGED <<state, report, info, roles>>
  BY DEF Sits, serverVars
<1>4. /\ a.state = c.state /\ a.srv = c.srv /\ a.head = (c.head # 0) /\ a.person = (c.person # 0)
      /\ a.ident = c.ident /\ a.screen = c.screen /\ a.all = (1 .. MaxMissions \subseteq files[p])
  BY ViewIs
<1>5. /\ b.state = e.state /\ b.srv = e.srv /\ b.head = (e.head # 0) /\ b.person = (e.person # 0)
      /\ b.ident = e.ident /\ b.screen = e.screen /\ b.all = (1 .. MaxMissions \subseteq files[p])
  BY <1>3, ViewIsNext
<1>6. SamePlace(a, b)
  BY <1>2, <1>4, <1>5 DEF SamePlace
<1>7. SameServer(a, b)
  BY <1>3, ViewServer
<1>8. Recorded(e, files'[p])
  BY <1>1, <1>2, <1>3 DEF Recorded
<1>9. b.person \in BOOLEAN
  BY <1>5
<1> QED BY <1>1, <1>2, <1>4, <1>5, <1>6, <1>7, <1>8, <1>9

(* Without a word, with one, with two.                                     *)
LEMMA QuietMove ==
    ASSUME Around, NEW p \in Players, Fitted(p), Sits, UNCHANGED toServer,
           client'[p].roles = client[p].roles, Recorded(client'[p], files'[p]),
           NEW a, a = View(p), NEW b, b = View(p)', Moved(a, b), Owes(b) => Owes(a)
    PROVE  Fitted(p)'
<1>1. PICK m : m = <<>>
  OBVIOUS
<1>2. (\A S : m \in Seq(S)) /\ Len(m) = 0
  BY <1>1
<1>3. m \in Seq(Proper(p, b))
  BY <1>2
<1>4. Ordered(Over(b), m) /\ Free("login", m) /\ \A k \in 1 .. Len(m) : Ranked(m[k]) => Bound(a) <= Rank(Over(b), m[k])
  BY <1>2 DEF Ordered, Free
<1>5. toServer'[p] = toServer[p] \o m
  <2>1. toServer[p] \in Seq(Proper(p, a))
    BY FittedParts
  <2> QED BY <1>1, <2>1
<1>6. UNCHANGED roles /\ toClient'[p] = toClient[p]
  BY DEF Sits, serverVars
<1> QED BY <1>3, <1>4, <1>5, <1>6, MovedStep

LEMMA SaysMove ==
    ASSUME Around, NEW p \in Players, Fitted(p), Sits,
           client'[p].roles = client[p].roles, Recorded(client'[p], files'[p]),
           NEW a, a = View(p), NEW b, b = View(p)', Moved(a, b),
           NEW x \in Proper(p, b), Ranked(x), Rank(Over(b), x) = Bound(b), Bound(a) <= Bound(b),
           Owes(b) => Owes(a) \/ (x.type = "ready" /\ x.state = Debriefing),
           NEW m, m = <<x>>, Answer(p, m)
    PROVE  Fitted(p)'
<1>1. m \in Seq(Proper(p, b)) /\ Len(m) = 1 /\ m[1] = x
  OBVIOUS
<1>2. Ordered(Over(b), m) /\ Free("login", m)
  <2>1. \A k \in 1 .. Len(m) : k = 1
    BY <1>1
  <2>2. x.type # "login"
    BY DEF Ranked
  <2>3. Rank(Over(b), x) <= Rank(Over(b), x)
    BY BoundsTyped
  <2> QED BY <1>1, <2>1, <2>2, <2>3 DEF Ordered, Free
<1>3. \A k \in 1 .. Len(m) : Ranked(m[k]) => Bound(a) <= Rank(Over(b), m[k])
  BY <1>1
<1>4. Owes(b) => Owes(a) \/ Owed(m)
  BY <1>1 DEF Owed
<1>5. toServer'[p] = toServer[p] \o m
  <2>1. toServer \in [Players -> Seq(Requests)]
    BY Unfolded DEF Around
  <2> QED BY <2>1 DEF Answer
<1>6. UNCHANGED roles /\ toClient'[p] = toClient[p]
  BY DEF Sits, serverVars
<1> QED BY <1>1, <1>2, <1>3, <1>4, <1>5, <1>6, MovedStep

LEMMA SaysTwoMove ==
    ASSUME Around, NEW p \in Players, Fitted(p), Sits,
           client'[p].roles = client[p].roles, Recorded(client'[p], files'[p]),
           NEW a, a = View(p), NEW b, b = View(p)', Moved(a, b), ~Owes(b),
           NEW x \in Proper(p, b), NEW y \in Proper(p, b), Ranked(x), Ranked(y),
           Rank(Over(b), x) = 1, Rank(Over(b), y) = 1, Bound(a) = 1,
           NEW m, m = <<x, y>>, Answer(p, m)
    PROVE  Fitted(p)'
<1>1. m \in Seq(Proper(p, b)) /\ Len(m) = 2 /\ m[1] = x /\ m[2] = y
  OBVIOUS
<1>2. \A k \in 1 .. Len(m) : (k = 1 \/ k = 2) /\ m[k] \in {x, y}
  BY <1>1
<1>3. \A k \in 1 .. Len(m) : Rank(Over(b), m[k]) = 1 /\ m[k].type # "login"
  BY <1>2 DEF Ranked
<1>4. Ordered(Over(b), m) /\ Free("login", m)
  <2>1. Free("login", m)
    BY <1>3 DEF Free
  <2>2. ASSUME NEW j \in 1 .. Len(m), NEW k \in 1 .. Len(m)
        PROVE  Rank(Over(b), m[j]) <= Rank(Over(b), m[k])
    <3>1. PICK i : i = Rank(Over(b), m[j])
      OBVIOUS
    <3>2. PICK n : n = Rank(Over(b), m[k])
      OBVIOUS
    <3>3. i = 1 /\ n = 1
      BY <1>3, <3>1, <3>2
    <3> QED BY <3>1, <3>2, <3>3
  <2> QED BY <2>1, <2>2 DEF Ordered
<1>5. \A k \in 1 .. Len(m) : Ranked(m[k]) => Bound(a) <= Rank(Over(b), m[k])
  <2> SUFFICES ASSUME NEW k \in 1 .. Len(m) PROVE Bound(a) <= Rank(Over(b), m[k])
    OBVIOUS
  <2>1. Rank(Over(b), m[k]) = 1
    BY <1>3
  <2> QED BY <2>1
<1>6. toServer'[p] = toServer[p] \o m
  <2>1. toServer \in [Players -> Seq(Requests)]
    BY Unfolded DEF Around
  <2> QED BY <2>1 DEF Answer
<1>7. UNCHANGED roles /\ toClient'[p] = toClient[p]
  BY DEF Sits, serverVars
<1> QED BY <1>1, <1>4, <1>5, <1>6, <1>7, MovedStep

(* What can be said of a phase.                                            *)
LEMMA ReadyProper ==
    ASSUME NEW p, NEW b, NEW s \in Phases, NEW x, x = Ready(s),
           \/ s \in {PrepareSide, PrepareOK} /\ Bound(b) = 1
           \/ s = Briefing /\ Bound(b) = 2
           \/ s = Play /\ Bound(b) = 3
           \/ s = Debriefing /\ Bound(b) = 4
           \/ s = DebriefingOK /\ Bound(b) = (IF Over(b) THEN 5 ELSE 0),
           Least(b) <= Bound(b)
    PROVE  x \in Proper(p, b) /\ Ranked(x) /\ Rank(Over(b), x) = Bound(b)
<1>1. x.type = "ready" /\ x.state = s /\ x \in Requests
  BY DEF Ready, Requests
<1>2. Rank(Over(b), x) = Bound(b)
  BY <1>1 DEF Rank
<1>3. Least(b) \in 0 .. 5 /\ Bound(b) \in 0 .. 5
  BY BoundsTyped
<1>4. Ranked(x)
  BY <1>1 DEF Ranked
<1>5. Rank(Over(b), x) \in Least(b) .. Bound(b)
  BY <1>2, <1>3
<1>6. x.type # "order" /\ x.type # "claim" /\ x.type # "ask"
  BY <1>1
<1> QED BY <1>1, <1>2, <1>4, <1>5, <1>6 DEF Proper

LEMMA ClaimProper ==
    ASSUME NEW p \in Players, NEW b, NEW r \in Slots, NEW o \in {AI, p}, NEW x, x = Claim(r, o),
           b.ident, b.head, Bound(b) = 1, Least(b) <= 1
    PROVE  x \in Proper(p, b) /\ Ranked(x) /\ Rank(Over(b), x) = Bound(b)
<1>1. x.type = "claim" /\ x.player = o /\ x \in Requests
  BY DEF Claim, Requests
<1>2. Rank(Over(b), x) = 1
  BY <1>1 DEF Rank
<1>3. Least(b) \in 0 .. 5
  BY BoundsTyped
<1>4. Ranked(x)
  BY <1>1 DEF Ranked
<1>5. Rank(Over(b), x) \in Least(b) .. Bound(b)
  BY <1>2, <1>3
<1> QED BY <1>1, <1>2, <1>4, <1>5 DEF Proper

(* What the step makes of the view.                                        *)
Turns(p, a, b) ==
    /\ Core(a) /\ SameServer(a, b) /\ SamePlace(a, b) /\ b.person \in BOOLEAN
    /\ a.screen = client[p].screen /\ a.state = client[p].state /\ a.srv = client[p].srv
    /\ a.head = (client[p].head # 0) /\ a.ident = client[p].ident
    /\ Shown(a) = SetupState(client[p]) /\ ShownReady(a) = ReadyState(client[p])

Keeps(p) == client'[p].roles = client[p].roles /\ Recorded(client'[p], files'[p])

LEMMA PlacementTurns ==
    ASSUME NEW p, Fitted(p), Sits, NEW a, a = View(p), NEW b, b = View(p)',
           NEW e, client'[p] = e, Placed(client[p], e)
    PROVE  Turns(p, a, b) /\ Keeps(p) /\ a.person = (client[p].person # 0) /\ b.person = (e.person # 0) /\ b.screen = e.screen
<1>1. PICK c : c = client[p]
  OBVIOUS
<1>2. Placed(c, e)
  BY <1>1
<1>3. /\ Core(a) /\ SameServer(a, b) /\ SamePlace(a, b) /\ Recorded(client'[p], files'[p])
      /\ client'[p].roles = client[p].roles
      /\ a.person = (c.person # 0) /\ b.person = (e.person # 0) /\ b.person \in BOOLEAN
      /\ a.screen = c.screen /\ b.screen = e.screen
      /\ a.state = c.state /\ a.srv = c.srv /\ a.head = (c.head # 0) /\ a.ident = c.ident
  BY <1>1, <1>2, Placement
<1>4. Shown(a) = SetupState(c) /\ ShownReady(a) = ReadyState(c)
  BY <1>3 DEF Shown, SetupState, ShownReady, ReadyState
<1> QED BY <1>1, <1>3, <1>4 DEF Turns, Keeps

LEMMA ShowTurns ==
    ASSUME Around, NEW p \in Players, Fitted(p), Sits, NEW g, Show(p, g), NEW a, a = View(p), NEW b, b = View(p)'
    PROVE  Turns(p, a, b) /\ Keeps(p) /\ b.person = a.person /\ b.screen = g
<1>1. PICK e : e = [client[p] EXCEPT !.screen = g]
  OBVIOUS
<1>2. client'[p] = e
  BY <1>1 DEF Show, Around, Tabled
<1>3. DOMAIN client[p] = Fields
  BY DEF Fitted, Recorded
<1>4. e.screen = g /\ e.person = client[p].person
  BY <1>1, <1>3 DEF Fields
<1>6. Placed(client[p], e)
  BY <1>1, <1>3 DEF Placed, Fields
<1>5. Turns(p, a, b) /\ Keeps(p) /\ a.person = (client[p].person # 0) /\ b.person = (e.person # 0) /\ b.screen = e.screen
  BY <1>2, <1>6, PlacementTurns
<1> QED BY <1>4, <1>5

Drops(p, g) == client' = [client EXCEPT ![p] = [@ EXCEPT !.screen = g, !.person = 0]]

LEMMA DropTurns ==
    ASSUME Around, NEW p \in Players, Fitted(p), Sits, NEW g, Drops(p, g), NEW a, a = View(p), NEW b, b = View(p)'
    PROVE  Turns(p, a, b) /\ Keeps(p) /\ ~b.person /\ b.screen = g
<1>1. PICK e : e = [client[p] EXCEPT !.screen = g, !.person = 0]
  OBVIOUS
<1>2. client'[p] = e
  BY <1>1 DEF Drops, Around, Tabled
<1>3. DOMAIN client[p] = Fields
  BY DEF Fitted, Recorded
<1>4. e.screen = g /\ e.person = 0
  BY <1>1, <1>3 DEF Fields
<1>6. Placed(client[p], e)
  BY <1>1, <1>3 DEF Placed, Fields
<1>5. Turns(p, a, b) /\ Keeps(p) /\ a.person = (client[p].person # 0) /\ b.person = (e.person # 0) /\ b.screen = e.screen
  BY <1>2, <1>6, PlacementTurns
<1> QED BY <1>4, <1>5

LEMMA StandTurns ==
    ASSUME Around, NEW p \in Players, Fitted(p), Sits, UNCHANGED client, NEW a, a = View(p), NEW b, b = View(p)'
    PROVE  Turns(p, a, b) /\ Keeps(p) /\ b.person = a.person /\ b.screen = a.screen
<1>1. PICK e : e = client[p]
  OBVIOUS
<1>2. client'[p] = e
  BY <1>1
<1>3. DOMAIN client[p] = Fields
  BY DEF Fitted, Recorded
<1>4. Placed(client[p], e)
  BY <1>1, <1>3 DEF Placed
<1>5. Turns(p, a, b) /\ Keeps(p) /\ a.person = (client[p].person # 0) /\ b.person = (e.person # 0) /\ b.screen = e.screen
  BY <1>2, <1>4, PlacementTurns
<1>6. a.screen = client[p].screen
  BY <1>5 DEF Turns
<1> QED BY <1>1, <1>5, <1>6

(* The steps without a word.                                               *)
LEMMA QuietTurn ==
    ASSUME Around, NEW p \in Players, Fitted(p), Sits, UNCHANGED toServer, Keeps(p),
           NEW a, a = View(p), NEW b, b = View(p)', Moved(a, b), ~Owes(b)
    PROVE  Fitted(p)'
BY QuietMove DEF Keeps

LEMMA EnterSetupFits ==
    ASSUME Around, NEW p \in Players, Fitted(p), EnterSetup(p)
    PROVE  Fitted(p)'
<1>1. PICK a : a = View(p)
  OBVIOUS
<1>2. PICK b : b = View(p)'
  OBVIOUS
<1>3. Sits /\ Show(p, "setup") /\ client[p].screen = "lobby" /\ client[p].srv >= PrepareSide /\ UNCHANGED toServer
  BY DEF EnterSetup, Frame, Sits, Shows
<1>4. Turns(p, a, b) /\ Keeps(p) /\ b.person = a.person /\ b.screen = "setup"
  BY <1>1, <1>2, <1>3, ShowTurns
<1>5. /\ Core(a) /\ SameServer(a, b) /\ SamePlace(a, b) /\ b.person \in BOOLEAN
      /\ a.screen = "lobby" /\ a.srv >= PrepareSide
  BY <1>3, <1>4 DEF Turns
<1>6. Moved(a, b) /\ ~Owes(b)
  BY <1>4, <1>5, EnterSetupMoves
<1> QED BY <1>1, <1>2, <1>3, <1>4, <1>6, QuietTurn

LEMMA LeaveWaitFits ==
    ASSUME Around, NEW p \in Players, Fitted(p), LeaveWait(p)
    PROVE  Fitted(p)'
<1>1. PICK a : a = View(p)
  OBVIOUS
<1>2. PICK b : b = View(p)'
  OBVIOUS
<1>3. /\ Sits /\ Show(p, "setup") /\ client[p].screen = "wait" /\ UNCHANGED toServer
      /\ client[p].srv \in {PrepareRole, PrepareOK} \/ client[p].srv <= PrepareSide
  BY DEF LeaveWait, Frame, Sits, Shows
<1>4. Turns(p, a, b) /\ Keeps(p) /\ b.person = a.person /\ b.screen = "setup"
  BY <1>1, <1>2, <1>3, ShowTurns
<1>5. /\ Core(a) /\ SameServer(a, b) /\ SamePlace(a, b) /\ b.person \in BOOLEAN
      /\ a.screen = "wait" /\ (a.srv \in {PrepareRole, PrepareOK} \/ a.srv <= PrepareSide)
  BY <1>3, <1>4 DEF Turns
<1>6. Moved(a, b) /\ ~Owes(b)
  BY <1>4, <1>5, LeaveWaitMoves
<1> QED BY <1>1, <1>2, <1>3, <1>4, <1>6, QuietTurn

LEMMA LeaveDebriefingDisplayFits ==
    ASSUME Around, NEW p \in Players, Fitted(p), LeaveDebriefingDisplay(p)
    PROVE  Fitted(p)'
<1>1. PICK a : a = View(p)
  OBVIOUS
<1>2. PICK b : b = View(p)'
  OBVIOUS
<1>3. /\ Sits /\ Show(p, "setup") /\ client[p].screen \in {"debriefing", "debriefed"} /\ UNCHANGED toServer
      /\ client[p].state \in None .. PrepareOK \cup Transfer .. Briefing
  BY DEF LeaveDebriefingDisplay, Frame, Sits, Shows
<1>4. Turns(p, a, b) /\ Keeps(p) /\ b.person = a.person /\ b.screen = "setup"
  BY <1>1, <1>2, <1>3, ShowTurns
<1>5. /\ Core(a) /\ SameServer(a, b) /\ SamePlace(a, b) /\ b.person \in BOOLEAN
      /\ a.screen \in {"debriefing", "debriefed"}
      /\ a.state \in None .. PrepareOK \cup Transfer .. Briefing
  BY <1>3, <1>4 DEF Turns
<1>6. Moved(a, b) /\ ~Owes(b)
  BY <1>4, <1>5, LeaveDebriefingMoves
<1> QED BY <1>1, <1>2, <1>3, <1>4, <1>6, QuietTurn

LEMMA LeaveSetupFits ==
    ASSUME Around, NEW p \in Players, Fitted(p), LeaveSetup(p)
    PROVE  Fitted(p)'
<1>1. PICK a : a = View(p)
  OBVIOUS
<1>2. PICK b : b = View(p)'
  OBVIOUS
<1>3. PICK c : c = client[p]
  OBVIOUS
<1>4. PICK s : s = SetupState(c)
  OBVIOUS
<1>5. /\ Sits /\ c.screen = "setup"
      /\ \/ s < PrepareSide /\ Show(p, "lobby") /\ UNCHANGED toServer
         \/ /\ s = Briefing /\ Mine(c, p)
            /\ Show(p, "getready") /\ Answer(p, <<Ready(Briefing)>>)
         \/ /\ s = Play \/ (s = Briefing /\ ~Mine(c, p))
            /\ Show(p, IF c.state >= Play /\ Mine(c, p) THEN "mission" ELSE "wait")
            /\ UNCHANGED toServer
  BY <1>3, <1>4 DEF LeaveSetup, Frame, Sits, Shows
<1>6. CASE s < PrepareSide /\ Show(p, "lobby") /\ UNCHANGED toServer
  <2>1. Turns(p, a, b) /\ Keeps(p) /\ b.person = a.person /\ b.screen = "lobby"
    BY <1>1, <1>2, <1>5, <1>6, ShowTurns
  <2>2. /\ Core(a) /\ SameServer(a, b) /\ SamePlace(a, b) /\ b.person \in BOOLEAN
        /\ a.screen = "setup" /\ Shown(a) = s
    BY <1>3, <1>4, <1>5, <2>1 DEF Turns
  <2>3. Moved(a, b) /\ ~Owes(b)
    BY <1>6, <2>1, <2>2, BackToLobbyMoves
  <2> QED BY <1>1, <1>2, <1>5, <1>6, <2>1, <2>3, QuietTurn
<1>7. CASE s = Briefing /\ Mine(c, p) /\ Show(p, "getready") /\ Answer(p, <<Ready(Briefing)>>)
  <2>1. Turns(p, a, b) /\ Keeps(p) /\ b.person = a.person /\ b.screen = "getready"
    BY <1>1, <1>2, <1>5, <1>7, ShowTurns
  <2>2. /\ Core(a) /\ SameServer(a, b) /\ SamePlace(a, b) /\ b.person \in BOOLEAN
        /\ a.screen = "setup" /\ Shown(a) = Briefing
    BY <1>3, <1>4, <1>5, <1>7, <2>1 DEF Turns
  <2>3. Moved(a, b) /\ ~Owes(b) /\ Bound(a) <= 2 /\ Bound(b) = 2 /\ Least(b) <= 2
    BY <2>1, <2>2, ToBriefingMoves
  <2>4. PICK n \in Phases : n = Briefing
    OBVIOUS
  <2>5. PICK x : x = Ready(n)
    OBVIOUS
  <2>6. PICK m : m = <<x>>
    OBVIOUS
  <2>7. x \in Proper(p, b) /\ Ranked(x) /\ Rank(Over(b), x) = Bound(b)
    BY <2>3, <2>4, <2>5, ReadyProper
  <2>8. Answer(p, m)
    BY <1>7, <2>4, <2>5, <2>6
  <2>9. Bound(a) <= Bound(b)
    BY <2>3
  <2> QED BY <1>1, <1>2, <1>5, <2>1, <2>3, <2>6, <2>7, <2>8, <2>9, SaysMove DEF Keeps
<1>8. CASE /\ s = Play \/ (s = Briefing /\ ~Mine(c, p))
           /\ Show(p, IF c.state >= Play /\ Mine(c, p) THEN "mission" ELSE "wait")
           /\ UNCHANGED toServer
  <2>1. PICK g : g = IF c.state >= Play /\ Mine(c, p) THEN "mission" ELSE "wait"
    OBVIOUS
  <2>2. Show(p, g)
    BY <1>8, <2>1
  <2>3. Turns(p, a, b) /\ Keeps(p) /\ b.person = a.person /\ b.screen = g
    BY <1>1, <1>2, <1>5, <2>2, ShowTurns
  <2>4. /\ Core(a) /\ SameServer(a, b) /\ SamePlace(a, b) /\ b.person \in BOOLEAN
        /\ a.screen = "setup" /\ Shown(a) = s /\ a.state = c.state
    BY <1>3, <1>4, <1>5, <2>3 DEF Turns
  <2>5. Shown(a) \in {Briefing, Play} /\ b.screen \in {"mission", "wait"} /\ (b.screen = "mission" => a.state >= Play)
    BY <1>8, <2>1, <2>3, <2>4
  <2>6. Moved(a, b) /\ ~Owes(b)
    BY <2>3, <2>4, <2>5, ToWaitMoves
  <2> QED BY <1>1, <1>2, <1>5, <1>8, <2>3, <2>6, QuietTurn
<1> QED BY <1>5, <1>6, <1>7, <1>8

LEMMA LeaveGetReadyFits ==
    ASSUME Around, NEW p \in Players, Fitted(p), LeaveGetReady(p)
    PROVE  Fitted(p)'
<1>1. PICK a : a = View(p)
  OBVIOUS
<1>2. PICK b : b = View(p)'
  OBVIOUS
<1>3. PICK c : c = client[p]
  OBVIOUS
<1>4. PICK s : s = ReadyState(c)
  OBVIOUS
<1>5. /\ Sits /\ c.screen \in {"getready", "launched"}
      /\ \/ s = Play /\ Show(p, "mission") /\ Answer(p, <<Ready(Play)>>)
         \/ /\ s <= Debriefing \/ s = Transfer
            /\ client' = [client EXCEPT ![p] = [@ EXCEPT !.screen = "wait", !.person = 0]]
            /\ UNCHANGED toServer
  BY <1>3, <1>4 DEF LeaveGetReady, Frame, Sits, Shows
<1>6. CASE s = Play /\ Show(p, "mission") /\ Answer(p, <<Ready(Play)>>)
  <2>1. Turns(p, a, b) /\ Keeps(p) /\ b.person = a.person /\ b.screen = "mission"
    BY <1>1, <1>2, <1>5, <1>6, ShowTurns
  <2>2. /\ Core(a) /\ SameServer(a, b) /\ SamePlace(a, b) /\ b.person \in BOOLEAN
        /\ a.screen \in {"getready", "launched"} /\ ShownReady(a) = Play
    BY <1>3, <1>4, <1>5, <1>6, <2>1 DEF Turns
  <2>3. Moved(a, b) /\ ~Owes(b) /\ Bound(a) <= 3 /\ Bound(b) = 3 /\ Least(b) <= 3
    BY <2>1, <2>2, ToMissionMoves
  <2>4. PICK n \in Phases : n = Play
    OBVIOUS
  <2>5. PICK x : x = Ready(n)
    OBVIOUS
  <2>6. PICK m : m = <<x>>
    OBVIOUS
  <2>7. x \in Proper(p, b) /\ Ranked(x) /\ Rank(Over(b), x) = Bound(b)
    BY <2>3, <2>4, <2>5, ReadyProper
  <2>8. Answer(p, m)
    BY <1>6, <2>4, <2>5, <2>6
  <2>9. Bound(a) <= Bound(b)
    BY <2>3
  <2> QED BY <1>1, <1>2, <1>5, <2>1, <2>3, <2>6, <2>7, <2>8, <2>9, SaysMove DEF Keeps
<1>7. CASE /\ s <= Debriefing \/ s = Transfer
           /\ client' = [client EXCEPT ![p] = [@ EXCEPT !.screen = "wait", !.person = 0]]
           /\ UNCHANGED toServer
  <2>0. Drops(p, "wait")
    BY <1>7 DEF Drops
  <2>1. Turns(p, a, b) /\ Keeps(p) /\ ~b.person /\ b.screen = "wait"
    BY <1>1, <1>2, <1>5, <2>0, DropTurns
  <2>2. /\ Core(a) /\ SameServer(a, b) /\ SamePlace(a, b) /\ b.person \in BOOLEAN
        /\ a.screen \in {"getready", "launched"} /\ (ShownReady(a) <= Debriefing \/ ShownReady(a) = Transfer)
    BY <1>3, <1>4, <1>5, <1>7, <2>1 DEF Turns
  <2>3. Moved(a, b) /\ ~Owes(b)
    BY <2>1, <2>2, GiveUpMoves
  <2> QED BY <1>1, <1>2, <1>5, <1>7, <2>1, <2>3, QuietTurn
<1> QED BY <1>5, <1>6, <1>7

LEMMA LeaveMissionFits ==
    ASSUME Around, NEW p \in Players, Fitted(p), LeaveMission(p)
    PROVE  Fitted(p)'
<1>1. PICK a : a = View(p)
  OBVIOUS
<1>2. PICK b : b = View(p)'
  OBVIOUS
<1>5. /\ Sits /\ client[p].screen = "mission"
      /\ Drops(p, "debriefing") /\ Answer(p, <<Ready(Debriefing)>>)
  BY DEF LeaveMission, Frame, Sits, Shows, Drops
<1>6. Turns(p, a, b) /\ Keeps(p) /\ ~b.person /\ b.screen = "debriefing"
  BY <1>1, <1>2, <1>5, DropTurns
<1>7. /\ Core(a) /\ SameServer(a, b) /\ SamePlace(a, b) /\ b.person \in BOOLEAN /\ a.screen = "mission"
  BY <1>5, <1>6 DEF Turns
<1>8. Moved(a, b) /\ Bound(a) <= 4 /\ Bound(b) = 4 /\ Least(b) <= 4
  BY <1>6, <1>7, LeaveMissionMoves
<1>9. PICK n \in Phases : n = Debriefing
  OBVIOUS
<1>10. PICK x : x = Ready(n)
  OBVIOUS
<1>11. PICK m : m = <<x>>
  OBVIOUS
<1>12. x \in Proper(p, b) /\ Ranked(x) /\ Rank(Over(b), x) = Bound(b)
  BY <1>8, <1>9, <1>10, ReadyProper
<1>13. Answer(p, m) /\ x.type = "ready" /\ x.state = Debriefing
  BY <1>5, <1>9, <1>10, <1>11 DEF Ready
<1>14. Bound(a) <= Bound(b)
  BY <1>8
<1> QED BY <1>1, <1>2, <1>5, <1>6, <1>8, <1>11, <1>12, <1>13, <1>14, SaysMove DEF Keeps

LEMMA ClickFits ==
    ASSUME Around, NEW p \in Players, Fitted(p), NEW r \in Slots, ClickSlot(p, r)
    PROVE  Fitted(p)'
<1>1. PICK a : a = View(p)
  OBVIOUS
<1>2. PICK b : b = View(p)'
  OBVIOUS
<1>3. PICK c : c = client[p]
  OBVIOUS
<1>4. /\ Sits /\ UNCHANGED client /\ c.screen = "setup" /\ SetupState(c) \in PrepareSide .. LoadIsland /\ c.ident
      /\ Answer(p, IF c.roles[r] = p THEN <<Ready(PrepareSide), Claim(r, AI)>> ELSE <<Claim(r, p)>>)
  BY <1>3 DEF ClickSlot, Frame, Sits, Shows
<1>5. Turns(p, a, b) /\ Keeps(p) /\ b.person = a.person /\ b.screen = a.screen
  BY <1>1, <1>2, <1>4, StandTurns
<1>6. /\ Core(a) /\ SameServer(a, b) /\ SamePlace(a, b) /\ b.person \in BOOLEAN
      /\ a.screen = "setup" /\ b.screen = "setup" /\ Shown(a) \in PrepareSide .. LoadIsland /\ a.ident
  BY <1>3, <1>4, <1>5 DEF Turns
<1>7. Moved(a, b) /\ ~Owes(b) /\ a.head /\ Bound(a) = 1 /\ Bound(b) = 1 /\ Least(b) <= 1
  BY <1>5, <1>6, SetupMoves
<1>8. b.ident /\ b.head
  BY <1>6, <1>7 DEF SamePlace
<1>9. CASE c.roles[r] = p
  <2>1. PICK n \in Phases : n = PrepareSide
    OBVIOUS
  <2>2. PICK x : x = Ready(n)
    OBVIOUS
  <2>3. PICK y : y = Claim(r, AI)
    OBVIOUS
  <2>4. PICK m : m = <<x, y>>
    OBVIOUS
  <2>5. x \in Proper(p, b) /\ Ranked(x) /\ Rank(Over(b), x) = Bound(b)
    BY <1>7, <2>1, <2>2, ReadyProper
  <2>6. y \in Proper(p, b) /\ Ranked(y) /\ Rank(Over(b), y) = Bound(b)
    <3>1. PICK o \in {AI, p} : o = AI
      OBVIOUS
    <3>2. y = Claim(r, o)
      BY <2>3, <3>1
    <3> QED BY <1>7, <1>8, <3>2, ClaimProper
  <2>7. Answer(p, m)
    BY <1>4, <1>9, <2>1, <2>2, <2>3, <2>4
  <2>8. Rank(Over(b), x) = 1 /\ Rank(Over(b), y) = 1
    BY <1>7, <2>5, <2>6
  <2> QED BY <1>1, <1>2, <1>4, <1>5, <1>7, <2>4, <2>5, <2>6, <2>7, <2>8, SaysTwoMove DEF Keeps
<1>10. CASE c.roles[r] # p
  <2>1. PICK x : x = Claim(r, p)
    OBVIOUS
  <2>2. PICK m : m = <<x>>
    OBVIOUS
  <2>3. x \in Proper(p, b) /\ Ranked(x) /\ Rank(Over(b), x) = Bound(b)
    <3>1. PICK o \in {AI, p} : o = p
      OBVIOUS
    <3>2. x = Claim(r, o)
      BY <2>1, <3>1
    <3> QED BY <1>7, <1>8, <3>2, ClaimProper
  <2>4. Answer(p, m)
    BY <1>4, <1>10, <2>1, <2>2
  <2>5. Bound(a) <= Bound(b)
    BY <1>7
  <2> QED BY <1>1, <1>2, <1>4, <1>5, <1>7, <2>2, <2>3, <2>4, <2>5, SaysMove DEF Keeps
<1> QED BY <1>9, <1>10

LEMMA PressOKFits ==
    ASSUME Around, NEW p \in Players, Fitted(p), PressOK(p)
    PROVE  Fitted(p)'
<1>1. PICK a : a = View(p)
  OBVIOUS
<1>2. PICK b : b = View(p)'
  OBVIOUS
<1>3. PICK c : c = client[p]
  OBVIOUS
<1>4. /\ Sits /\ UNCHANGED client /\ c.screen = "setup" /\ SetupState(c) \in PrepareSide .. LoadIsland
      /\ Answer(p, <<Ready(PrepareOK)>>)
  BY <1>3 DEF PressOK, Frame, Sits, Shows
<1>5. Turns(p, a, b) /\ Keeps(p) /\ b.person = a.person /\ b.screen = a.screen
  BY <1>1, <1>2, <1>4, StandTurns
<1>6. /\ Core(a) /\ SameServer(a, b) /\ SamePlace(a, b) /\ b.person \in BOOLEAN
      /\ a.screen = "setup" /\ b.screen = "setup" /\ Shown(a) \in PrepareSide .. LoadIsland
  BY <1>3, <1>4, <1>5 DEF Turns
<1>7. Moved(a, b) /\ ~Owes(b) /\ a.head /\ Bound(a) = 1 /\ Bound(b) = 1 /\ Least(b) <= 1
  BY <1>5, <1>6, SetupMoves
<1>8. PICK n \in Phases : n = PrepareOK
  OBVIOUS
<1>9. PICK x : x = Ready(n)
  OBVIOUS
<1>10. PICK m : m = <<x>>
  OBVIOUS
<1>11. x \in Proper(p, b) /\ Ranked(x) /\ Rank(Over(b), x) = Bound(b)
  BY <1>7, <1>8, <1>9, ReadyProper
<1>12. Answer(p, m) /\ Bound(a) <= Bound(b)
  BY <1>4, <1>7, <1>8, <1>9, <1>10
<1> QED BY <1>1, <1>2, <1>4, <1>5, <1>7, <1>10, <1>11, <1>12, SaysMove DEF Keeps

LEMMA PressLaunchFits ==
    ASSUME Around, NEW p \in Players, Fitted(p), PressLaunch(p)
    PROVE  Fitted(p)'
<1>1. PICK a : a = View(p)
  OBVIOUS
<1>2. PICK b : b = View(p)'
  OBVIOUS
<1>3. Sits /\ Show(p, "launched") /\ client[p].screen = "getready" /\ Answer(p, <<Ready(Play)>>)
  BY DEF PressLaunch, Frame, Sits, Shows
<1>4. Turns(p, a, b) /\ Keeps(p) /\ b.person = a.person /\ b.screen = "launched"
  BY <1>1, <1>2, <1>3, ShowTurns
<1>5. Core(a) /\ SameServer(a, b) /\ SamePlace(a, b) /\ b.person \in BOOLEAN /\ a.screen = "getready"
  BY <1>3, <1>4 DEF Turns
<1>6. Moved(a, b) /\ ~Owes(b) /\ Bound(a) <= 3 /\ Bound(b) = 3 /\ Least(b) <= 3
  BY <1>4, <1>5, LaunchMoves
<1>7. PICK n \in Phases : n = Play
  OBVIOUS
<1>8. PICK x : x = Ready(n)
  OBVIOUS
<1>9. PICK m : m = <<x>>
  OBVIOUS
<1>10. x \in Proper(p, b) /\ Ranked(x) /\ Rank(Over(b), x) = Bound(b)
  BY <1>6, <1>7, <1>8, ReadyProper
<1>11. Answer(p, m) /\ Bound(a) <= Bound(b)
  BY <1>3, <1>6, <1>7, <1>8, <1>9
<1> QED BY <1>1, <1>2, <1>3, <1>4, <1>6, <1>9, <1>10, <1>11, SaysMove DEF Keeps

LEMMA PressContinueFits ==
    ASSUME Around, NEW p \in Players, Fitted(p), PressContinue(p)
    PROVE  Fitted(p)'
<1>1. PICK a : a = View(p)
  OBVIOUS
<1>2. PICK b : b = View(p)'
  OBVIOUS
<1>3. Sits /\ Show(p, "debriefed") /\ client[p].screen = "debriefing" /\ Answer(p, <<Ready(DebriefingOK)>>)
  BY DEF PressContinue, Frame, Sits, Shows
<1>4. Turns(p, a, b) /\ Keeps(p) /\ b.person = a.person /\ b.screen = "debriefed"
  BY <1>1, <1>2, <1>3, ShowTurns
<1>5. Core(a) /\ SameServer(a, b) /\ SamePlace(a, b) /\ b.person \in BOOLEAN /\ a.screen = "debriefing"
  BY <1>3, <1>4 DEF Turns
<1>6. Moved(a, b) /\ (Owes(b) => Owes(a)) /\ Over(b) /\ Bound(a) <= 5 /\ Bound(b) = 5 /\ Least(b) <= 5
  BY <1>4, <1>5, ContinueMoves
<1>7. PICK n \in Phases : n = DebriefingOK
  OBVIOUS
<1>8. PICK x : x = Ready(n)
  OBVIOUS
<1>9. PICK m : m = <<x>>
  OBVIOUS
<1>10. x \in Proper(p, b) /\ Ranked(x) /\ Rank(Over(b), x) = Bound(b)
  BY <1>6, <1>7, <1>8, ReadyProper
<1>11. Answer(p, m) /\ Bound(a) <= Bound(b)
  BY <1>3, <1>6, <1>7, <1>8, <1>9
<1> QED BY <1>1, <1>2, <1>3, <1>4, <1>6, <1>9, <1>10, <1>11, SaysMove DEF Keeps

LEMMA PressAgainFits ==
    ASSUME Around, NEW p \in Players, Fitted(p), PressAgain(p)
    PROVE  Fitted(p)'
<1>1. PICK a : a = View(p)
  OBVIOUS
<1>2. PICK b : b = View(p)'
  OBVIOUS
<1>3. Sits /\ UNCHANGED client /\ client[p].screen = "debriefed" /\ Answer(p, <<Ready(DebriefingOK)>>)
  BY DEF PressAgain, Frame, Sits, Shows
<1>4. Turns(p, a, b) /\ Keeps(p) /\ b.person = a.person /\ b.screen = a.screen
  BY <1>1, <1>2, <1>3, StandTurns
<1>5. /\ Core(a) /\ SameServer(a, b) /\ SamePlace(a, b) /\ b.person \in BOOLEAN /\ a.screen = "debriefed"
      /\ b.screen = "debriefed"
  BY <1>3, <1>4 DEF Turns
<1>6. /\ Moved(a, b) /\ (Owes(b) => Owes(a))
      /\ Bound(a) = IF Over(b) THEN 5 ELSE 0
      /\ Bound(b) = IF Over(b) THEN 5 ELSE 0
      /\ Least(b) <= IF Over(b) THEN 5 ELSE 0
  BY <1>4, <1>5, AgainMoves
<1>7. PICK n \in Phases : n = DebriefingOK
  OBVIOUS
<1>8. PICK x : x = Ready(n)
  OBVIOUS
<1>9. PICK m : m = <<x>>
  OBVIOUS
<1>10. x \in Proper(p, b) /\ Ranked(x) /\ Rank(Over(b), x) = Bound(b)
  <2>1. Least(b) <= Bound(b)
    BY <1>6
  <2> QED BY <1>6, <1>7, <1>8, <2>1, ReadyProper
<1>11. Answer(p, m) /\ Bound(a) <= Bound(b)
  <2>1. Bound(a) \in 0 .. 5 /\ Bound(a) = Bound(b)
    BY <1>6, BoundsTyped
  <2> QED BY <1>3, <1>7, <1>8, <1>9, <2>1
<1> QED BY <1>1, <1>2, <1>3, <1>4, <1>6, <1>9, <1>10, <1>11, SaysMove DEF Keeps

-----------------------------------------------------------------------------
(* Every player, in every step.                                            *)

(* What one player's client does, the others do not notice.                *)
OwnSide(p) == \A o \in Players \ {p} : /\ client'[o] = client[o] /\ files'[o] = files[o]
                                       /\ toClient'[o] = toClient[o] /\ toServer'[o] = toServer[o]

LEMMA ReadsAlone ==
    ASSUME Around, NEW p \in Players, ClientMessage(p)
    PROVE  OwnSide(p)
<1>1. Tabled /\ DOMAIN toServer = Players
  BY Unfolded DEF Around
<1>2. CASE ReceiveState(p)
  BY <1>1, <1>2 DEF ReceiveState, Receives, Tabled, OwnSide
<1>3. CASE ReceiveHeader(p)
  BY <1>1, <1>3 DEF ReceiveHeader, Receives, Answer, Tabled, OwnSide
<1>4. CASE ReceiveRole(p)
  BY <1>1, <1>4 DEF ReceiveRole, Receives, Tabled, OwnSide
<1>5. CASE ReceiveFile(p)
  BY <1>1, <1>5 DEF ReceiveFile, Receives, Answer, Tabled, OwnSide
<1>6. CASE ReceivePlayer(p)
  BY <1>1, <1>6 DEF ReceivePlayer, Receives, Answer, Tabled, OwnSide
<1>7. CASE ReceiveOther(p)
  BY <1>1, <1>7 DEF ReceiveOther, Receives, Tabled, OwnSide
<1> QED BY <1>2, <1>3, <1>4, <1>5, <1>6, <1>7 DEF ClientMessage

LEMMA MovesAlone ==
    ASSUME Around, NEW p \in Players, Displays(p) \/ Presses(p) \/ LeaveMission(p)
    PROVE  OwnSide(p)
<1>1. Tabled /\ DOMAIN toServer = Players
  BY Unfolded DEF Around
<1>2. CASE EnterSetup(p) \/ LeaveDebriefingDisplay(p) \/ LeaveWait(p)
  BY <1>1, <1>2 DEF EnterSetup, LeaveDebriefingDisplay, LeaveWait, Show, Frame, Tabled, OwnSide
<1>3. CASE LeaveSetup(p)
  BY <1>1, <1>3 DEF LeaveSetup, Show, Answer, Frame, Tabled, OwnSide
<1>4. CASE LeaveGetReady(p)
  BY <1>1, <1>4 DEF LeaveGetReady, Show, Answer, Frame, Tabled, OwnSide
<1>5. CASE LeaveMission(p)
  BY <1>1, <1>5 DEF LeaveMission, Answer, Frame, Tabled, OwnSide
<1>6. ASSUME NEW r \in Slots, ClickSlot(p, r)
      PROVE  OwnSide(p)
  BY <1>1, <1>6 DEF ClickSlot, Answer, Frame, Tabled, OwnSide
<1>7. CASE PressOK(p) \/ PressAgain(p)
  BY <1>1, <1>7 DEF PressOK, PressAgain, Answer, Frame, Tabled, OwnSide
<1>8. CASE PressLaunch(p) \/ PressContinue(p)
  BY <1>1, <1>8 DEF PressLaunch, PressContinue, Show, Answer, Frame, Tabled, OwnSide
<1> QED BY <1>2, <1>3, <1>4, <1>5, <1>6, <1>7, <1>8 DEF Displays, Presses

(* The player himself.                                                     *)
LEMMA OwnFits ==
    ASSUME Session, Around, NEW p \in Staying, Fitted(p),
           ClientMessage(p) \/ Displays(p) \/ Presses(p) \/ LeaveMission(p)
    PROVE  Fitted(p)'
<1>1. p \in Players
  BY DEF Staying
<1>2. CASE ClientMessage(p)
  BY <1>2, StateFits, HeaderFits, RoleFits, FileFits, PlayerFits, OtherFits, Zenon DEF ClientMessage
<1>3. CASE Displays(p)
  BY <1>1, <1>3, EnterSetupFits, LeaveSetupFits, LeaveGetReadyFits, LeaveDebriefingDisplayFits, LeaveWaitFits, Zenon
     DEF Displays
<1>4. CASE Presses(p)
  BY <1>1, <1>4, ClickFits, PressOKFits, PressLaunchFits, PressContinueFits, PressAgainFits, Zenon DEF Presses
<1>5. CASE LeaveMission(p)
  BY <1>1, <1>5, LeaveMissionFits
<1> QED BY <1>2, <1>3, <1>4, <1>5

LEMMA ClientsFit ==
    ASSUME Session, PInv, NEW p \in Players,
           ClientMessage(p) \/ Displays(p) \/ Presses(p) \/ LeaveMission(p), NEW o \in Staying'
    PROVE  Fitted(o)'
<1>1. UNCHANGED serverVars /\ UNCHANGED info
  BY PlayersSide
<1>2. o \in Staying
  BY <1>1 DEF Staying
<1>3. Around /\ Fitted(o) /\ o \in Players
  BY <1>2 DEF PInv, Staying
<1>4. CASE o = p
  BY <1>2, <1>3, <1>4, OwnFits
<1>5. CASE o # p
  <2>1. OwnSide(p)
    BY <1>3, ReadsAlone, MovesAlone
  <2>2. /\ client'[o] = client[o] /\ files'[o] = files[o]
        /\ toClient'[o] = toClient[o] /\ toServer'[o] = toServer[o]
    BY <1>3, <1>5, <2>1 DEF OwnSide
  <2>3. UNCHANGED <<state, report, roles>> /\ info'[o] = info[o]
    BY <1>1 DEF serverVars
  <2> QED BY <1>3, <2>2, <2>3, Untouched
<1> QED BY <1>4, <1>5

(* The server's thread goes on: nobody joins the mission but by connecting. *)
LEMMA StayedOn ==
    ASSUME NEW s \in ServerPhases, s # PrepareRole, NEW rs, NEW i \in [Players -> InfoType], NEW q,
           SetGameState(s, rs, i, q), NEW o \in Staying',
           i[o].state # None => info[o].state # None, i[o].jip = info[o].jip
    PROVE  o \in Staying /\ (s = Play /\ Jip => Holds(rs, o))
<1>1. o \in Players /\ info'[o].state # None /\ ~info'[o].jip
  BY DEF Staying
<1>2. i[o].state # None /\ ~i[o].jip /\ (s = Play /\ Jip => Holds(rs, o))
  BY <1>1, PhaseStays
<1> QED BY <1>1, <1>2 DEF Staying

LEMMA ThreadFits ==
    ASSUME Session, PInv, OnReadyBot \/ Simulated, NEW o \in Staying'
    PROVE  Fitted(o)'
<1>1. /\ Around /\ (o \in Staying => Fitted(o)) /\ o \in Players
      /\ info \in [Players -> InfoType] /\ ~restart /\ Jip
  BY Unfolded DEF PInv, Around, Calm, Session, Staying
<1>2. CASE OnReadyBot
  <2>1. PICK i : i = [p \in Players |-> IF p \in Present
                                        THEN [info[p] EXCEPT !.person = PersonOf(roles, info[p], p)]
                                        ELSE info[p]]
    OBVIOUS
  <2>2. \E q : SetGameState(Briefing, roles, i, q)
    BY <1>2, <2>1, Zenon DEF OnReadyBot
  <2>3. \A p \in Players : PersonOf(roles, info[p], p) \in {0} \cup Slots
    BY <1>1, PersonTyped, Unfolded DEF Around
  <2>4. i \in [Players -> InfoType] /\ i[o].state = info[o].state /\ i[o].jip = info[o].jip
    BY <1>1, <2>1, <2>3 DEF InfoType
  <2>5. o \in Staying
    BY <2>2, <2>4, StayedOn
  <2> QED BY <1>1, <1>2, <2>5, BotFits
<1>3. CASE NobodyLeft
  BY <1>1, <1>3, NobodyStays
<1>4. CASE ChooseMission
  <2>1. PICK i : i = [p \in Players |-> [Lobby(info)[p] EXCEPT !.valid = FALSE]]
    OBVIOUS
  <2>2. \E q : SetGameState(PrepareSide, Unassigned, i, q)
    BY <1>4, <2>1, Zenon DEF ChooseMission
  <2>3. /\ i \in [Players -> InfoType] /\ i[o].jip = info[o].jip
        /\ i[o].state # None => info[o].state # None
    <3>1. PICK l : l = Lobby(info)
      OBVIOUS
    <3>2. l \in [Players -> InfoType]
      BY <1>1, <3>1 DEF Lobby, InfoType
    <3>3. l[o].jip = info[o].jip /\ (l[o].state # None => info[o].state # None)
      BY <1>1, <3>1 DEF Lobby
    <3>4. i = [p \in Players |-> [l[p] EXCEPT !.valid = FALSE]]
      BY <2>1, <3>1
    <3>5. i \in [Players -> InfoType]
      BY <3>2, <3>4 DEF InfoType
    <3>6. i[o].jip = l[o].jip /\ i[o].state = l[o].state
      BY <1>1, <3>4, <3>2 DEF InfoType
    <3> QED BY <3>3, <3>5, <3>6
  <2>4. o \in Staying
    BY <2>2, <2>3, StayedOn
  <2> QED BY <1>1, <1>4, <2>4, ChooseFits
<1>5. CASE Launch
  <2>1. info' = Follow(Transfer, roles, info)
    BY <1>5, Zenon DEF Launch
  <2>2. info'[o] \in {info[o], Mirrored(Transfer, info[o], Holds(roles, o))}
    BY <1>1, <2>1 DEF Follow
  <2>3. Mirrored(Transfer, info[o], Holds(roles, o)).jip = info[o].jip
    BY <1>1, MirroredParts
  <2>4. info[o].state = None => info'[o] = info[o]
    BY <1>1, <2>1 DEF Follow, Hearers
  <2>5. o \in Staying
    BY <1>1, <2>2, <2>3, <2>4 DEF Staying
  <2> QED BY <1>1, <1>5, <2>5, LaunchFits
<1>6. CASE TransferDone
  <2>1. SetGameState(LoadIsland, roles, info, toClient)
    BY <1>6, Zenon DEF TransferDone
  <2>2. o \in Staying
    BY <1>1, <2>1, StayedOn
  <2> QED BY <1>1, <1>6, <2>2, TransferFits
<1>7. CASE Load
  <2>1. UNCHANGED info \/ SetGameState(Create, roles, info, toClient)
    BY <1>7, Zenon DEF Load
  <2>2. UNCHANGED info => o \in Staying
    BY DEF Staying
  <2>3. SetGameState(Create, roles, info, toClient) => o \in Staying
    BY <1>1, StayedOn
  <2> QED BY <1>1, <1>7, <2>1, <2>2, <2>3, LoadFits
<1>8. CASE StartPlay
  <2>1. SetGameState(Play, roles, info, toClient)
    BY <1>8, Zenon DEF StartPlay
  <2>2. o \in Staying /\ Holds(roles, o)
    BY <1>1, <2>1, StayedOn
  <2> QED BY <1>1, <1>8, <2>2, StartFits
<1>9. CASE EndPlay
  <2>1. PICK i : i = Destroyed(info)
    OBVIOUS
  <2>2. SetGameState(Debriefing, roles, i, toClient)
    BY <1>9, <2>1, Zenon DEF EndPlay
  <2>3. i \in [Players -> InfoType] /\ i[o].jip = info[o].jip /\ i[o].state = info[o].state
    BY <1>1, <2>1 DEF Destroyed, InfoType
  <2>4. o \in Staying
    BY <2>2, <2>3, StayedOn
  <2> QED BY <1>1, <1>9, <2>4, EndFits
<1>10. CASE LeaveDebriefing
  <2>1. SetGameState(Create, roles, info, toClient)
    BY <1>1, <1>10, Zenon DEF LeaveDebriefing
  <2>2. o \in Staying
    BY <1>1, <2>1, StayedOn
  <2> QED BY <1>1, <1>10, <2>2, CreateFits
<1> QED BY <1>2, <1>3, <1>4, <1>5, <1>6, <1>7, <1>8, <1>9, <1>10 DEF Simulated

(* What a player asks that concerns him alone.                             *)
Alone(p, t) ==
    /\ Heard(p, t) /\ UNCHANGED <<state, report, roles, client, files>>
    /\ UNCHANGED info \/ \E x : x.jip = info[p].jip /\ info' = [info EXCEPT ![p] = x]
    /\ UNCHANGED toClient \/ \E m : toClient' = SendTo(p, m)

LEMMA LoginAlone ==
    ASSUME NEW p \in Players, OnLogin(p)
    PROVE  Alone(p, "login")
<1>1. Heard(p, "login") /\ UNCHANGED <<state, report, roles, client, files>>
  BY DEF OnLogin, serverVars
<1>2. \E m : toClient' = SendTo(p, m)
  BY Zenon DEF OnLogin
<1>3. \E u, v : info' = [info EXCEPT ![p] = Identified(@, u, v)]
  BY Zenon DEF OnLogin
<1>4. PICK u, v : info' = [info EXCEPT ![p] = Identified(@, u, v)]
  BY <1>3
<1>5. PICK x : x = Identified(info[p], u, v)
  OBVIOUS
<1>6. x.jip = info[p].jip
  BY <1>5 DEF Identified
<1>7. info' = [info EXCEPT ![p] = x]
  BY <1>4, <1>5
<1> QED BY <1>1, <1>2, <1>6, <1>7, Zenon DEF Alone

LEMMA AskAlone ==
    ASSUME Around, NEW p \in Players, OnAskMissionFile(p)
    PROVE  Alone(p, "ask")
<1>1. Heard(p, "ask") /\ UNCHANGED <<state, report, roles, client, files, toClient>>
  BY DEF OnAskMissionFile, serverVars
<1>2. info[p] \in InfoType
  BY Unfolded DEF Around
<1>3. PICK x : x = [info[p] EXCEPT !.valid = @ \/ Head(toServer[p]).valid]
  OBVIOUS
<1>4. info' = [info EXCEPT ![p] = x]
  BY <1>3 DEF OnAskMissionFile
<1>5. x.jip = info[p].jip
  BY <1>2, <1>3 DEF InfoType
<1> QED BY <1>1, <1>4, <1>5, Zenon DEF Alone

LEMMA ReadyAlone ==
    ASSUME Around, NEW p \in Players, OnReady(p) \/ OnReadyBriefing(p)
    PROVE  Alone(p, "ready")
<1>1. Heard(p, "ready") /\ UNCHANGED <<state, report, roles, client, files>>
  BY DEF OnReady, OnReadyBriefing, serverVars
<1>2. info[p] \in InfoType
  BY Unfolded DEF Around
<1>3. UNCHANGED toClient \/ \E m : toClient' = SendTo(p, m)
  BY Zenon DEF OnReady, OnReadyBriefing
<1>4. \/ UNCHANGED info
      \/ \E s : info' = [info EXCEPT ![p].state = s]
      \/ \E n, s : info' = [info EXCEPT ![p] = [@ EXCEPT !.person = n, !.state = s]]
  BY Zenon DEF OnReady, OnReadyBriefing
<1>5. ASSUME NEW s, info' = [info EXCEPT ![p].state = s]
      PROVE  \E x : x.jip = info[p].jip /\ info' = [info EXCEPT ![p] = x]
  <2>1. PICK x : x = [info[p] EXCEPT !.state = s]
    OBVIOUS
  <2>2. x.jip = info[p].jip
    BY <1>2, <2>1 DEF InfoType
  <2>3. info' = [info EXCEPT ![p] = x]
    BY <1>5, <2>1
  <2> QED BY <2>2, <2>3, Zenon
<1>6. ASSUME NEW n, NEW s, info' = [info EXCEPT ![p] = [@ EXCEPT !.person = n, !.state = s]]
      PROVE  \E x : x.jip = info[p].jip /\ info' = [info EXCEPT ![p] = x]
  <2>1. PICK x : x = [info[p] EXCEPT !.person = n, !.state = s]
    OBVIOUS
  <2>2. x.jip = info[p].jip
    BY <1>2, <2>1 DEF InfoType
  <2>3. info' = [info EXCEPT ![p] = x]
    BY <1>6, <2>1
  <2> QED BY <2>2, <2>3, Zenon
<1>7. UNCHANGED info \/ \E x : x.jip = info[p].jip /\ info' = [info EXCEPT ![p] = x]
  BY <1>4, <1>5, <1>6, Zenon
<1> QED BY <1>1, <1>3, <1>7, Zenon DEF Alone

(* A request changes neither whether a player is there nor since when.     *)
LEMMA AloneStays ==
    ASSUME Around, NEW p \in Players, NEW t, Alone(p, t), NEW o \in Staying'
    PROVE  o \in Staying
<1>1. info \in [Players -> InfoType] /\ info[p].state # None
  BY Unfolded DEF Around, Alone, Heard, Present
<1>2. o \in Players /\ info'[o].state # None /\ ~info'[o].jip
  BY DEF Staying
<1>3. CASE UNCHANGED info
  BY <1>2, <1>3 DEF Staying
<1>4. ASSUME NEW x, x.jip = info[p].jip, info' = [info EXCEPT ![p] = x]
      PROVE  o \in Staying
  BY <1>1, <1>2, <1>4 DEF Staying
<1> QED BY <1>3, <1>4 DEF Alone

LEMMA AloneOthers ==
    ASSUME Around, NEW p \in Players, NEW t, Alone(p, t), NEW o \in Players, o # p, Fitted(o)
    PROVE  Fitted(o)'
<1>1. Heard(p, t) /\ UNCHANGED <<state, report, roles, client, files>>
  BY Zenon DEF Alone
<1>2. PICK x : UNCHANGED info \/ info' = [info EXCEPT ![p] = x]
  BY DEF Alone
<1>3. PICK m : UNCHANGED toClient \/ toClient' = SendTo(p, m)
  BY DEF Alone
<1> QED BY <1>1, <1>2, <1>3, AloneFits

LEMMA RequestsFit ==
    ASSUME Session, PInv, NEW p \in Players, ServerActs(p), NEW o \in Staying'
    PROVE  Fitted(o)'
<1>1. Around /\ (o \in Staying => Fitted(o)) /\ o \in Players
  BY DEF PInv, Staying
<1>2. ASSUME NEW t, Alone(p, t), o = p => (o \in Staying => Fitted(o)')
      PROVE  Fitted(o)'
  <2>1. o \in Staying
    BY <1>1, <1>2, AloneStays
  <2>2. CASE o = p
    BY <1>2, <2>1, <2>2
  <2>3. CASE o # p
    BY <1>1, <1>2, <2>1, <2>3, AloneOthers
  <2> QED BY <2>2, <2>3
<1>3. CASE OnLogin(p)
  <2>1. o = p => (o \in Staying => Fitted(o)')
    BY <1>1, <1>3, LoginFits
  <2> QED BY <1>2, <1>3, <2>1, LoginAlone
<1>4. CASE OnAskMissionFile(p)
  <2>1. o = p => (o \in Staying => Fitted(o)')
    BY <1>1, <1>4, AskFits
  <2> QED BY <1>1, <1>2, <1>4, <2>1, AskAlone
<1>5. CASE OnReady(p) \/ OnReadyBriefing(p)
  <2>1. o = p => (o \in Staying => Fitted(o)')
    BY <1>1, <1>5, ReadyFits
  <2> QED BY <1>1, <1>2, <1>5, <2>1, ReadyAlone
<1>6. CASE OnClaim(p)
  <2>1. UNCHANGED info \/ \E rs : info' = [info EXCEPT ![p] = CaughtUp(p, rs)]
    BY <1>6, Zenon DEF OnClaim
  <2>2. info \in [Players -> InfoType] /\ info[p].state # None
    BY <1>1, <1>6, Unfolded DEF Around, OnClaim, Heard, Present
  <2>3. \A rs : CaughtUp(p, rs).jip = info[p].jip
    BY <2>2 DEF CaughtUp, InfoType
  <2>4. info'[o].state # None /\ ~info'[o].jip
    BY DEF Staying
  <2>5. o \in Staying
    BY <1>1, <2>1, <2>2, <2>3, <2>4 DEF Staying
  <2>6. CASE o = p
    BY <1>1, <1>6, <2>5, <2>6, OwnClaimFits
  <2>7. CASE o # p
    BY <1>1, <1>6, <2>5, <2>7, OthersClaimFits
  <2> QED BY <2>6, <2>7
<1> QED BY <1>3, <1>4, <1>5, <1>6 DEF ServerActs

LEMMA ArrivalFits ==
    ASSUME Session, PInv, NEW p \in Players, Join(p), NEW o \in Staying'
    PROVE  Fitted(o)'
<1>1. /\ Around /\ (o \in Staying => Fitted(o)) /\ o \in Players /\ info'[o].state # None /\ ~info'[o].jip
      /\ Tabled /\ toServer \in [Players -> Seq(Requests)] /\ info \in [Players -> InfoType]
  BY Unfolded DEF PInv, Staying, Around
<1>2. PICK late : late = (state >= Transfer)
  OBVIOUS
<1>3. PICK x : x = [Absent EXCEPT !.state = Create, !.jip = late]
  OBVIOUS
<1>4. info' = [info EXCEPT ![p] = x]
  BY <1>2, <1>3 DEF Join
<1>5. CASE o = p
  <2>1. x.jip = late
    BY <1>3 DEF Absent
  <2>2. ~(state >= Transfer)
    BY <1>1, <1>2, <1>4, <1>5, <2>1
  <2> QED BY <1>1, <1>5, <2>2, JoinFits
<1>6. CASE o # p
  <2>1. o \in Staying /\ info'[o] = info[o]
    BY <1>1, <1>4, <1>6 DEF Staying
  <2>2. toClient'[o] = toClient[o]
    BY <1>1, <1>6, Zenon DEF Join, Tabled
  <2>3. toServer'[o] = toServer[o] /\ client'[o] = client[o] /\ UNCHANGED <<state, report, roles, files>>
    BY <1>1, <1>6 DEF Join, Tabled, serverVars
  <2> QED BY <1>1, <2>1, <2>2, <2>3, Untouched
<1> QED BY <1>5, <1>6

LEMMA DepartureFits ==
    ASSUME Session, PInv, NEW p \in Players, Leave(p), NEW o \in Staying'
    PROVE  Fitted(o)'
<1>1. /\ Around /\ (o \in Staying => Fitted(o)) /\ o \in Players /\ info'[o].state # None /\ ~info'[o].jip
      /\ info \in [Players -> InfoType]
  BY Unfolded DEF PInv, Staying, Around
<1>2. info' = [info EXCEPT ![p] = Absent]
  BY DEF Leave
<1>3. o # p
  BY <1>1, <1>2 DEF Absent
<1>4. o \in Staying
  BY <1>1, <1>2, <1>3 DEF Staying
<1> QED BY <1>1, <1>3, <1>4, LeaveFits

-----------------------------------------------------------------------------
(* The invariant holds.                                                    *)

LEMMA PlayedKept ==
    ASSUME Session
    PROVE  PInv /\ [Next]_vars => PInv'
<1> SUFFICES ASSUME PInv, [Next]_vars PROVE PInv'
  OBVIOUS
<1>1. Around
  BY DEF PInv
<1>2. CASE Next
  <2>1. Around'
    BY <1>1, <1>2, AroundKept
  <2>2. ASSUME NEW o \in Staying'
        PROVE  Fitted(o)'
    BY <1>1, <1>2, <2>2, StepCases, ThreadFits, ArrivalFits, DepartureFits, RequestsFit, ClientsFit
  <2> QED BY <2>1, <2>2 DEF PInv
<1>3. CASE UNCHANGED vars
  <2>1. UNCHANGED <<state, restart, reassign, named, loadIsland, report, mission, roles, locked, master,
                    info, toClient, toServer, client, files>>
    BY <1>3 DEF vars, serverVars
  <2>2. IInv'
    BY Inductive DEF Around, PInv
  <2>3. Around'
    BY <1>1, <2>1, <2>2 DEF Around, Calm, Tabled, Manned, Asking, Stored, Asks
  <2>4. ASSUME NEW o \in Staying'
        PROVE  Fitted(o)'
    <3>1. o \in Staying
      BY <2>1 DEF Staying
    <3> QED BY <2>1, <3>1, Untouched DEF PInv
  <2> QED BY <2>3, <2>4 DEF PInv
<1> QED BY <1>2, <1>3

LEMMA PlayedFirst == Init => PInv
<1> SUFFICES ASSUME Init PROVE PInv
  OBVIOUS
<1>1. IInv
  BY Initially
<1>2. Calm /\ Tabled
  BY DEF Init, Calm, Tabled
<1>3. Manned
  BY NoneHolds DEF Init, Manned
<1>4. Asking
  BY DEF Init, Asking
<1>5. Stored
  BY DEF Init, Stored
<1>6. Staying = {}
  BY DEF Init, Staying, Absent
<1> QED BY <1>1, <1>2, <1>3, <1>4, <1>5, <1>6 DEF PInv, Around

(* Nothing is under way, and the server takes the player to be playing.    *)
LEMMA QuietPlays ==
    ASSUME Around, NEW p \in Staying, Fitted(p), toClient[p] = <<>>, toServer[p] = <<>>,
           state = Play, info[p].state = Play
    PROVE  client[p].state = Play /\ client[p].person # 0
<1>1. PICK a : a = View(p)
  OBVIOUS
<1>2. /\ a.phase = Play /\ a.info = Play /\ a.state = client[p].state
      /\ a.person = (client[p].person # 0) /\ a.screen = client[p].screen
  BY <1>1, ViewIs
<1>3. PICK t : t = client[p].roles
  OBVIOUS
<1>4. Core(a) /\ Reports(p, a, <<>>) /\ Led(p, a, t, roles, <<>>)
  BY <1>1, <1>3 DEF Fitted, Fits
<1>5. a.state = Play
  <2>1. PICK d : Way(p, Knows(a, t), <<>>, d) /\ Leaves(a, roles, d)
    BY <1>4 DEF Led
  <2>2. Lower(d, Knows(a, t))
    BY <2>1, WayNowhere
  <2>3. d.state = Play
    BY <1>2, <2>1 DEF Leaves
  <2> QED BY <2>2, <2>3 DEF Lower, Knows, Walker
<1>6. ~Owes(a)
  BY <1>4 DEF Reports, Owed
<1>7. a.screen \notin {"debriefing", "debriefed"}
  BY <1>2, <1>6 DEF Owes
<1>8. a.person
  BY <1>2, <1>4, <1>7 DEF Core, OnScreen
<1> QED BY <1>2, <1>5, <1>8

(* What is said of every player that has been there since before the mission, and
   has the island: what his client shows, what is under way to it and what it has
   said agree with the phase of the server, in a session without admins.     *)
THEOREM PlayersFollow ==
    ASSUME Session
    PROVE  Spec => []PInv
<1>1. PInv /\ [Next]_vars => PInv'
  BY PlayedKept
<1> QED BY <1>1, PlayedFirst, PTL DEF Spec

(* Whom the server takes to be playing, of those that have the island, plays, and
   has a unit, once nothing is under way between them: SetGameState, the answers
   of OnGameStateMessage and what DelayedRoleShouldStartMissionCatchUp sends a
   late slot lead his client through transfer, loading and briefing into the
   play.                                                                      *)
THEOREM PlayersPlay ==
    ASSUME Session
    PROVE  Spec => []PlayersMirror
<1>1. PInv => PlayersMirror
  <2> SUFFICES ASSUME PInv, NEW p \in Present \ Worldless, toClient[p] = <<>>, toServer[p] = <<>>,
                      state = Play, info[p].state = Play, ~info[p].jip
               PROVE  client[p].state = Play /\ client[p].person # 0
    BY DEF PlayersMirror
  <2>1. p \in Staying
    BY DEF Staying, Present
  <2> QED BY <2>1, QuietPlays DEF PInv
<1> QED BY <1>1, PlayersFollow, PTL
=============================================================================
