----------------------------- MODULE GameSession -----------------------------
(***************************************************************************)
(* The session of a dedicated server: the phases a mission goes through    *)
(* (lobby, file transfer, loading, briefing, play, debriefing), the slots  *)
(* ("roles") of the players, the players that join in progress, and the    *)
(* displays of the clients that answer for them.  Server and client run in *)
(* processes of their own; every arrow between them is a guaranteed        *)
(* message, delivered in order, and NetServerPlayers and MessageStream say *)
(* when it is.                                                             *)
(*                                                                         *)
(* The server's actions are the handlers of NetworkServer and the cases of *)
(* SimulateDS, a client's are the handlers of NetworkClient and the frames *)
(* of its displays.  The bot client lives in the server's process: what is *)
(* kept of it is its Briefing report, which closes the loading.            *)
(***************************************************************************)
EXTENDS Naturals, Sequences, FiniteSets

CONSTANTS
    Players,        \* the players that may connect (a connection each)
    Slots,          \* the roles of every mission, 1 .. n
    AI,             \* the occupant of a slot no player holds (AI_PLAYER)
    Jip,            \* whether missions have joinInProgress
    Cached,         \* the players that have every mission's file already
    Worldless,      \* the players whose installation has not the missions' island
    Admins,         \* the players that know the password
    Orders,         \* the commands an admin gives: "mission", "restart", "reassign"
    Drags,          \* whether an admin gives slots to other players
    LoadErrors,     \* how loading fails, if it does: "early", "late"
    MaxJoins,       \* bound: connections
    MaxMissions,    \* bound: missions
    MaxClicks,      \* bound: slots clicked and OK buttons pressed
    MaxOrders       \* bound: commands of an admin, and players he moves

ASSUME SlotsAssumption == Slots = 1 .. Cardinality(Slots) /\ Slots # {}
ASSUME PlayersAssumption ==
    AI \notin Players /\ Admins \subseteq Players /\ Cached \subseteq Players /\ Worldless \subseteq Players
ASSUME FlagsAssumption == Jip \in BOOLEAN /\ Drags \in BOOLEAN
ASSUME BoundsAssumption == {MaxJoins, MaxMissions, MaxClicks, MaxOrders} \subseteq Nat

\* The phases that occur, with the numbers of NetworkGameState.
None         == 0
Creating     == 1
Create       == 2
LoggedIn     == 3
PrepareSide  == 6
PrepareRole  == 7
PrepareOK    == 8
Debriefing   == 9
DebriefingOK == 10
Transfer     == 11
LoadIsland   == 12
Briefing     == 13
Play         == 14
Phases == {None, Creating, Create, LoggedIn, PrepareSide, PrepareRole, PrepareOK, Debriefing,
           DebriefingOK, Transfer, LoadIsland, Briefing, Play}

VARIABLES
    state,                     \* of the server (_state)
    restart, reassign, named,  \* _restart, _reassign; the admin has chosen _mission
    loadIsland,                \* SimulateDS still has to load
    report,                    \* the bot's Briefing report is in the local queue
    mission,                   \* the mission in _missionHeader, 0 before the first
    roles, locked,             \* _playerRoles: occupants, and which are roleLocked; before
                               \* the first mission, when there are none, as if for the first
    master,                    \* _gameMaster
    info,                      \* of each player: NetworkPlayerInfo, and his identity
    toClient, toServer,        \* guaranteed messages under way
    client,                    \* of each player: NetworkClient and the display on top
    files,                     \* of each player: the mission files on his disk
    joins, clicks, orders      \* counted against the bounds

serverVars == <<state, restart, reassign, named, loadIsland, report, mission, roles, locked, master>>
counters   == <<joins, clicks, orders>>
vars == <<serverVars, info, toClient, toServer, client, files, counters>>

Absent  == [state |-> None, jip |-> FALSE, valid |-> FALSE, person |-> 0, ident |-> FALSE]
Present == {p \in Players : info[p].state # None}

Holds(rs, p)  == \E r \in DOMAIN rs : rs[r] = p
SlotOf(rs, p) == CHOOSE r \in DOMAIN rs : rs[r] = p /\ \A s \in DOMAIN rs : rs[s] = p => r <= s

-----------------------------------------------------------------------------
(* Messages.                                                               *)

State(s)    == [type |-> "state", to |-> s]
Role(r, p)  == [type |-> "role", slot |-> r, player |-> p]
Header(m, rs) == [type |-> "header", mission |-> m, roles |-> rs]
RolesOnly(rs) == [type |-> "roles", roles |-> rs]
File        == [type |-> "file", mission |-> mission]
World(r)    == [type |-> "world", person |-> r]
TimeElapsed == [type |-> "time"]
Player      == [type |-> "player"]
Identity    == [type |-> "identity"]

Login       == [type |-> "login"]
Ask(valid)  == [type |-> "ask", valid |-> valid]
Ready(s)    == [type |-> "ready", state |-> s]
Claim(r, p) == [type |-> "claim", slot |-> r, player |-> p]
Order(what) == [type |-> "order", what |-> what]

Send(q, to, m) == [p \in Players |-> IF p \in to THEN q[p] \o m ELSE q[p]]
SendTo(p, m)   == Send(toClient, {p}, m)
When(b, m)     == IF b THEN m ELSE <<>>

(* A client that has just connected: nothing known, the lobby's display.   *)
NewClient == [state |-> Creating, srv |-> Creating, head |-> 0, roles |-> <<>>, valid |-> FALSE,
              jip |-> FALSE, ident |-> FALSE, person |-> 0, screen |-> "lobby"]

-----------------------------------------------------------------------------
(* The phase of the server changes.                                        *)

(* Whom SetGameState tells: not those without a slot once the mission is under
   way, and a player that joins in progress only what he is up to.           *)
Hears(s, x, holds) ==
    /\ holds \/ s < Transfer
    /\ x.jip /\ s = Briefing => x.state >= LoadIsland
    /\ x.jip /\ s = Play     => x.state >= Briefing

(* What the server then takes the player's state to be.                    *)
Returned(x) == [state |-> PrepareRole, jip |-> x.jip, valid |-> x.valid /\ x.state # Transfer,
                person |-> x.person, ident |-> x.ident]
Mirrored(s, x, holds) ==
    CASE s = PrepareRole -> IF x.state <= PrepareRole THEN x ELSE Returned(x)
      [] s = Debriefing  -> IF x.state >= s THEN [x EXCEPT !.state = s] ELSE x
      [] s = Transfer    -> IF holds THEN [x EXCEPT !.state = s] ELSE x
      [] s = LoadIsland  -> IF holds /\ x.valid THEN [x EXCEPT !.state = s] ELSE x
      [] s = Briefing    -> IF x.state >= LoadIsland THEN [x EXCEPT !.state = s] ELSE x
      [] s = Play        -> IF x.state = Briefing THEN [x EXCEPT !.state = s] ELSE x
      [] OTHER           -> [x EXCEPT !.state = s]

(* Who has no slot when the mission starts joins in progress from here on. *)
Reclassified(s, rs, i) ==
    [p \in Players |->
        IF /\ s = Play /\ Jip /\ i[p].state # None
           /\ ~i[p].jip /\ ~Holds(rs, p)
        THEN [i[p] EXCEPT !.jip = TRUE, !.state = Create] ELSE i[p]]

Hearers(s, rs, i) == {p \in Players : i[p].state # None /\ Hears(s, i[p], Holds(rs, p))}
Follow(s, rs, i)  == [p \in Players |-> IF p \in Hearers(s, rs, i)
                                        THEN Mirrored(s, i[p], Holds(rs, p)) ELSE i[p]]

(* CancelAllMessages: what the transport has not sent yet is dropped.      *)
Prefixes(m)  == {SubSeq(m, 1, n) : n \in 0 .. Len(m)}
Cancelled(q) == {d \in [Players -> UNION {Prefixes(q[p]) : p \in Players}] :
                    \A p \in Players : d[p] \in Prefixes(q[p])}

(* From the slots rs, the players' states i and the queues q.              *)
SetGameState(s, rs, i, q) ==
    LET j == Reclassified(s, rs, i)
    IN /\ state' = s
       /\ info' = Follow(s, rs, j)
       /\ \E d \in IF s = PrepareRole /\ state > PrepareRole THEN Cancelled(q) ELSE {q} :
            toClient' = Send(d, Hearers(s, rs, j), <<State(s)>>)

Destroyed(i) == [p \in Players |-> [i[p] EXCEPT !.person = 0]]
Unassigned   == [r \in Slots |-> AI]
Lobby(i)     == [p \in Players |-> IF i[p].state = None THEN i[p] ELSE [i[p] EXCEPT !.state = PrepareSide]]

-----------------------------------------------------------------------------
(* Players come and go.                                                    *)

(* What a player is sent when he connects.                                 *)
GreetingUnassigned(late) ==          \* mutant: the slots of the mission's file
    <<State(Create), Player>>
    \o When(late, <<Header(mission, Unassigned), State(PrepareRole)>>)
Greeting(late) ==
    <<State(Create), Player>>
    \o When(late, <<Header(mission, roles), State(PrepareRole)>>)

(* OnCreatePlayer.  Late joiners are turned away unless the mission takes them. *)
Join(p) ==
    /\ joins < MaxJoins /\ p \notin Present
    /\ state >= Transfer => Jip
    /\ LET late == state >= Transfer
       IN /\ info' = [info EXCEPT ![p] = [Absent EXCEPT !.state = Create, !.jip = late]]
          /\ toClient' = [toClient EXCEPT ![p] = Greeting(late)]
    /\ toServer' = [toServer EXCEPT ![p] = <<>>]
    /\ client' = [client EXCEPT ![p] = NewClient]
    /\ joins' = joins + 1
    /\ UNCHANGED <<serverVars, files, clicks, orders>>

(* OnPlayerDestroy, however the player went.                               *)
Leave(p) ==
    /\ p \in Present
    /\ info' = [info EXCEPT ![p] = Absent]
    /\ toServer' = [toServer EXCEPT ![p] = <<>>]
    /\ client' = [client EXCEPT ![p] = NewClient]
    /\ master' = IF master = p THEN AI ELSE master
    /\ LET others == Present \ {p}
           quiet  == [toClient EXCEPT ![p] = <<>>]
       IN IF Holds(roles, p)
          THEN LET r == SlotOf(roles, p)
               IN /\ roles' = [roles EXCEPT ![r] = AI]
                  /\ locked' = locked \ {r}
                  /\ toClient' = Send(quiet, others, <<Role(r, AI)>>)
          ELSE toClient' = quiet /\ UNCHANGED <<roles, locked>>
    /\ UNCHANGED <<state, restart, reassign, named, loadIsland, report, mission, files, counters>>

-----------------------------------------------------------------------------
(* The server handles a message.  In a frame it takes what the bot has sent
   first (ReceiveLocalMessages), then what the players have.                 *)
Heard(p, type) ==
    /\ toServer[p] # <<>> /\ Head(toServer[p]).type = type
    /\ ~report /\ p \in Present
    /\ toServer' = [toServer EXCEPT ![p] = Tail(@)]

(* NMTLogin and CreateIdentity.                                            *)
Identified(x, playing, lobby) ==
    [state |-> IF playing THEN PrepareRole ELSE IF lobby THEN PrepareSide ELSE LoggedIn,
     jip |-> x.jip, valid |-> x.valid /\ ~playing /\ ~lobby, person |-> x.person, ident |-> TRUE]

OnLogin(p) ==
    /\ Heard(p, "login")
    /\ LET playing == info[p].jip /\ state >= Play
           lobby   == ~playing /\ state >= PrepareSide
       IN /\ info' = [info EXCEPT ![p] = Identified(@, playing, lobby)]
          /\ toClient' = SendTo(p, <<Identity>>
                \o When(lobby, <<Header(mission, roles)>>)
                \o <<State(IF state > PrepareRole THEN PrepareRole ELSE state)>>
                \o When(~playing /\ state = Play, <<TimeElapsed>>))
    /\ UNCHANGED <<serverVars, client, files, counters>>

(* NMTAskMissionFile.                                                      *)
OnAskMissionFile(p) ==
    /\ Heard(p, "ask")
    /\ info' = [info EXCEPT ![p].valid = @ \/ Head(toServer[p]).valid]
    /\ UNCHANGED <<serverVars, toClient, client, files, counters>>

(* OnGameStateMessage, every state but Briefing.                           *)
Stale(s, x) == state \in Transfer .. Briefing /\ x.state >= Transfer /\ s <= PrepareOK

OnReady(p) ==
    /\ Heard(p, "ready") /\ Head(toServer[p]).state # Briefing
    /\ LET s == Head(toServer[p]).state
           x == info[p]
       IN /\ info' = IF Stale(s, x) THEN info ELSE [info EXCEPT ![p].state = s]
          /\ toClient' = SendTo(p,
                When(s = Play /\ x.state = Briefing /\ state >= Play, <<State(Play)>>)
                \o When(~Stale(s, x) /\ s = PrepareOK /\ x.jip /\ state >= Briefing,
                        <<State(Transfer)>> \o When(~x.valid, <<File>>)
                        \o <<State(LoadIsland), State(Briefing)>>))
    /\ UNCHANGED <<serverVars, client, files, counters>>

(* The person a player is to have: the unit of his slot, unless he has one. *)
PersonOf(rs, x, p) == IF x.person = 0 /\ Holds(rs, p) THEN SlotOf(rs, p) ELSE x.person

(* OnGameStateMessage, Briefing: the world goes to a player that joins in
   progress, and with it, once the mission is played, the play itself.       *)
OnReadyBriefing(p) ==
    /\ Heard(p, "ready") /\ Head(toServer[p]).state = Briefing
    /\ LET joins1 == info[p].jip /\ state >= Briefing
           person == PersonOf(roles, info[p], p)
       IN IF joins1
          THEN /\ info' = [info EXCEPT ![p] = [@ EXCEPT !.person = person,
                                                 !.state = IF state >= Play THEN Play ELSE Briefing]]
               /\ toClient' = SendTo(p, <<World(person)>>
                                        \o When(state >= Play, <<TimeElapsed, State(Play)>>))
          ELSE /\ info' = [info EXCEPT ![p].state = Briefing]
               /\ UNCHANGED toClient
    /\ UNCHANGED <<serverVars, client, files, counters>>

(* The bot's own Briefing report: CreateAllObjects has sent the world.     *)
OnReadyBot ==
    /\ report /\ report' = FALSE
    /\ LET i == [p \in Players |-> IF p \in Present
                                   THEN [info[p] EXCEPT !.person = PersonOf(roles, info[p], p)]
                                   ELSE info[p]]
       IN SetGameState(Briefing, roles, i,
            [p \in Players |-> toClient[p] \o When(i[p].person # 0, <<World(i[p].person)>>)])
    /\ UNCHANGED <<restart, reassign, named, loadIsland, mission, roles, locked, master,
                   toServer, client, files, counters>>

(* OnMessagePlayerRole: the slot r for player w, asked for by p.           *)
Open(x) == \/ state = PrepareSide
           \/ x.jip /\ state >= Briefing
           \/ ~x.jip /\ state \in Transfer .. Briefing /\ x.state < Play

RoleSwapAllowed(now, w, p) ==
    \/ now = AI /\ w = p
    \/ now = p /\ w \in {AI, p}

(* The slots w gives up for r (the mutant: none).                          *)
GivenUpNothing(r, w) == {}
GivenUp(r, w) == IF w # AI /\ Holds(roles, w) THEN {SlotOf(roles, w)} \ {r} ELSE {}

GrantedFrom(p, r, w) ==       \* mutant: whether he may leave his old slot is not asked
    p = master \/ (r \notin locked /\ RoleSwapAllowed(roles[r], w, p))

Granted(p, r, w) ==
    \/ p = master
    \/ /\ r \notin locked
       /\ w # AI /\ Holds(roles, w) => SlotOf(roles, w) \notin locked
       /\ RoleSwapAllowed(roles[r], w, p)

MissesMissionBefore(p, rs) ==        \* mutant: the world is not thought of
    /\ state \in {Transfer, LoadIsland} /\ ~info[p].jip
    /\ info[p].state < Briefing /\ Holds(rs, p)

(* DelayedRoleShouldStartMissionCatchUp: the slot came late, and the player is
   sent all he missed.                                                       *)
MissesMission(p, rs) ==
    /\ state \in Transfer .. Briefing /\ ~info[p].jip
    /\ info[p].state < Briefing /\ Holds(rs, p)

Largest(m, n) == IF m > n THEN m ELSE n

CaughtUp(p, rs) ==
    [info[p] EXCEPT
        !.state  = IF state >= LoadIsland THEN state ELSE Largest(@, Transfer),
        !.person = IF state = Briefing THEN PersonOf(rs, info[p], p) ELSE @]

MissedWorldless(p, rs) ==            \* mutant: the player is not given his unit
    When(info[p].state < Transfer, <<State(Transfer)>>)
    \o When(~info[p].valid, <<File>>)
    \o When(state >= LoadIsland, <<State(LoadIsland)>>)
    \o When(state = Briefing, <<State(Briefing)>>)

Missed(p, rs) ==
    When(info[p].state < Transfer, <<State(Transfer)>>)
    \o When(~info[p].valid, <<File>>)
    \o When(state >= LoadIsland, <<State(LoadIsland)>>)
    \o When(state = Briefing, <<World(PersonOf(rs, info[p], p)), State(Briefing)>>)

OnClaim(p) ==
    /\ Heard(p, "claim")
    /\ LET r  == Head(toServer[p]).slot
           w  == Head(toServer[p]).player
           given == GivenUp(r, w)
           rs == [s \in Slots |-> IF s = r THEN w ELSE IF s \in given THEN AI ELSE roles[s]]
           q  == Send(toClient, Present,
                      <<Role(r, w)>> \o When(given # {}, <<Role(SlotOf(roles, w), AI)>>))
       IN IF Open(info[p]) /\ Granted(p, r, w)
          THEN /\ roles' = rs
               /\ locked' = (locked \ (given \cup {r}))
                              \cup (IF p = master /\ w \notin {AI, p} THEN {r} ELSE {})
               /\ IF MissesMission(p, rs)
                  THEN /\ info' = [info EXCEPT ![p] = CaughtUp(p, rs)]
                       /\ toClient' = Send(q, {p}, Missed(p, rs))
                  ELSE toClient' = q /\ UNCHANGED info
          ELSE UNCHANGED <<roles, locked, info, toClient>>
    /\ UNCHANGED <<state, restart, reassign, named, loadIsland, report, mission, master,
                   client, files, counters>>

(* OnNetworkCommand.  Outside play a command ends what is going on at once;
   during play it is remembered for SimulateDS.                              *)
BackToLobby(q) ==
    /\ roles' = Unassigned /\ locked' = {}
    /\ SetGameState(PrepareSide, Unassigned, Lobby(Destroyed(info)),
                    Send(q, Present, <<RolesOnly(Unassigned)>>))
    /\ restart' = FALSE /\ reassign' = FALSE

OnOrder(p) ==
    /\ Heard(p, "order")
    /\ LET what == Head(toServer[p]).what
       IN CASE what = "login" ->
                 /\ master' = IF info[p].ident /\ master = AI THEN p ELSE master
                 /\ UNCHANGED <<state, restart, reassign, named, roles, locked, info, toClient>>
            [] p = master /\ what = "mission" ->
                 /\ named' = TRUE /\ restart' = TRUE
                 /\ IF state = Play THEN UNCHANGED <<state, info, toClient>>
                    ELSE SetGameState(Create, roles, Destroyed(info), toClient)
                 /\ UNCHANGED <<reassign, roles, locked, master>>
            [] p = master /\ what = "restart" ->
                 /\ restart' = (restart \/ state = Play)
                 /\ UNCHANGED <<state, reassign, named, roles, locked, master, info, toClient>>
            [] p = master /\ what = "reassign" ->
                 /\ IF state = Play
                    THEN /\ restart' = TRUE /\ reassign' = TRUE
                         /\ UNCHANGED <<state, roles, locked, info, toClient>>
                    ELSE BackToLobby(toClient)
                 /\ UNCHANGED <<named, master>>
            [] OTHER -> UNCHANGED <<state, restart, reassign, named, roles, locked, master, info, toClient>>
    /\ UNCHANGED <<loadIsland, report, mission, client, files, counters>>

-----------------------------------------------------------------------------
(* SimulateDS, case by case.  It comes after the messages of the frame.    *)

NobodyLeftNone ==                    \* mutant: as when the server is done
    /\ ~report /\ Present = {}
    /\ state # Create \/ named \/ restart \/ reassign
    /\ state' = None
    /\ named' = FALSE /\ restart' = FALSE /\ reassign' = FALSE
    /\ UNCHANGED <<loadIsland, report, mission, roles, locked, master, info, toClient,
                   toServer, client, files, counters>>

NobodyLeft ==
    /\ ~report /\ Present = {}
    /\ state # Create \/ named \/ restart \/ reassign
    /\ state' = Create
    /\ named' = FALSE /\ restart' = FALSE /\ reassign' = FALSE
    /\ UNCHANGED <<loadIsland, report, mission, roles, locked, master, info, toClient,
                   toServer, client, files, counters>>

(* Create: the mission the admin has named, or the next of the rotation, is
   read, and everybody is sent what it is (InitMission).  One of the rotation
   that cannot be read is left for the next, in the next frame.              *)
ChooseMission ==
    /\ state = Create /\ ~report /\ Present # {}
    /\ mission < MaxMissions
    /\ mission' = mission + 1
    /\ roles' = Unassigned /\ locked' = {}
    /\ named' = FALSE
    /\ restart' = (restart /\ ~named) /\ reassign' = (reassign /\ ~named)
    /\ SetGameState(PrepareSide, Unassigned,
            [p \in Players |-> [Lobby(info)[p] EXCEPT !.valid = FALSE]],
            Send(toClient, Present, <<Header(mission', Unassigned)>>))
    /\ UNCHANGED <<loadIsland, report, master, toServer, client, files, counters>>

(* The mission the admin has named is not found, or cannot be read: his command
   is forgotten with it.                                                     *)
MissNamed ==
    /\ state = Create /\ ~report /\ Present # {} /\ named
    /\ named' = FALSE /\ restart' = FALSE /\ reassign' = FALSE
    /\ UNCHANGED <<state, loadIsland, report, mission, roles, locked, master, info, toClient,
                   toServer, client, files, counters>>

(* PrepareSide, PrepareRole: the admin is ready, or without one all are, or as
   many as there are slots.  SendMissionFile follows the change of phase.    *)
EverybodyReady ==
    LET total == {p \in Present : info[p].ident}
        ready == {p \in total : info[p].state >= PrepareOK}
    IN IF master # AI THEN info[master].state >= PrepareOK
       ELSE ready # {} /\ \/ ready = total
                          \/ mission = 0 \/ Cardinality(ready) >= Cardinality(Slots)

Launch ==
    /\ state \in {PrepareSide, PrepareRole} /\ ~report /\ Present # {}
    /\ restart \/ EverybodyReady
    /\ restart' = FALSE
    /\ state' = Transfer
    /\ info' = Follow(Transfer, roles, info)
    /\ toClient' = Send(Send(toClient, Hearers(Transfer, roles, info), <<State(Transfer)>>),
                        {p \in Players : info'[p].state >= Transfer /\ ~info'[p].valid}, <<File>>)
    /\ UNCHANGED <<reassign, named, loadIsland, report, mission, roles, locked, master,
                   toServer, client, files, counters>>

(* Transfer: until AreTrackedNetworkMissionFilesValid.                     *)
FilesValid == \A p \in Present : Holds(roles, p) /\ info[p].state >= Transfer => info[p].valid

TransferDone ==
    /\ state = Transfer /\ ~report /\ Present # {} /\ FilesValid
    /\ loadIsland' = TRUE
    /\ SetGameState(LoadIsland, roles, info, toClient)
    /\ UNCHANGED <<restart, reassign, named, report, mission, roles, locked, master,
                   toServer, client, files, counters>>

(* LoadIsland: the world is read, unless that fails before or after the objects
   are created; from then on the bot's report is under way.  (That the bot's own
   client is in this phase too, which the code asks, is a matter of the frame: what
   SetGameState tells it stays in the process.)                              *)
Load ==
    /\ state = LoadIsland /\ ~report /\ Present # {} /\ loadIsland
    /\ loadIsland' = FALSE
    /\ \E outcome \in {"read"} \cup LoadErrors :
         /\ report' = (outcome # "early")
         /\ IF outcome = "read" THEN UNCHANGED <<state, info, toClient>>
            ELSE SetGameState(Create, roles, info, toClient)
    /\ UNCHANGED <<restart, reassign, named, mission, roles, locked, master,
                   toServer, client, files, counters>>

(* Briefing: until everybody with a slot plays.                            *)
StartPlay ==
    /\ state = Briefing /\ ~report /\ Present # {}
    /\ \A r \in Slots : roles[r] # AI => info[roles[r]].state = Play
    /\ SetGameState(Play, roles, info, toClient)
    /\ UNCHANGED <<restart, reassign, named, loadIsland, report, mission, roles, locked, master,
                   toServer, client, files, counters>>

(* Play: until a restart, the end of the mission (which may come at any time),
   or nobody with a slot plays any more.                                     *)
NobodyPlays == \A r \in Slots : roles[r] # AI => info[roles[r]].state # Play

EndPlay ==
    /\ state = Play /\ ~report /\ Present # {}
    /\ SetGameState(Debriefing, roles, Destroyed(info), toClient)
    /\ UNCHANGED <<restart, reassign, named, loadIsland, report, mission, roles, locked, master,
                   toServer, client, files, counters>>

(* Debriefing: until the admin, or everybody with a slot, has gone on.     *)
WentOn(s) == s # Debriefing /\ s <= DebriefingOK
Debriefed == IF master # AI THEN WentOn(info[master].state)
             ELSE \A r \in Slots : roles[r] # AI => WentOn(info[roles[r]].state)

LeaveDebriefing ==
    /\ state = Debriefing /\ ~report /\ Present # {} /\ Debriefed
    /\ IF restart /\ reassign THEN BackToLobby(toClient) /\ UNCHANGED loadIsland
       ELSE /\ IF restart /\ ~named
               THEN SetGameState(PrepareRole, roles, info, toClient) /\ loadIsland' = TRUE
               ELSE SetGameState(Create, roles, info, toClient) /\ UNCHANGED loadIsland
            /\ UNCHANGED <<restart, reassign, roles, locked>>
    /\ UNCHANGED <<named, report, mission, master, toServer, client, files, counters>>

-----------------------------------------------------------------------------
(* The client handles a message.                                           *)

Mine(c, p) == Holds(c.roles, p)

Receives(p, type) ==
    /\ toClient[p] # <<>> /\ Head(toClient[p]).type = type
    /\ toClient' = [toClient EXCEPT ![p] = Tail(@)]

Answer(p, m) == toServer' = [toServer EXCEPT ![p] = @ \o m]

(* PrepareGame: the island is switched, and with it goes who the player was.  It
   fails without a slot, and where the island's world file is missing.       *)
Prepares(c, p) == Mine(c, p) /\ p \notin Worldless
Prepared(c) == [c EXCEPT !.state = LoadIsland, !.person = 0]

(* NMTGameState: what a client that joins in progress takes for a leftover. *)
Leftover(c, s) == Jip /\ c.head # 0 /\ c.state \in Transfer .. Briefing /\ s <= DebriefingOK

Followed(c, s, p) ==
    CASE s \in {PrepareRole, PrepareOK} -> c
      [] s = Debriefing -> IF c.state >= Debriefing THEN [c EXCEPT !.state = s] ELSE c
      [] s = Transfer   -> IF c.state < LoadIsland /\ Mine(c, p) THEN [c EXCEPT !.state = s] ELSE c
      [] s = LoadIsland ->
            IF ~Mine(c, p) THEN c
            ELSE IF c.state >= LoadIsland THEN [c EXCEPT !.state = s]
            ELSE IF c.valid /\ Prepares(c, p) THEN Prepared(c)
            ELSE [c EXCEPT !.state = Largest(@, PrepareSide)]
      [] s = Briefing   -> IF c.state >= LoadIsland THEN [c EXCEPT !.state = s] ELSE c
      [] s = Play       -> IF \/ c.state = Briefing
                              \/ c.jip /\ Jip /\ c.state >= LoadIsland
                           THEN [c EXCEPT !.state = s] ELSE c
      [] OTHER          -> [c EXCEPT !.state = s]

ReceiveState(p) ==
    /\ Receives(p, "state")
    /\ LET s == Head(toClient[p]).to
           c == client[p]
       IN client' = IF Leftover(c, s) THEN client
                    ELSE [client EXCEPT ![p] = Followed([c EXCEPT !.srv = s], s, p)]
    /\ UNCHANGED <<serverVars, info, toServer, files, counters>>

(* NMTMissionHeader, with the roles that follow it: the server is told whether
   the file is needed.                                                       *)
ReceiveHeader(p) ==
    /\ Receives(p, "header")
    /\ LET m     == Head(toClient[p])
           valid == m.mission \in files[p]
       IN /\ client' = [client EXCEPT ![p] = [@ EXCEPT !.head = m.mission, !.roles = m.roles,
                                                       !.valid = valid]]
          /\ Answer(p, <<Ask(valid)>>)
    /\ UNCHANGED <<serverVars, info, files, counters>>

(* NMTPlayerRole, one or all.                                              *)
ReceiveRole(p) ==
    /\ \/ /\ Receives(p, "role")
          /\ LET m == Head(toClient[p])
             IN client' = [client EXCEPT ![p].roles =
                    [r \in DOMAIN @ \cup {m.slot} |-> IF r = m.slot THEN m.player ELSE @[r]]]
       \/ /\ Receives(p, "roles")
          /\ client' = [client EXCEPT ![p].roles = Head(toClient[p]).roles]
    /\ UNCHANGED <<serverVars, info, toServer, files, counters>>

(* NMTTransferMissionFile, its last segment.                               *)
ReceiveFile(p) ==
    /\ Receives(p, "file")
    /\ files' = [files EXCEPT ![p] = @ \cup {client[p].head}]
    /\ LET c      == [client[p] EXCEPT !.valid = TRUE]
           starts == c.state = Transfer /\ Prepares(c, p)
           brief  == starts /\ c.jip /\ Jip
       IN /\ client' = [client EXCEPT ![p] =
                IF brief THEN [Prepared(c) EXCEPT !.state = Briefing]
                ELSE IF starts THEN Prepared(c) ELSE c]
          /\ Answer(p, <<Ask(TRUE)>> \o When(brief, <<Ready(Briefing)>>))
    /\ UNCHANGED <<serverVars, info, counters>>

(* NMTPlayer, the player's own identity, the world with NMTSelectPlayer, and
   NCMTMissionTimeElapsed.  Of the world nothing is taken before the island is
   there, and so no unit is found that could be the player's.                *)
ReceivePlayer(p) ==
    /\ Receives(p, "player")
    /\ Answer(p, <<Login>>)
    /\ UNCHANGED <<serverVars, info, client, files, counters>>

ReceiveOther(p) ==
    /\ \/ Receives(p, "identity") /\ client' = [client EXCEPT ![p].ident = TRUE]
       \/ Receives(p, "time")     /\ client' = [client EXCEPT ![p].jip = TRUE]
       \/ /\ Receives(p, "world")
          /\ client' = [client EXCEPT ![p].person =
                IF Head(toClient[p]).person = 0 \/ client[p].state < LoadIsland THEN @
                ELSE Head(toClient[p]).person]
    /\ UNCHANGED <<serverVars, info, toServer, files, counters>>

-----------------------------------------------------------------------------
(* A frame of the display on top of a client, and what its player does there. *)

Shows(p, screen) == client[p].screen = screen /\ p \in Present
Show(p, screen) == client' = [client EXCEPT ![p].screen = screen]
Frame == UNCHANGED <<serverVars, info, toClient, files, joins, orders>>

(* DisplayClient: into the lobby of the mission.                           *)
EnterSetup(p) ==
    /\ Shows(p, "lobby")
    /\ client[p].srv >= PrepareSide
    /\ Show(p, "setup")
    /\ Frame /\ UNCHANGED <<toServer, clicks>>

(* DisplayMultiplayerSetup goes by ResolveMultiplayerSetupDisplayState.     *)
SetupState(c) ==
    IF \/ c.state = Transfer /\ c.srv \in Transfer .. LoadIsland
       \/ c.srv < Briefing /\ c.state >= Briefing
    THEN c.state ELSE c.srv

LeaveSetup(p) ==
    /\ Shows(p, "setup")
    /\ LET c == client[p]
           s == SetupState(c)
       IN \/ s < PrepareSide /\ Show(p, "lobby") /\ UNCHANGED toServer
          \/ /\ s = Briefing /\ Mine(c, p)
             /\ Show(p, "getready") /\ Answer(p, <<Ready(Briefing)>>)
          \/ /\ s = Play \/ (s = Briefing /\ ~Mine(c, p))
             /\ Show(p, IF c.state >= Play /\ Mine(c, p) THEN "mission" ELSE "wait")
             /\ UNCHANGED toServer
    /\ Frame /\ UNCHANGED clicks

(* OnLBSelChanged: a slot is clicked.                                      *)
ClickSlot(p, r) ==
    /\ Shows(p, "setup") /\ clicks < MaxClicks
    /\ SetupState(client[p]) \in PrepareSide .. LoadIsland
    /\ client[p].ident /\ r \in DOMAIN client[p].roles
    /\ Answer(p, IF client[p].roles[r] = p THEN <<Ready(PrepareSide), Claim(r, AI)>>
                                           ELSE <<Claim(r, p)>>)
    /\ clicks' = clicks + 1
    /\ Frame /\ UNCHANGED client

(* The OK button.                                                          *)
PressOK(p) ==
    /\ Shows(p, "setup") /\ clicks < MaxClicks
    /\ SetupState(client[p]) \in PrepareSide .. LoadIsland
    /\ Answer(p, <<Ready(PrepareOK)>>)
    /\ clicks' = clicks + 1
    /\ Frame /\ UNCHANGED client

(* DisplayClientGetReady: Launch, once; then play, or back when the server is. *)
ReadyState(c) == IF c.srv < Briefing /\ c.state >= Briefing THEN c.state ELSE c.srv

PressLaunch(p) ==
    /\ Shows(p, "getready")
    /\ Show(p, "launched") /\ Answer(p, <<Ready(Play)>>)
    /\ Frame /\ UNCHANGED clicks

LeaveGetReady(p) ==
    /\ Shows(p, "getready") \/ Shows(p, "launched")
    /\ LET s == ReadyState(client[p])
       IN \/ s = Play /\ Show(p, "mission") /\ Answer(p, <<Ready(Play)>>)
          \/ /\ s <= Debriefing \/ s = Transfer
             /\ client' = [client EXCEPT ![p] = [@ EXCEPT !.screen = "wait", !.person = 0]]
             /\ UNCHANGED toServer
    /\ Frame /\ UNCHANGED clicks

(* DisplayMission: left when the server is, when the mission ends on this side,
   or when the player leaves it.                                             *)
LeaveMission(p) ==
    /\ Shows(p, "mission")
    /\ client' = [client EXCEPT ![p] = [@ EXCEPT !.screen = "debriefing", !.person = 0]]
    /\ Answer(p, <<Ready(Debriefing)>>)
    /\ Frame /\ UNCHANGED clicks

(* DisplayClientDebriefing: the player is through with it, and the session
   goes on.                                                                  *)
PressContinue(p) ==
    /\ Shows(p, "debriefing")
    /\ Show(p, "debriefed") /\ Answer(p, <<Ready(DebriefingOK)>>)
    /\ Frame /\ UNCHANGED clicks

(* The button stays, and may be pressed again: the only way on for a player whose
   answer came before the server's own Debriefing, which undid it.           *)
PressAgain(p) ==
    /\ Shows(p, "debriefed") /\ clicks < MaxClicks
    /\ Answer(p, <<Ready(DebriefingOK)>>)
    /\ clicks' = clicks + 1
    /\ Frame /\ UNCHANGED client

LeaveDebriefingDisplay(p) ==
    /\ Shows(p, "debriefing") \/ Shows(p, "debriefed")
    /\ client[p].state \in None .. PrepareOK \cup Transfer .. Briefing
    /\ Show(p, "setup")
    /\ Frame /\ UNCHANGED <<toServer, clicks>>

(* DisplayClientWait.                                                      *)
LeaveWait(p) ==
    /\ Shows(p, "wait")
    /\ LET s == client[p].srv
       IN s <= PrepareSide \/ (s \in {PrepareRole, PrepareOK} /\ Mine(client[p], p))
    /\ Show(p, "setup")
    /\ Frame /\ UNCHANGED <<toServer, clicks>>

(* OnDrag: an admin gives a slot to a player he sees in the list.          *)
DragPlayer(p, r, w) ==
    /\ Shows(p, "setup") /\ Drags /\ orders < MaxOrders
    /\ SetupState(client[p]) \in PrepareSide .. LoadIsland
    /\ master = p /\ r \in DOMAIN client[p].roles /\ info[w].ident
    /\ Answer(p, <<Claim(r, w)>>)
    /\ orders' = orders + 1
    /\ UNCHANGED <<serverVars, info, toClient, client, files, joins, clicks>>

(* What an admin types.                                                    *)
GiveOrder(p, what) ==
    /\ orders < MaxOrders /\ p \in Admins \cap Present /\ client[p].ident
    /\ IF what = "login" THEN master # p ELSE master = p
    /\ orders' = orders + 1
    /\ Answer(p, <<Order(what)>>)
    /\ UNCHANGED <<serverVars, info, toClient, client, files, joins, clicks>>
-----------------------------------------------------------------------------

Init ==
    /\ state = Create /\ restart = FALSE /\ reassign = FALSE /\ named = FALSE
    /\ loadIsland = FALSE /\ report = FALSE /\ mission = 0
    /\ roles = Unassigned /\ locked = {} /\ master = AI
    /\ info = [p \in Players |-> Absent]
    /\ toClient = [p \in Players |-> <<>>] /\ toServer = [p \in Players |-> <<>>]
    /\ client = [p \in Players |-> NewClient]
    /\ files = [p \in Players |-> IF p \in Cached THEN 1 .. MaxMissions ELSE {}]
    /\ joins = 0 /\ clicks = 0 /\ orders = 0

ServerMessage(p) ==
    OnLogin(p) \/ OnAskMissionFile(p) \/ OnReady(p) \/ OnReadyBriefing(p) \/ OnClaim(p) \/ OnOrder(p)
SimulateDS ==
    \/ NobodyLeft \/ ChooseMission \/ MissNamed \/ Launch \/ TransferDone \/ Load
    \/ StartPlay \/ EndPlay \/ LeaveDebriefing
ClientMessage(p) ==
    \/ ReceiveState(p) \/ ReceiveHeader(p) \/ ReceiveRole(p) \/ ReceiveFile(p)
    \/ ReceivePlayer(p) \/ ReceiveOther(p)
Displays(p) ==
    \/ EnterSetup(p) \/ LeaveSetup(p) \/ LeaveGetReady(p)
    \/ LeaveDebriefingDisplay(p) \/ LeaveWait(p)
Buttons(p) ==
    \/ \E r \in Slots : ClickSlot(p, r) \/ \E w \in Players : DragPlayer(p, r, w)
    \/ PressOK(p) \/ PressLaunch(p) \/ PressContinue(p) \/ PressAgain(p)

Next ==
    \/ OnReadyBot \/ SimulateDS
    \/ \E p \in Players : \/ Join(p) \/ Leave(p) \/ ServerMessage(p) \/ ClientMessage(p)
                          \/ Displays(p) \/ Buttons(p) \/ LeaveMission(p)
                          \/ \E what \in Orders \cup {"login"} : GiveOrder(p, what)

Spec == Init /\ [][Next]_vars

(* The server's thread goes through SimulateDS every frame and takes what the
   players have sent; a client's thread takes its messages and runs the display
   on top; a player presses Launch and Continue in the end.  A mission goes on
   as long as it likes while somebody plays it.                              *)
ServerFrame ==
    \/ OnReadyBot \/ NobodyLeft \/ ChooseMission \/ MissNamed \/ Launch \/ TransferDone \/ Load
    \/ StartPlay \/ (EndPlay /\ (restart \/ NobodyPlays)) \/ LeaveDebriefing

Fairness ==
    /\ WF_vars(ServerFrame)
    /\ \A p \in Players :
         /\ WF_vars(ServerMessage(p)) /\ WF_vars(ClientMessage(p))
         /\ WF_vars(Displays(p) \/ PressLaunch(p) \/ PressContinue(p))

FairSpec == Spec /\ Fairness
-----------------------------------------------------------------------------
(* The variables keep to their types; the server is in no other phases.    *)
TypeOK ==
    /\ state \in {Create, PrepareSide, PrepareRole, Debriefing, Transfer, LoadIsland, Briefing, Play}
    /\ {restart, reassign, named, loadIsland, report} \subseteq BOOLEAN
    /\ mission \in 0 .. MaxMissions
    /\ roles \in [Slots -> Players \cup {AI}] /\ locked \subseteq Slots
    /\ master \in Players \cup {AI}
    /\ info \in [Players -> [state : Phases, jip : BOOLEAN, valid : BOOLEAN,
                             person : {0} \cup Slots, ident : BOOLEAN]]

(* Nobody holds two slots, though an admin moves a player while the player's own
   request is under way (OnMessagePlayerRole gives the old slot up).         *)
RoleOnce == \A r, s \in Slots : roles[r] = roles[s] /\ roles[r] # AI => r = s

(* A player loses his slot only by his own request, the admin's, his departure,
   or because the slots of all are handed out anew; and one the admin has given
   him by the admin's alone (roleLocked).                                    *)
Asked(r) == \E p \in {roles[r], master} \ {AI} :
    /\ toServer[p] # <<>> /\ Head(toServer[p]).type = "claim" /\ toServer'[p] = Tail(toServer[p])
    /\ p = master \/ r \notin locked
SlotDefended == [][\A r \in Slots :
    roles[r] # AI /\ roles'[r] # roles[r] =>
        \/ info'[roles[r]].state = None
        \/ mission' # mission
        \/ state' = PrepareSide /\ roles' = Unassigned
        \/ Asked(r)]_vars

(* A client that has read all it was sent knows the slots as the server does,
   whoever came, went and changed while it joined.  (An admin's restart drops
   what was not sent yet, and with it changes of slots: CancelAllMessages.)  *)
RolesSeen ==
    \A p \in Present : toClient[p] = <<>> /\ client[p].head # 0 => client[p].roles = roles

(* Whom the server takes to be playing plays, in a unit: when nothing is under
   way between them, his client is in the same phase and has a person.  This
   includes the player whose slot came so late that he was sent what he missed.
   (Not one that joins in progress: he may be ready before he has a slot.  And
   not one without the island: his client stays where it was, but its display
   goes by the server's phase and reports him ready all the same.)           *)
PlayersMirror ==
    \A p \in Present \ Worldless :
        /\ toClient[p] = <<>> /\ toServer[p] = <<>>
        /\ state = Play /\ info[p].state = Play /\ ~info[p].jip
        => client[p].state = Play /\ client[p].person # 0

(* Who has a slot when the mission starts does not wait for ever: he comes to
   play it, or leaves, or the session goes on without it.  The gates on the way
   (every file valid, everybody loaded, everybody launched) wait for all others,
   who may leave, ask for slots late, or be slow.                            *)
Waits(p) ==
    /\ p \in Present /\ Holds(roles, p) /\ state \in Transfer .. Play
    /\ info[p].jip => info[p].state >= PrepareOK
    /\ client[p].screen \notin {"mission", "debriefing", "debriefed"}
HolderPlays == \A p \in Players : Waits(p) ~> ~Waits(p)
=============================================================================
