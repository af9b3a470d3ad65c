----------------------- MODULE NetServerPlayersProofs -----------------------
(***************************************************************************)
(* Proofs about NetServerPlayers, for every set of addresses and requests, *)
(* every limit of players and every order of the threads' steps.           *)
(***************************************************************************)
EXTENDS NetServerPlayers, FiniteSetTheorems, TLAPS

(* The player numbers are positive and there are finitely many.            *)
LEMMA IdsNat == Ids \subseteq Nat \ {0} /\ NoPlayer \notin Ids
  BY PlayersAssumption DEF Ids, Candidates, NoPlayer

(* Finitely many requests propose finitely many numbers.                    *)
LEMMA IdsFinite == IsFiniteSet(Ids)
<1> DEFINE T == {Candidates(r) : r \in Requests}
           f == [r \in Requests |-> Candidates(r)]
<1>1. IsFiniteSet(T)
  <2>1. f \in Surjection(Requests, T)
    BY DEF Surjection
  <2> QED BY ONLY <2>1, PlayersAssumption, FS_Surjection
<1>2. \A r \in Requests : IsFiniteSet(Candidates(r))
  BY FS_Interval, PlayersAssumption DEF Candidates
<1> QED BY <1>1, <1>2, FS_UNION DEF Ids

-----------------------------------------------------------------------------
(* Every step of the server does one of six things.                        *)
Leave     == \E S \in SUBSET Players : DestroyAll(S)
EnterOne  == \E r \in Requests : Enter(r) /\ ~Full /\ FreeIds(r) # {} /\ chMap[r.addr] = NoChannel
Listening == UNCHANGED <<mapVars, gameVars, chanVars>>
Roam      == \E p \in Ids, a \in Addrs : ReceiveReconnect(p, a)
Kick      == \E p \in Ids : KickOff(p)
Tell      == \E rejected \in SUBSET Ids : ProcessPlayers(rejected)
ListenerType == waiting \subseteq Requests /\ replying \subseteq Acks

(* An admission either changes nothing but the answer to be sent, or enters one
   player, at a free address, under a free number, below the limit.          *)
LEMMA AdmitShape ==
    ASSUME TypeOK, NEW r \in Requests, Admit(r)
    PROVE  (Listening \/ EnterOne) /\ replying' \subseteq Acks
<1>0. r.addr \in Addrs
  BY PlayersAssumption
<1>1. CASE FreeIds(r) = {} \/ Full
  <2>1. RefuseWith(r, "CRSessionFull")
    BY <1>1 DEF Admit
  <2> QED BY <2>1, <1>0 DEF RefuseWith, Answer, Listening, Acks, Results
<1>2. CASE ~(FreeIds(r) = {} \/ Full) /\ chMap[r.addr] # NoChannel
  <2>1. RefuseWith(r, "CRError")
    BY <1>2 DEF Admit
  <2> QED BY <2>1, <1>0 DEF RefuseWith, Answer, Listening, Acks, Results
<1>3. CASE ~(FreeIds(r) = {} \/ Full) /\ chMap[r.addr] = NoChannel
  <2>1. Enter(r)
    BY <1>3 DEF Admit
  <2>2. PICK ch \in Channels, p \in Ids : Answer(r.addr, "CROK", p, ch)
    BY <2>1 DEF Enter
  <2>3. replying' \subseteq Acks
    BY <2>2, <1>0 DEF Answer, Acks, Results
  <2> QED BY <2>1, <2>3, <1>3 DEF EnterOne
<1> QED BY <1>1, <1>2, <1>3

(* And so each action is a departure of players, an entry, a step of the
   listener alone, a reconnection, a kick or a report to the game.           *)
LEMMA StepShape ==
    ASSUME TypeOK, [Next]_vars
    PROVE  /\ Leave \/ EnterOne \/ Listening \/ Roam \/ Kick \/ Tell
           /\ ListenerType'
<1>0. ListenerType
  BY DEF TypeOK, ListenerType
<1>s. \A ch \in Channels : PlayersOf(ch) \in SUBSET Players
  BY PlayersAssumption DEF PlayersOf, Players
<1>m. \A a \in Addrs : chMap[a] # NoChannel => chMap[a] \in Channels
  BY DEF TypeOK
<1>1. ASSUME NEW r \in Requests, ReceiveCreate(r)
      PROVE  (Leave \/ EnterOne \/ Listening) /\ ListenerType'
  <2>0. r.addr \in Addrs
    BY PlayersAssumption
  <2>1. CASE RefuseWith(r, "refused") /\ UNCHANGED waiting
    BY <2>0, <2>1, <1>0 DEF RefuseWith, Answer, Listening, ListenerType, Acks, Results
  <2>2. CASE Admit(r) /\ UNCHANGED waiting
    BY <2>2, <1>0, AdmitShape DEF ListenerType
  <2>3. CASE UNCHANGED vars
    BY <2>3, <1>0 DEF vars, Listening, ListenerType, mapVars, gameVars, chanVars
  <2>4. CASE /\ chMap[r.addr] # NoChannel
             /\ DestroyAll(PlayersOf(chMap[r.addr]))
             /\ waiting' = {r} /\ UNCHANGED replying
    <3>1. PlayersOf(chMap[r.addr]) \in SUBSET Players
      BY <2>0, <2>4, <1>s, <1>m
    <3> QED BY <3>1, <2>4, <1>0 DEF Leave, ListenerType
  <2> QED BY <1>1, <2>1, <2>2, <2>3, <2>4 DEF ReceiveCreate
<1>2. ASSUME NEW r \in Requests, Resume(r)
      PROVE  (EnterOne \/ Listening) /\ ListenerType'
  BY <1>2, AdmitShape DEF Resume, ListenerType
<1>3. ASSUME NEW ack \in replying, SendAck(ack)
      PROVE  Listening /\ ListenerType'
  BY <1>3, <1>0 DEF SendAck, Listening, ListenerType
<1>4. ASSUME NEW p \in Ids, NEW a \in Addrs, ReceiveReconnect(p, a)
      PROVE  Roam /\ ListenerType'
  <2>1. users[p] \in Channels
    BY <1>4, PlayersAssumption DEF ReceiveReconnect, Players, TypeOK
  <2>2. replying' \subseteq Acks
    BY <1>4, <2>1 DEF ReceiveReconnect, Answer, Acks, Results
  <2> QED BY <1>4, <2>2, <1>0 DEF Roam, ReceiveReconnect, ListenerType
<1>5. ASSUME NEW ch \in Channels, ReceiveDestroy(ch)
      PROVE  Leave /\ ListenerType'
  BY <1>5, <1>0, <1>s DEF ReceiveDestroy, Leave, ListenerType
<1>6. ASSUME NEW p \in Ids, KickOff(p)
      PROVE  Kick /\ ListenerType'
  BY <1>6, <1>0 DEF KickOff, Kick, ListenerType
<1>7. ASSUME NEW p \in Ids, Drop(p)
      PROVE  Leave /\ ListenerType'
  BY <1>7, <1>0 DEF Drop, Leave, ListenerType
<1>8. ASSUME NEW k \in kicks, KickSent(k)
      PROVE  Leave /\ ListenerType'
  BY <1>8, <1>0 DEF KickSent, Leave, ListenerType
<1>9. ASSUME CancelAllMessages
      PROVE  Leave /\ ListenerType'
  BY <1>9, <1>0 DEF CancelAllMessages, Leave, ListenerType
<1>10. ASSUME NEW rejected \in SUBSET Ids, ProcessPlayers(rejected)
       PROVE  Tell /\ ListenerType'
  BY <1>10, <1>0 DEF ProcessPlayers, Tell, ListenerType
<1>11. ASSUME UNCHANGED vars
       PROVE  Listening /\ ListenerType'
  BY <1>11, <1>0 DEF vars, Listening, ListenerType, mapVars, gameVars, chanVars
<1> QED BY <1>1, <1>2, <1>3, <1>4, <1>5, <1>6, <1>7, <1>8, <1>9, <1>10, <1>11 DEF Next
-----------------------------------------------------------------------------
(* What the game is told, the limit and the kicks: true wherever the       *)
(* reconnections come from.                                                *)

PlayersInv == TypeOK /\ GameFollows /\ Capacity /\ KicksMatch

(* finishDestroyPlayer keeps the types, what the game will know and the match of
   the queued TERMINATE messages with their players.                         *)
LEMMA LeaveKeeps ==
    ASSUME TypeOK, GameFollows, KicksMatch, NEW S \in SUBSET Players, DestroyAll(S)
    PROVE  /\ users' \in [Ids -> Channels \cup {NoChannel}]
           /\ support' \in [Addrs -> Ids \cup {NoPlayer}]
           /\ botId' \in Ids \cup {NoPlayer} /\ told' \subseteq Ids
           /\ creates' \in [Ids -> 0 .. 1] /\ deletes' \in [Ids -> 0 .. 1]
           /\ chMap' \in [Addrs -> Channels \cup {NoChannel}]
           /\ dist' \in [Channels -> Addrs] /\ opened' \subseteq Channels
           /\ kicks' \subseteq [ch : Channels, player : Ids]
           /\ GameFollows' /\ KicksMatch'
           /\ Players' = Players \ S
<1>1. S \subseteq Ids
  BY DEF Players
<1>2. \A p \in Ids : users'[p] = IF p \in S THEN NoChannel ELSE users[p]
  BY DEF DestroyAll
<1>3. Players' = Players \ S
  BY <1>1, <1>2 DEF Players
<1>4. \A p \in Ids : creates[p] \in 0 .. 1 /\ deletes[p] \in 0 .. 1
  BY DEF TypeOK
<1>5. \A p \in S : creates[p] = 0 => deletes[p] = 0
  BY <1>1, <1>4 DEF GameFollows
<1>6. \A p \in Ids :
         /\ creates'[p] = IF p \in S /\ creates[p] > 0 THEN creates[p] - 1 ELSE creates[p]
         /\ deletes'[p] = IF p \in S /\ creates[p] = 0 THEN deletes[p] + 1 ELSE deletes[p]
  BY DEF DestroyAll
<1>7. \A p \in Ids : creates'[p] \in 0 .. 1 /\ deletes'[p] \in 0 .. 1
  BY <1>4, <1>5, <1>6
<1>8. creates' \in [Ids -> 0 .. 1] /\ deletes' \in [Ids -> 0 .. 1]
  BY <1>7 DEF DestroyAll
<1>9. told' = told
  BY DEF DestroyAll
<1>10. GameFollows'
  BY <1>1, <1>3, <1>4, <1>5, <1>6, <1>9 DEF GameFollows
<1>11. KicksMatch'
  <2> SUFFICES ASSUME NEW k \in kicks'
               PROVE  users'[k.player] = k.ch
    BY DEF KicksMatch
  <2>1. k \in kicks /\ k.ch \notin {users[p] : p \in S} /\ k.player \in Ids
    BY DEF DestroyAll, TypeOK
  <2>2. users[k.player] = k.ch
    BY <2>1 DEF KicksMatch
  <2> QED BY <2>1, <2>2, <1>2
<1>12. /\ users' \in [Ids -> Channels \cup {NoChannel}]
       /\ support' \in [Addrs -> Ids \cup {NoPlayer}]
       /\ botId' \in Ids \cup {NoPlayer} /\ told' \subseteq Ids
       /\ chMap' \in [Addrs -> Channels \cup {NoChannel}]
       /\ dist' \in [Channels -> Addrs] /\ opened' \subseteq Channels
       /\ kicks' \subseteq [ch : Channels, player : Ids]
  BY DEF DestroyAll, TypeOK
<1> QED BY <1>3, <1>8, <1>10, <1>11, <1>12

(* And so does the entry of a new player, whose number may be one the game is
   still to be told the end of.                                              *)
LEMMA EnterKeeps ==
    ASSUME TypeOK, GameFollows, KicksMatch, NEW r \in Requests, Enter(r)
    PROVE  /\ users' \in [Ids -> Channels \cup {NoChannel}]
           /\ support' \in [Addrs -> Ids \cup {NoPlayer}]
           /\ botId' \in Ids \cup {NoPlayer} /\ told' \subseteq Ids
           /\ creates' \in [Ids -> 0 .. 1] /\ deletes' \in [Ids -> 0 .. 1]
           /\ chMap' \in [Addrs -> Channels \cup {NoChannel}]
           /\ dist' \in [Channels -> Addrs] /\ opened' \subseteq Channels
           /\ kicks' \subseteq [ch : Channels, player : Ids]
           /\ GameFollows' /\ KicksMatch'
           /\ \E p \in Ids \ Players : Players' = Players \cup {p}
<1>0. r.addr \in Addrs
  BY PlayersAssumption
<1>1. PICK ch \in Channels \ Referenced, p \in Ids :
         /\ First(p, FreeIds(r))
         /\ users' = [users EXCEPT ![p] = ch]
         /\ support' = [support EXCEPT ![r.addr] = p]
         /\ botId' = IF r.bot THEN p ELSE botId
         /\ creates' = [creates EXCEPT ![p] = @ + 1]
         /\ chMap' = [chMap EXCEPT ![r.addr] = ch]
         /\ dist' = [dist EXCEPT ![ch] = r.addr]
         /\ opened' = opened \cup {ch}
         /\ UNCHANGED <<deletes, told, kicks>>
  BY DEF Enter
<1>2. users[p] = NoChannel /\ p \notin Players
  BY <1>1 DEF First, FreeIds, Players
<1>3. \A q \in Ids : users'[q] = IF q = p THEN ch ELSE users[q]
  BY <1>1 DEF TypeOK
<1>4. Players' = Players \cup {p}
  BY <1>1, <1>3, PlayersAssumption DEF Players
<1>5. \A q \in Ids : creates[q] \in 0 .. 1 /\ deletes[q] \in 0 .. 1
  BY DEF TypeOK
<1>6. creates[p] = 0 /\ (p \in told => deletes[p] = 1)
  BY <1>2, <1>5 DEF GameFollows
<1>7. \A q \in Ids : creates'[q] = IF q = p THEN 1 ELSE creates[q]
  BY <1>1, <1>6 DEF TypeOK
<1>8. creates' \in [Ids -> 0 .. 1]
  BY <1>1, <1>6 DEF TypeOK
<1>9. GameFollows'
  BY <1>1, <1>4, <1>5, <1>6, <1>7 DEF GameFollows
<1>10. KicksMatch'
  <2>1. \A k \in kicks : k.player \in Ids /\ k.ch \in Channels
    BY DEF TypeOK
  <2> QED BY <2>1, <1>1, <1>2, <1>3, PlayersAssumption DEF KicksMatch
<1>11. /\ users' \in [Ids -> Channels \cup {NoChannel}]
       /\ support' \in [Addrs -> Ids \cup {NoPlayer}]
       /\ botId' \in Ids \cup {NoPlayer} /\ told' \subseteq Ids
       /\ deletes' \in [Ids -> 0 .. 1]
       /\ chMap' \in [Addrs -> Channels \cup {NoChannel}]
       /\ dist' \in [Channels -> Addrs] /\ opened' \subseteq Channels
       /\ kicks' \subseteq [ch : Channels, player : Ids]
  BY <1>0, <1>1 DEF TypeOK
<1> QED BY <1>2, <1>4, <1>8, <1>9, <1>10, <1>11

(* The limit: a departure makes room, and admission left room for two.     *)
LEMMA CapacityKept ==
    ASSUME Capacity, NEW S,
           \/ Players' = Players \ S
           \/ ~Full /\ \E p \in Ids \ Players : Players' = Players \cup {p}
    PROVE  Capacity'
<1> SUFFICES ASSUME MaxPlayers > 0
             PROVE  Cardinality(Players') + 1 <= MaxPlayers
  BY DEF Capacity
<1>1. MaxPlayers \in Nat
  BY PlayersAssumption
<1>2. IsFiniteSet(Players)
  <2>1. Players \subseteq Ids
    BY DEF Players
  <2> QED BY <2>1, IdsFinite, FS_Subset
<1>3. Cardinality(Players) \in Nat /\ Cardinality(Players) + 1 <= MaxPlayers
  BY <1>2, FS_CardinalityType DEF Capacity
<1>4. CASE Players' = Players \ S
  <2>1. Players \ S \subseteq Players
    OBVIOUS
  <2>2. /\ Cardinality(Players \ S) <= Cardinality(Players)
        /\ IsFiniteSet(Players \ S)
    BY <2>1, <1>2, FS_Subset
  <2>3. Cardinality(Players \ S) \in Nat
    BY <2>2, FS_CardinalityType
  <2> QED BY <1>1, <1>3, <1>4, <2>2, <2>3
<1>5. CASE ~Full /\ \E p \in Ids \ Players : Players' = Players \cup {p}
  <2>1. PICK p \in Ids \ Players : Players' = Players \cup {p}
    BY <1>5
  <2>2. Cardinality(Players \cup {p}) = Cardinality(Players) + 1
    BY <1>2, <2>1, FS_AddElement
  <2>3. ~(Cardinality(Players) + 2 > MaxPlayers)
    BY <1>5 DEF Full
  <2> QED BY <1>1, <1>3, <2>1, <2>2, <2>3
<1> QED BY <1>4, <1>5

(* A new server has no players, no channels and nothing to tell the game.   *)
LEMMA InitPlayers == Init => PlayersInv
<1> SUFFICES ASSUME Init
             PROVE  PlayersInv
  OBVIOUS
<1>1. TypeOK
  <2>1. (CHOOSE a \in Addrs : TRUE) \in Addrs
    BY PlayersAssumption
  <2> QED BY <2>1, IdsNat DEF Init, TypeOK
<1>2. \A p \in Ids : users[p] = NoChannel
  BY DEF Init
<1>3. Players = {}
  BY <1>2 DEF Players
<1>4. GameFollows
  BY <1>3 DEF Init, GameFollows
<1>5. KicksMatch
  BY DEF Init, KicksMatch
<1>6. Capacity
  BY <1>3, FS_EmptySet, PlayersAssumption DEF Capacity
<1> QED BY <1>1, <1>4, <1>5, <1>6 DEF PlayersInv

(* Every handler of the server keeps the invariant.                         *)
LEMMA PlayersStep == PlayersInv /\ [Next]_vars => PlayersInv'
<1> SUFFICES ASSUME TypeOK, GameFollows, Capacity, KicksMatch, [Next]_vars
             PROVE  PlayersInv'
  BY DEF PlayersInv
<1>0. ListenerType'
  BY StepShape
<1>1. ASSUME NEW S \in SUBSET Players, DestroyAll(S)
      PROVE  PlayersInv'
  <2>1. Capacity'
    BY <1>1, LeaveKeeps, CapacityKept
  <2> QED BY <1>0, <1>1, <2>1, LeaveKeeps DEF PlayersInv, TypeOK, ListenerType
<1>2. ASSUME NEW r \in Requests, Enter(r), ~Full
      PROVE  PlayersInv'
  <2>1. Capacity'
    BY <1>2, EnterKeeps, CapacityKept
  <2> QED BY <1>0, <1>2, <2>1, EnterKeeps DEF PlayersInv, TypeOK, ListenerType
<1>3. ASSUME Listening
      PROVE  PlayersInv'
  <2>1. UNCHANGED <<users, support, botId, creates, deletes, told, chMap, dist, opened, kicks>>
    BY <1>3 DEF Listening, mapVars, gameVars, chanVars
  <2>2. Players' = Players
    BY <2>1 DEF Players
  <2>3. TypeOK'
    BY <1>0, <2>1 DEF TypeOK, ListenerType
  <2>4. GameFollows' /\ Capacity' /\ KicksMatch'
    BY <2>1, <2>2 DEF GameFollows, Capacity, KicksMatch
  <2> QED BY <2>3, <2>4 DEF PlayersInv
<1>4. ASSUME NEW p \in Ids, NEW a \in Addrs, ReceiveReconnect(p, a)
      PROVE  PlayersInv'
  <2>1. UNCHANGED <<users, support, botId, creates, deletes, told, opened, kicks>>
    BY <1>4 DEF ReceiveReconnect, mapVars, gameVars
  <2>2. Players' = Players
    BY <2>1 DEF Players
  <2>3. users[p] \in Channels
    BY <1>4 DEF ReceiveReconnect, Players, TypeOK
  <2>4. dist' \in [Channels -> Addrs]
    BY <1>4 DEF ReceiveReconnect, TypeOK
  <2>5. chMap' \in [Addrs -> Channels \cup {NoChannel}]
    <3> DEFINE cleared == [chMap EXCEPT ![dist[users[p]]] = NoChannel]
    <3>1. cleared \in [Addrs -> Channels \cup {NoChannel}]
      BY DEF TypeOK
    <3>2. chMap' = [cleared EXCEPT ![a] = users[p]] \/ chMap' = cleared
      BY <1>4 DEF ReceiveReconnect
    <3> QED BY <2>3, <3>1, <3>2
  <2>6. TypeOK'
    BY <1>0, <2>1, <2>4, <2>5 DEF TypeOK, ListenerType
  <2>7. GameFollows' /\ Capacity' /\ KicksMatch'
    BY <2>1, <2>2 DEF GameFollows, Capacity, KicksMatch
  <2> QED BY <2>6, <2>7 DEF PlayersInv
<1>5. ASSUME NEW p \in Ids, KickOff(p)
      PROVE  PlayersInv'
  <2>1. /\ UNCHANGED <<users, support, botId, creates, deletes, told, chMap, dist, opened>>
        /\ kicks' = kicks \cup {[ch |-> users[p], player |-> p]} /\ users[p] \in Channels
    BY <1>5 DEF KickOff, Players, TypeOK, mapVars, gameVars
  <2>2. Players' = Players
    BY <2>1 DEF Players
  <2>3. TypeOK'
    BY <1>0, <2>1 DEF TypeOK, ListenerType
  <2>4. GameFollows' /\ Capacity' /\ KicksMatch'
    BY <2>1, <2>2 DEF GameFollows, Capacity, KicksMatch
  <2> QED BY <2>3, <2>4 DEF PlayersInv
<1>6. ASSUME NEW rejected \in SUBSET Ids, ProcessPlayers(rejected)
      PROVE  PlayersInv'
  <2> DEFINE new == {p \in Ids : creates[p] > 0}
             old == {p \in Ids : deletes[p] > 0}
  <2>1. /\ UNCHANGED <<users, support, botId, chMap, dist, opened>>
        /\ told' = (told \ old) \cup new
        /\ kicks' = kicks \cup {[ch |-> users[p], player |-> p] : p \in rejected \cap Players}
        /\ creates' = [p \in Ids |-> 0] /\ deletes' = [p \in Ids |-> 0]
    BY <1>6 DEF ProcessPlayers, mapVars
  <2>2. Players' = Players
    BY <2>1 DEF Players
  <2>3. \A p \in Players : users[p] \in Channels
    BY DEF Players, TypeOK
  <2>4. TypeOK'
    <3>1. told' \subseteq Ids /\ kicks' \subseteq [ch : Channels, player : Ids]
      BY <2>1, <2>3 DEF TypeOK
    <3> QED BY <1>0, <2>1, <3>1 DEF TypeOK, ListenerType
  <2>5. \A p \in Ids : creates[p] \in 0 .. 1 /\ deletes[p] \in 0 .. 1
    BY DEF TypeOK
  <2>6. \A p \in Ids : p \in told' <=> p \in Players
    BY <2>1, <2>5 DEF GameFollows
  <2>7. \A p \in Ids : creates'[p] = 0 /\ deletes'[p] = 0
    BY <2>1
  <2>8. GameFollows'
    BY <2>2, <2>6, <2>7 DEF GameFollows
  <2>9. Capacity' /\ KicksMatch'
    BY <2>1, <2>2 DEF Capacity, KicksMatch
  <2> QED BY <2>4, <2>8, <2>9 DEF PlayersInv
<1> QED BY <1>1, <1>2, <1>3, <1>4, <1>5, <1>6, StepShape
        DEF Leave, EnterOne, Roam, Kick, Tell

(* The inductive invariant of the server's players: types, the game's future
   knowledge, the limit and the queued TERMINATE messages.                   *)
THEOREM PlayersInvariant == Spec => []PlayersInv
  BY InitPlayers, PlayersStep, PTL DEF Spec

(* The variables keep their types, and no number is entered twice in the lists
   of new and of departed players.                                           *)
THEOREM TypeCorrect == Spec => []TypeOK
  BY PlayersInvariant, PTL DEF PlayersInv

(* Whatever the threads' order: once the game has read both lists it knows
   exactly the players of the user map.                                      *)
THEOREM GameIsTold == Spec => []GameFollows
  BY PlayersInvariant, PTL DEF PlayersInv

(* The session's limit holds, the pause in the middle of an admission included. *)
THEOREM NeverOverfull == Spec => []Capacity
  BY PlayersInvariant, PTL DEF PlayersInv

(* A queued TERMINATE message names the player its channel belongs to.     *)
THEOREM KicksHitTheirPlayer == Spec => []KicksMatch
  BY PlayersInvariant, PTL DEF PlayersInv

-----------------------------------------------------------------------------
(* Addresses and channels, as long as no reconnection comes from an address *)
(* another channel has.                                                     *)

RoutingInv ==
    /\ PlayersRouted
    /\ \A p, q \in Players : users[p] = users[q] => p = q
    /\ \A ch \in opened : \E p \in Players : users[p] = ch
    /\ \A a \in Addrs : chMap[a] # NoChannel => chMap[a] \in opened /\ dist[chMap[a]] = a

(* A departure gives the address of each departed player back, and only his. *)
LEMMA LeaveRoutes ==
    ASSUME TypeOK, RoutingInv, NEW S \in SUBSET Players, DestroyAll(S)
    PROVE  RoutingInv'
<1> DEFINE gone == {users[p] : p \in S}
           left == {dist[ch] : ch \in gone}
<1>1. /\ \A p \in Ids : users'[p] = IF p \in S THEN NoChannel ELSE users[p]
      /\ \A a \in Addrs : chMap'[a] = IF a \in left THEN NoChannel ELSE chMap[a]
      /\ opened' = opened \ gone /\ dist' = dist
  BY DEF DestroyAll
<1>2. Players' = Players \ S
  BY <1>1 DEF Players
<1>3. \A p \in Players : users[p] \in opened /\ chMap[dist[users[p]]] = users[p]
  BY DEF RoutingInv, PlayersRouted
<1>4. \A ch \in opened : ch \in Channels /\ dist[ch] \in Addrs
  BY DEF TypeOK
<1>5. \A p, q \in Players : users[p] = users[q] => p = q
  BY DEF RoutingInv
<1>6. \A p \in Players' : users'[p] = users[p] /\ users[p] \notin gone
  BY <1>1, <1>2, <1>5 DEF Players
<1>7. \A p \in Players' : dist[users[p]] \notin left
  <2> SUFFICES ASSUME NEW p \in Players', NEW q \in S, dist[users[p]] = dist[users[q]]
               PROVE  FALSE
    OBVIOUS
  <2>1. users[p] = users[q]
    BY <1>2, <1>3
  <2> QED BY <2>1, <1>6
<1>8. PlayersRouted'
  BY <1>1, <1>2, <1>3, <1>4, <1>6, <1>7 DEF PlayersRouted
<1>9. \A p, q \in Players' : users'[p] = users'[q] => p = q
  BY <1>2, <1>5, <1>6
<1>10. \A ch \in opened' : \E p \in Players' : users'[p] = ch
  <2> SUFFICES ASSUME NEW ch \in opened'
               PROVE  \E p \in Players' : users'[p] = ch
    OBVIOUS
  <2>1. PICK p \in Players : users[p] = ch
    BY <1>1 DEF RoutingInv
  <2> QED BY <2>1, <1>1, <1>2, <1>6
<1>11. \A a \in Addrs : chMap'[a] # NoChannel => chMap'[a] \in opened' /\ dist'[chMap'[a]] = a
  <2> SUFFICES ASSUME NEW a \in Addrs, chMap'[a] # NoChannel
               PROVE  chMap'[a] \in opened' /\ dist'[chMap'[a]] = a
    OBVIOUS
  <2>1. a \notin left /\ chMap'[a] = chMap[a]
    BY <1>1
  <2>2. chMap[a] \in opened /\ dist[chMap[a]] = a
    BY <2>1 DEF RoutingInv
  <2> QED BY <2>1, <2>2, <1>1
<1> QED BY <1>8, <1>9, <1>10, <1>11 DEF RoutingInv

(* An entry takes a channel nobody refers to and an address nobody has.     *)
LEMMA EnterRoutes ==
    ASSUME TypeOK, RoutingInv, NEW r \in Requests, Enter(r), chMap[r.addr] = NoChannel
    PROVE  RoutingInv'
<1>0. r.addr \in Addrs
  BY PlayersAssumption
<1>1. PICK ch \in Channels \ Referenced, p \in Ids :
         /\ First(p, FreeIds(r))
         /\ users' = [users EXCEPT ![p] = ch]
         /\ chMap' = [chMap EXCEPT ![r.addr] = ch]
         /\ dist' = [dist EXCEPT ![ch] = r.addr]
         /\ opened' = opened \cup {ch}
  BY DEF Enter
<1>2. users[p] = NoChannel
  BY <1>1 DEF First, FreeIds
<1>3. /\ \A q \in Ids : users'[q] = IF q = p THEN ch ELSE users[q]
      /\ \A a \in Addrs : chMap'[a] = IF a = r.addr THEN ch ELSE chMap[a]
      /\ \A c \in Channels : dist'[c] = IF c = ch THEN r.addr ELSE dist[c]
  BY <1>1 DEF TypeOK
<1>4. Players' = Players \cup {p} /\ p \notin Players
  BY <1>1, <1>2, <1>3, PlayersAssumption DEF Players
<1>5. ch \notin opened /\ \A q \in Players : users[q] # ch
  BY <1>1 DEF Referenced, Players
<1>6. \A q \in Players : /\ users[q] \in opened /\ users[q] \in Channels
                         /\ chMap[dist[users[q]]] = users[q] /\ dist[users[q]] \in Addrs
  BY DEF RoutingInv, PlayersRouted, TypeOK
<1>7. \A q \in Players : q # p /\ users'[q] = users[q] /\ dist[users[q]] # r.addr
  BY <1>3, <1>4, <1>6, PlayersAssumption DEF Players
<1>8. PlayersRouted'
  BY <1>0, <1>1, <1>3, <1>4, <1>5, <1>6, <1>7 DEF PlayersRouted
<1>9. \A q, s \in Players' : users'[q] = users'[s] => q = s
  BY <1>3, <1>4, <1>5, <1>7 DEF RoutingInv
<1>10. \A c \in opened' : \E q \in Players' : users'[q] = c
  BY <1>1, <1>3, <1>4, <1>7 DEF RoutingInv
<1>11. \A a \in Addrs : chMap'[a] # NoChannel => chMap'[a] \in opened' /\ dist'[chMap'[a]] = a
  <2>1. \A a \in Addrs : chMap[a] # NoChannel => chMap[a] \in Channels /\ chMap[a] # ch
    BY <1>1 DEF TypeOK, Referenced
  <2> QED BY <1>1, <1>3, <2>1 DEF RoutingInv
<1> QED BY <1>8, <1>9, <1>10, <1>11 DEF RoutingInv

(* A reconnection from an address no other channel has moves one route.     *)
LEMMA RoamRoutes ==
    ASSUME TypeOK, RoutingInv, "taken" \notin Roaming,
           NEW p \in Ids, NEW a \in Addrs, ReceiveReconnect(p, a)
    PROVE  RoutingInv'
<1> DEFINE ch == users[p]
           cleared == [chMap EXCEPT ![dist[ch]] = NoChannel]
<1>1. /\ p \in Players /\ chMap[a] \in {NoChannel, ch}
      /\ dist' = [dist EXCEPT ![ch] = a]
      /\ UNCHANGED <<users, opened>>
  BY DEF ReceiveReconnect, MayComeFrom, mapVars
<1>2. /\ ch \in opened /\ ch \in Channels /\ dist[ch] \in Addrs
      /\ ch # NoChannel /\ chMap[dist[ch]] = ch
  BY <1>1 DEF RoutingInv, PlayersRouted, TypeOK, Players
<1>3. \A b \in Addrs : chMap[b] = ch => b = dist[ch]
  BY <1>2 DEF RoutingInv
<1>4. /\ cleared \in [Addrs -> Channels \cup {NoChannel}]
      /\ \A b \in Addrs : cleared[b] = IF b = dist[ch] THEN NoChannel ELSE chMap[b]
  BY <1>2, PlayersAssumption DEF TypeOK
<1>5. cleared[a] = NoChannel
  BY <1>1, <1>3, <1>4
<1>6. chMap' = [cleared EXCEPT ![a] = ch]
  BY <1>5 DEF ReceiveReconnect
<1>7. /\ \A b \in Addrs : chMap'[b] = IF b = a THEN ch ELSE cleared[b]
      /\ \A c \in Channels : dist'[c] = IF c = ch THEN a ELSE dist[c]
  BY <1>1, <1>4, <1>6 DEF TypeOK
<1>8. Players' = Players
  BY <1>1 DEF Players
<1>9. PlayersRouted'
  <2> SUFFICES ASSUME NEW q \in Players
               PROVE  users[q] \in opened /\ chMap'[dist'[users[q]]] = users[q]
    BY <1>1, <1>8 DEF PlayersRouted
  <2>1. /\ users[q] \in opened /\ users[q] \in Channels /\ dist[users[q]] \in Addrs
        /\ chMap[dist[users[q]]] = users[q] /\ users[q] # NoChannel
    BY DEF RoutingInv, PlayersRouted, TypeOK, Players
  <2>2. CASE users[q] = ch
    BY <2>1, <2>2, <1>7
  <2>3. CASE users[q] # ch
    <3>1. dist[users[q]] # dist[ch] /\ dist[users[q]] # a
      BY <2>1, <2>3, <1>1, <1>2
    <3> QED BY <2>1, <2>3, <3>1, <1>4, <1>7
  <2> QED BY <2>2, <2>3
<1>10. \A b \in Addrs : chMap'[b] # NoChannel => chMap'[b] \in opened' /\ dist'[chMap'[b]] = b
  <2> SUFFICES ASSUME NEW b \in Addrs, chMap'[b] # NoChannel
               PROVE  chMap'[b] \in opened /\ dist'[chMap'[b]] = b
    BY <1>1
  <2>1. CASE b = a
    BY <2>1, <1>2, <1>7
  <2>2. CASE b # a
    <3>1. chMap'[b] = chMap[b] /\ b # dist[ch]
      BY <2>2, <1>4, <1>7
    <3>2. chMap[b] \in opened /\ chMap[b] \in Channels /\ dist[chMap[b]] = b
      BY <3>1 DEF RoutingInv, TypeOK
    <3> QED BY <3>1, <3>2, <1>7
  <2> QED BY <2>1, <2>2
<1> QED BY <1>1, <1>8, <1>9, <1>10 DEF RoutingInv

(* Every handler of the server keeps the routes right.                      *)
LEMMA RoutingStep ==
    ASSUME "taken" \notin Roaming
    PROVE  PlayersInv /\ RoutingInv /\ [Next]_vars => RoutingInv'
<1> SUFFICES ASSUME PlayersInv, RoutingInv, [Next]_vars
             PROVE  RoutingInv'
  OBVIOUS
<1>0. TypeOK
  BY DEF PlayersInv
<1>1. ASSUME UNCHANGED <<users, chMap, dist, opened>>
      PROVE  RoutingInv'
  BY <1>1 DEF RoutingInv, PlayersRouted, Players
<1>2. CASE Leave
  BY <1>0, <1>2, LeaveRoutes DEF Leave
<1>3. CASE EnterOne
  BY <1>0, <1>3, EnterRoutes DEF EnterOne
<1>4. CASE Listening
  BY <1>1, <1>4 DEF Listening, mapVars, chanVars
<1>5. CASE Roam
  BY <1>0, <1>5, RoamRoutes DEF Roam
<1>6. CASE Kick
  BY <1>1, <1>6 DEF Kick, KickOff, mapVars
<1>7. CASE Tell
  BY <1>1, <1>7 DEF Tell, ProcessPlayers, mapVars
<1> QED BY <1>0, <1>2, <1>3, <1>4, <1>5, <1>6, <1>7, StepShape

(* The inductive invariant of the routes: players, open channels and addresses
   correspond one to one.                                                    *)
THEOREM RoutingInvariant ==
    ASSUME "taken" \notin Roaming
    PROVE  Spec => []RoutingInv
<1>1. Init => RoutingInv
  BY DEF Init, RoutingInv, PlayersRouted, Players
<1>2. PlayersInv /\ RoutingInv /\ [Next]_vars => RoutingInv'
  BY RoutingStep
<1> QED BY <1>1, <1>2, PlayersInvariant, PTL DEF Spec

(* A player hears what is sent from his address, for as long as he is one. *)
THEOREM PlayersAreRouted ==
    ASSUME "taken" \notin Roaming
    PROVE  Spec => []PlayersRouted
<1>1. RoutingInv => PlayersRouted
  BY DEF RoutingInv
<1> QED BY <1>1, RoutingInvariant, PTL

(* An open channel has one player: no departure leaves an address occupied. *)
THEOREM NoChannelLeaks ==
    ASSUME "taken" \notin Roaming
    PROVE  Spec => []ChannelsOwned
<1>1. TypeOK /\ RoutingInv => ChannelsOwned
  <2> SUFFICES ASSUME TypeOK, RoutingInv, NEW ch \in opened
               PROVE  \E p \in Ids : PlayersOf(ch) = {p}
    BY DEF ChannelsOwned
  <2>1. PICK p \in Players : users[p] = ch
    BY DEF RoutingInv
  <2>2. \A q \in Ids : users[q] = ch => q = p
    BY <2>1 DEF RoutingInv, Players
  <2> QED BY <2>1, <2>2 DEF PlayersOf, Players
<1> QED BY <1>1, RoutingInvariant, TypeCorrect, PTL

(* And no two open channels have the same distant address.                 *)
THEOREM AddressesAreDistinct ==
    ASSUME "taken" \notin Roaming
    PROVE  Spec => []DistinctAddresses
<1>1. RoutingInv => DistinctAddresses
  BY DEF RoutingInv, PlayersRouted, DistinctAddresses
<1> QED BY <1>1, RoutingInvariant, PTL
-----------------------------------------------------------------------------
(* The split lists of the players (m_support).                             *)

(* What FiledUntilMoved says of one step.                                   *)
StillFiled ==
    \A p \in Players' : \/ Filed(p)'
                        \/ /\ users[p] = users'[p]
                           /\ Filed(p) => dist[users[p]] # dist'[users[p]]

(* A departure takes the split lists of the addresses of those who leave, and no
   player who stays has one of these addresses.                              *)
LEMMA LeaveKeepsFiles ==
    ASSUME TypeOK, RoutingInv, NEW S \in SUBSET Players, DestroyAll(S)
    PROVE  StillFiled
<1> DEFINE gone == {users[p] : p \in S}
           left == {dist[ch] : ch \in gone}
<1>1. /\ \A p \in Ids : users'[p] = IF p \in S THEN NoChannel ELSE users[p]
      /\ \A a \in Addrs : support'[a] = IF a \in left THEN NoPlayer ELSE support[a]
      /\ dist' = dist
  BY DEF DestroyAll
<1>2. Players' = Players \ S
  BY <1>1 DEF Players
<1>3. SUFFICES ASSUME NEW p \in Players', Filed(p)
               PROVE  Filed(p)'
  BY <1>1, <1>2 DEF StillFiled, Players
<1>4. p \in Players /\ p \in Ids /\ users'[p] = users[p]
  BY <1>1, <1>2 DEF Players
<1>5. users[p] \in Channels /\ dist[users[p]] \in Addrs
  BY <1>4 DEF TypeOK, Players
<1>6. dist[users[p]] \notin left
  <2> SUFFICES ASSUME NEW q \in S, dist[users[p]] = dist[users[q]]
               PROVE  FALSE
    OBVIOUS
  <2>1. users[p] = users[q]
    BY <1>4 DEF RoutingInv, PlayersRouted
  <2> QED BY <2>1, <1>2, <1>4 DEF RoutingInv
<1> QED BY <1>1, <1>3, <1>4, <1>5, <1>6 DEF Filed

(* An entry files the new player, under an address nobody else has.         *)
LEMMA EnterFiles ==
    ASSUME TypeOK, RoutingInv, NEW r \in Requests, Enter(r), chMap[r.addr] = NoChannel
    PROVE  StillFiled
<1>0. r.addr \in Addrs
  BY PlayersAssumption
<1>1. PICK ch \in Channels \ Referenced, p \in Ids :
         /\ users' = [users EXCEPT ![p] = ch]
         /\ support' = [support EXCEPT ![r.addr] = p]
         /\ dist' = [dist EXCEPT ![ch] = r.addr]
  BY DEF Enter
<1>2. /\ \A q \in Ids : users'[q] = IF q = p THEN ch ELSE users[q]
      /\ \A a \in Addrs : support'[a] = IF a = r.addr THEN p ELSE support[a]
      /\ \A c \in Channels : dist'[c] = IF c = ch THEN r.addr ELSE dist[c]
  BY <1>1 DEF TypeOK
<1>3. Filed(p)'
  BY <1>0, <1>1, <1>2 DEF Filed
<1>4. ASSUME NEW q \in Players', q # p, Filed(q)
      PROVE  Filed(q)'
  <2>1. q \in Players /\ q \in Ids /\ users'[q] = users[q]
    BY <1>2, <1>4 DEF Players
  <2>2. users[q] \in Channels /\ users[q] # ch /\ dist[users[q]] \in Addrs
    BY <1>1, <2>1 DEF TypeOK, Players, Referenced
  <2>3. chMap[dist[users[q]]] # NoChannel
    BY <2>1 DEF RoutingInv, PlayersRouted, Players
  <2>4. dist[users[q]] # r.addr
    BY <2>3
  <2> QED BY <1>2, <1>4, <2>1, <2>2, <2>4 DEF Filed
<1>5. \A q \in Players' : q # p => users[q] = users'[q]
  BY <1>2 DEF Players
<1> QED BY <1>3, <1>4, <1>5 DEF StillFiled

(* A reconnection changes the address of the player who moves, of nobody else,
   and leaves the split lists where they are.                                *)
LEMMA RoamFiles ==
    ASSUME TypeOK, RoutingInv, NEW p \in Ids, NEW a \in Addrs, ReceiveReconnect(p, a)
    PROVE  StillFiled
<1>1. /\ dist' = [dist EXCEPT ![users[p]] = a]
      /\ users' = users /\ support' = support
  BY DEF ReceiveReconnect, mapVars
<1> QED BY <1>1 DEF StillFiled, Filed

(* Every handler of the server.                                             *)
LEMMA FilesStep ==
    ASSUME TypeOK, RoutingInv, [Next]_vars
    PROVE  StillFiled
<1>1. ASSUME UNCHANGED <<users, support, dist>>
      PROVE  StillFiled
  BY <1>1 DEF StillFiled, Filed
<1>2. CASE Leave
  BY <1>2, LeaveKeepsFiles DEF Leave
<1>3. CASE EnterOne
  BY <1>3, EnterFiles DEF EnterOne
<1>4. CASE Listening
  BY <1>1, <1>4 DEF Listening, mapVars, chanVars
<1>5. CASE Roam
  BY <1>5, RoamFiles DEF Roam
<1>6. CASE Kick
  BY <1>1, <1>6 DEF Kick, KickOff, mapVars
<1>7. CASE Tell
  BY <1>1, <1>7 DEF Tell, ProcessPlayers, mapVars
<1> QED BY <1>2, <1>3, <1>4, <1>5, <1>6, <1>7, StepShape

(* The fragments of a player's messages are collected under his own number until
   he moves himself: nobody who joins, leaves, is kicked off or dropped takes his
   split list, and he has one from the step that enters him.                 *)
THEOREM FilesStay ==
    ASSUME "taken" \notin Roaming
    PROVE  Spec => FiledUntilMoved
<1>1. TypeOK /\ RoutingInv /\ [Next]_vars => StillFiled
  BY FilesStep
<1>2. TypeOK /\ RoutingInv /\ [Next]_vars
        => [\A p \in Players' : \/ Filed(p)'
                                \/ /\ users[p] = users'[p]
                                   /\ Filed(p) => dist[users[p]] # dist'[users[p]]]_vars
  BY <1>1 DEF StillFiled
<1> QED BY <1>2, RoutingInvariant, TypeCorrect, PTL DEF Spec, FiledUntilMoved
=============================================================================
