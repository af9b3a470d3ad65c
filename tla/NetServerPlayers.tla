-------------------------- MODULE NetServerPlayers --------------------------
(***************************************************************************)
(* The players of a server (NetServer in Network/NetTransportNet.cpp): how *)
(* a CreatePlayer request becomes a player with a channel of his own, how  *)
(* a player leaves (by his own request, kicked off, dropped, or replaced   *)
(* by a new request from his address), and how the game above learns of it.*)
(*                                                                         *)
(* The listener thread runs the requests, the sender thread the call-back  *)
(* of a TERMINATE message, the game's thread everything else.  Each of the *)
(* handlers holds the lock of the user map (usrCs) from its first read to  *)
(* its last write, so it is one step here; the two places where the        *)
(* listener gives that lock up in the middle of a CreatePlayer request     *)
(* (the pause after an old player was destroyed, and the answer) are steps *)
(* of their own.                                                           *)
(***************************************************************************)
EXTENDS Naturals, FiniteSets

CONSTANTS
    Addrs,        \* distant addresses (IP and port)
    Requests,     \* the CreatePlayer requests: [addr, uid, fit, bot]; they may
                  \* arrive at any time and any number of times
    Channels,     \* the channel objects; a closed one is used again when
                  \* nothing refers to it any more
    NoChannel,
    UniqueToTry,  \* UNIQUE_TO_TRY
    MaxPlayers,   \* session.maxPlayers, 0 for no limit
    Roaming       \* environment: a ReconnectPlayer request comes from an
                  \* address that is "free", or "taken" by another channel

VARIABLES
    users,             \* NetServer::users, player number -> channel
    support,           \* NetServer::m_support, address -> player number
    botId,             \* NetServer::botId
    creates, deletes,  \* _createPlayers and _deletePlayers: entries per number
    told,              \* the players the game has been told of, and not since
                       \* told that they are gone
    chMap,             \* NetPeerUDP::chMap, address -> channel
    dist, opened,      \* the distant address of a channel; the open channels
    kicks,             \* TERMINATE messages waiting to be sent
    waiting,           \* the request during whose pause the listener sleeps
    replying           \* the AckPlayer answer the listener is about to send

mapVars  == <<users, support, botId>>
gameVars == <<creates, deletes, told>>
chanVars == <<chMap, dist, opened, kicks>>
vars == <<users, support, botId, creates, deletes, told,
          chMap, dist, opened, kicks, waiting, replying>>

NoPlayer == 0
Candidates(r) == r.uid .. (r.uid + UniqueToTry - 1)
Ids      == UNION {Candidates(r) : r \in Requests}
Results  == {"CROK", "CRSessionFull", "CRError", "refused"}
Acks     == [to : Addrs, result : Results, player : Ids \cup {NoPlayer},
             ch : Channels \cup {NoChannel}]

ASSUME PlayersAssumption ==
    /\ Requests \subseteq [addr : Addrs, uid : Nat \ {0}, fit : BOOLEAN, bot : BOOLEAN]
    /\ IsFiniteSet(Requests) /\ Addrs # {}
    /\ NoChannel \notin Channels
    /\ UniqueToTry \in Nat \ {0} /\ MaxPlayers \in Nat
    /\ Roaming \subseteq {"free", "taken"}

-----------------------------------------------------------------------------
Players       == {p \in Ids : users[p] # NoChannel}
PlayersOf(ch) == {p \in Ids : users[p] = ch}     \* channelToPlayer: one or none
Idle          == waiting = {} /\ replying = {}   \* the listener takes a packet

(* Mutants of DestroyAll, as plausible slips of finishDestroyPlayer would have
   it: the game is told of the end of a player it never heard of; the TERMINATE
   messages survive the channel; the channel is not given back to the pool.  *)
Leaving(S, cancelled, deleted, closed, hushed) ==
    LET left == {dist[ch] : ch \in closed}
    IN /\ users' = [p \in Ids |-> IF p \in S THEN NoChannel ELSE users[p]]
       /\ support' = [a \in Addrs |-> IF a \in {dist[users[p]] : p \in S} THEN NoPlayer ELSE support[a]]
       /\ chMap' = [a \in Addrs |-> IF a \in left THEN NoChannel ELSE chMap[a]]
       /\ opened' = opened \ closed
       /\ kicks' = {k \in kicks : k.ch \notin hushed}
       /\ creates' = [p \in Ids |-> IF p \in cancelled THEN 0 ELSE creates[p]]
       /\ deletes' = [p \in Ids |-> IF p \in deleted THEN deletes[p] + 1 ELSE deletes[p]]
       /\ UNCHANGED <<botId, told, dist>>
ChannelsOf(S) == {users[p] : p \in S}
Unheard(S)    == {p \in S : creates[p] > 0}
DestroyAllAlwaysTold(S) == Leaving(S, {}, S, ChannelsOf(S), ChannelsOf(S))
DestroyAllKeepKicks(S)  == Leaving(S, Unheard(S), S \ Unheard(S), ChannelsOf(S), {})
DestroyAllLeak(S)       == Leaving(S, Unheard(S), S \ Unheard(S), {}, ChannelsOf(S))

(* finishDestroyPlayer, for each player of S.  Closing his channel cancels
   the messages queued on it; a TERMINATE among them calls back
   finishDestroyPlayer for the number it carries, which is the number that has
   just been removed from the map (KicksMatch), and does nothing.  The maps of
   addresses remove whatever has the address of the closed channel.          *)
DestroyAll(S) ==
    LET gone == {users[p] : p \in S}
        left == {dist[ch] : ch \in gone}
    IN /\ users' = [p \in Ids |-> IF p \in S THEN NoChannel ELSE users[p]]
       /\ support' = [a \in Addrs |-> IF a \in left THEN NoPlayer ELSE support[a]]
       /\ chMap' = [a \in Addrs |-> IF a \in left THEN NoChannel ELSE chMap[a]]
       /\ opened' = opened \ gone
       /\ kicks' = {k \in kicks : k.ch \notin gone}
       /\ creates' = [p \in Ids |-> IF p \in S /\ creates[p] > 0
                                    THEN creates[p] - 1 ELSE creates[p]]
       /\ deletes' = [p \in Ids |-> IF p \in S /\ creates[p] = 0
                                    THEN deletes[p] + 1 ELSE deletes[p]]
       /\ UNCHANGED <<botId, told, dist>>

-----------------------------------------------------------------------------
(* Admission: the second half of MAGIC_CREATE_PLAYER.                      *)

FreeIds(r)  == {p \in Candidates(r) : users[p] = NoChannel}
First(p, S) == p \in S /\ \A q \in S : p <= q
FullByOne   == MaxPlayers > 0 /\ Cardinality(Players) + 1 > MaxPlayers   \* mutant
Full        == MaxPlayers > 0 /\ Cardinality(Players) + 2 > MaxPlayers
Referenced  == opened \cup {users[p] : p \in Ids} \cup {chMap[a] : a \in Addrs}
               \cup {k.ch : k \in kicks} \cup {ack.ch : ack \in replying}

Answer(a, result, p, ch) ==
    replying' = {[to |-> a, result |-> result, player |-> p, ch |-> ch]}

RefuseWith(r, result) ==
    /\ Answer(r.addr, result, NoPlayer, NoChannel)
    /\ UNCHANGED <<mapVars, gameVars, chanVars>>

(* Mutant: the split list is entered under the number the client proposed. *)
EnterProposed(r) ==
    \E ch \in Channels \ Referenced, p \in Ids :
        /\ First(p, FreeIds(r))
        /\ users' = [users EXCEPT ![p] = ch]
        /\ support' = [support EXCEPT ![r.addr] = r.uid]
        /\ botId' = IF r.bot THEN p ELSE botId
        /\ creates' = [creates EXCEPT ![p] = @ + 1]
        /\ chMap' = [chMap EXCEPT ![r.addr] = ch]
        /\ dist' = [dist EXCEPT ![ch] = r.addr]
        /\ opened' = opened \cup {ch}
        /\ Answer(r.addr, "CROK", p, ch)
        /\ UNCHANGED <<deletes, told, kicks>>

(* The new player gets the first number that is free.                      *)
Enter(r) ==
    \E ch \in Channels \ Referenced, p \in Ids :
        /\ First(p, FreeIds(r))
        /\ users' = [users EXCEPT ![p] = ch]
        /\ support' = [support EXCEPT ![r.addr] = p]
        /\ botId' = IF r.bot THEN p ELSE botId
        /\ creates' = [creates EXCEPT ![p] = @ + 1]
        /\ chMap' = [chMap EXCEPT ![r.addr] = ch]
        /\ dist' = [dist EXCEPT ![ch] = r.addr]
        /\ opened' = opened \cup {ch}
        /\ Answer(r.addr, "CROK", p, ch)
        /\ UNCHANGED <<deletes, told, kicks>>

Admit(r) ==
    IF FreeIds(r) = {} \/ Full THEN RefuseWith(r, "CRSessionFull")
    ELSE IF chMap[r.addr] # NoChannel THEN RefuseWith(r, "CRError")
    ELSE Enter(r)

(* MAGIC_CREATE_PLAYER up to the pause.  The search for a duplicate goes down
   from the number the client proposes.                                      *)
IsDuplicate(r) ==
    \E p \in Ids : /\ p <= r.uid /\ r.uid < p + UniqueToTry
                   /\ users[p] = chMap[r.addr]

ReceiveCreate(r) ==
    /\ Idle
    /\ \/ ~r.fit /\ RefuseWith(r, "refused") /\ UNCHANGED waiting
       \/ r.fit /\ chMap[r.addr] = NoChannel /\ Admit(r) /\ UNCHANGED waiting
       \/ r.fit /\ chMap[r.addr] # NoChannel /\ IsDuplicate(r) /\ UNCHANGED vars
       \/ /\ r.fit /\ chMap[r.addr] # NoChannel /\ ~IsDuplicate(r)
          /\ DestroyAll(PlayersOf(chMap[r.addr]))
          /\ waiting' = {r}
          /\ UNCHANGED replying

(* DESTROY_WAIT is over.                                                   *)
Resume(r) ==
    /\ r \in waiting
    /\ Admit(r)
    /\ waiting' = {}

(* The answer: on the new player's channel if there is one, else on the
   control channel.                                                          *)
SendAck(ack) ==
    /\ ack \in replying
    /\ replying' = {}
    /\ UNCHANGED <<mapVars, gameVars, chanVars, waiting>>

(* MAGIC_RECONNECT_PLAYER from address a: the channel keeps its state and gets
   a new address.                                                            *)
MayComeFrom(a, ch) ==
    IF chMap[a] \in {NoChannel, ch} THEN "free" \in Roaming ELSE "taken" \in Roaming

(* Mutant: the new address is registered before the old one is given up.   *)
ReceiveReconnectRegisterFirst(p, a) ==
    LET ch == users[p]
        registered == IF chMap[a] = NoChannel THEN [chMap EXCEPT ![a] = ch] ELSE chMap
    IN /\ Idle
       /\ p \in Players
       /\ MayComeFrom(a, ch)
       /\ dist' = [dist EXCEPT ![ch] = a]
       /\ chMap' = [registered EXCEPT ![dist[ch]] = NoChannel]
       /\ Answer(a, "CROK", p, ch)
       /\ UNCHANGED <<mapVars, gameVars, opened, kicks, waiting>>

ReceiveReconnect(p, a) ==
    LET ch      == users[p]
        cleared == [chMap EXCEPT ![dist[ch]] = NoChannel]   \* unregisterChannel
    IN /\ Idle
       /\ p \in Players
       /\ MayComeFrom(a, ch)
       /\ dist' = [dist EXCEPT ![ch] = a]
       /\ IF cleared[a] = NoChannel                         \* registerChannel
            THEN /\ chMap' = [cleared EXCEPT ![a] = ch]
                 /\ Answer(a, "CROK", p, ch)
            ELSE /\ chMap' = cleared
                 /\ Answer(a, "CRError", p, NoChannel)
       /\ UNCHANGED <<mapVars, gameVars, opened, kicks, waiting>>

-----------------------------------------------------------------------------
(* Departure.                                                              *)

(* MAGIC_DESTROY_PLAYER arrives on a routed channel.                       *)
ReceiveDestroy(ch) ==
    /\ Idle
    /\ ch \in opened /\ chMap[dist[ch]] = ch
    /\ DestroyAll(PlayersOf(ch))
    /\ UNCHANGED <<waiting, replying>>

(* KickOff: a TERMINATE message is queued; the player goes when it leaves. *)
KickOff(p) ==
    /\ p \in Players \cap told
    /\ kicks' = kicks \cup {[ch |-> users[p], player |-> p]}
    /\ UNCHANGED <<mapVars, gameVars, chMap, dist, opened, waiting, replying>>

(* The sender hands the TERMINATE message to the socket: its call-back,
   destroyPlayerCallback, destroys the player whose number it carries (who is
   the player of the channel, KicksMatch, so the message goes with him).     *)
KickSent(k) ==
    /\ k \in kicks
    /\ DestroyAll({k.player} \cap Players)
    /\ UNCHANGED <<waiting, replying>>

(* GetConnectionInfo finds the channel dropped.                            *)
Drop(p) ==
    /\ p \in Players \cap told
    /\ p # botId
    /\ DestroyAll({p})
    /\ UNCHANGED <<waiting, replying>>

(* CancelAllMessages (the server leaves a mission): a cancelled TERMINATE calls
   back as a sent one does.                                                  *)
CancelAllMessages ==
    /\ kicks # {}
    /\ DestroyAll({k.player : k \in kicks} \cap Players)
    /\ UNCHANGED <<waiting, replying>>

(* Mutant: the list of deletions is not emptied.                           *)
ProcessPlayersKeepDeletes(rejected) ==
    LET new == {p \in Ids : creates[p] > 0}
        old == {p \in Ids : deletes[p] > 0}
    IN /\ new \cup old # {}
       /\ rejected \subseteq new
       /\ told' = (told \ old) \cup new
       /\ kicks' = kicks \cup {[ch |-> users[p], player |-> p] : p \in rejected \cap Players}
       /\ creates' = [p \in Ids |-> 0]
       /\ UNCHANGED <<mapVars, deletes, chMap, dist, opened, waiting, replying>>

(* ProcessPlayers: the game is told of all deletions, then of all creations;
   it may refuse a new player there and then (OnCreatePlayer calls KickOff when
   the game has begun or the session is locked).                             *)
ProcessPlayers(rejected) ==
    LET new == {p \in Ids : creates[p] > 0}
        old == {p \in Ids : deletes[p] > 0}
    IN /\ new \cup old # {}
       /\ rejected \subseteq new
       /\ told' = (told \ old) \cup new
       /\ kicks' = kicks \cup {[ch |-> users[p], player |-> p] : p \in rejected \cap Players}
       /\ creates' = [p \in Ids |-> 0]
       /\ deletes' = [p \in Ids |-> 0]
       /\ UNCHANGED <<mapVars, chMap, dist, opened, waiting, replying>>

-----------------------------------------------------------------------------
Init ==
    /\ users = [p \in Ids |-> NoChannel]
    /\ support = [a \in Addrs |-> NoPlayer]
    /\ botId = NoPlayer
    /\ creates = [p \in Ids |-> 0] /\ deletes = [p \in Ids |-> 0]
    /\ told = {}
    /\ chMap = [a \in Addrs |-> NoChannel]
    /\ dist = [ch \in Channels |-> CHOOSE a \in Addrs : TRUE]
    /\ opened = {} /\ kicks = {}
    /\ waiting = {} /\ replying = {}

Next ==
    \/ \E r \in Requests : ReceiveCreate(r) \/ Resume(r)
    \/ \E ack \in replying : SendAck(ack)
    \/ \E p \in Ids, a \in Addrs : ReceiveReconnect(p, a)
    \/ \E ch \in Channels : ReceiveDestroy(ch)
    \/ \E p \in Ids : KickOff(p) \/ Drop(p)
    \/ \E k \in kicks : KickSent(k)
    \/ CancelAllMessages
    \/ \E rejected \in SUBSET Ids : ProcessPlayers(rejected)

Spec == Init /\ [][Next]_vars
-----------------------------------------------------------------------------
(* The variables have their types; no player number is entered twice in either
   list the game is told from.                                               *)
TypeOK ==
    /\ users \in [Ids -> Channels \cup {NoChannel}]
    /\ support \in [Addrs -> Ids \cup {NoPlayer}]
    /\ botId \in Ids \cup {NoPlayer}
    /\ creates \in [Ids -> 0 .. 1] /\ deletes \in [Ids -> 0 .. 1]
    /\ told \subseteq Ids
    /\ chMap \in [Addrs -> Channels \cup {NoChannel}]
    /\ dist \in [Channels -> Addrs] /\ opened \subseteq Channels
    /\ kicks \subseteq [ch : Channels, player : Ids]
    /\ waiting \subseteq Requests /\ replying \subseteq Acks

(* What arrives from a player's address reaches his channel: the channel of
   every player is open and is the one the listener finds for its address.   *)
PlayersRouted ==
    \A p \in Players : /\ users[p] \in opened
                       /\ chMap[dist[users[p]]] = users[p]

(* Nobody is left behind: an open channel, which keeps its address occupied for
   every later request, belongs to exactly one player.                       *)
ChannelsOwned ==
    \A ch \in opened : \E p \in Ids : PlayersOf(ch) = {p}

(* The fragments of a player's messages are collected under his own number: from
   his entry on, the split lists (m_support) are found under the address he sends
   from, whoever comes and goes, until he himself moves.  (They do not follow him
   then; serverReceive asserts that they are there: NET_ERROR(sup).)           *)
Filed(p) == support[dist[users[p]]] = p
FiledUntilMoved ==
    [][\A p \in Players' : \/ Filed(p)'
                           \/ /\ users[p] = users'[p]
                              /\ Filed(p) => dist[users[p]] # dist'[users[p]]]_vars

(* The game will be right: when it has been told of the recorded deletions and
   then of the recorded creations it knows exactly the players there are, it
   is never told of the end of a player it does not know, and never of a new
   player under a number it knows (ProcessPlayers, finishDestroyPlayer).     *)
GameFollows ==
    \A p \in Ids :
        /\ deletes[p] = 1 => p \in told
        /\ creates[p] = 1 => p \notin told \/ deletes[p] = 1
        /\ p \in Players <=> creates[p] = 1 \/ (p \in told /\ deletes[p] = 0)

(* There is always room for one more than the users of the map: the limit counts
   the place the session packet leaves out (numPlayers is users.card() - 1).   *)
Capacity == MaxPlayers > 0 => Cardinality(Players) + 1 <= MaxPlayers

(* A TERMINATE message in a queue carries the number of the player its channel
   belongs to now: it cannot hit a later player under the same number.       *)
KicksMatch == \A k \in kicks : users[k.player] = k.ch

(* Two channels must not share the same distant address and port (NetPeer's
   registerChannel, which the reconnection calls).                           *)
DistinctAddresses ==
    \A ch, other \in opened : dist[ch] = dist[other] => ch = other
=============================================================================
