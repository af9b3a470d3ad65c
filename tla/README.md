# The multiplayer of CWR-CE in TLA+

This directory holds TLA+ models of the multiplayer stack of the game
(`src/engine/Poseidon/Network` with the displays that drive it, and the directory of
servers in `src/mserver`), the TLC configurations that check them, and theorems
about them that TLAPS proves. Paths below are relative to
`src/engine/Poseidon/Network` unless they start with `src/`; `NT` stands for
`NetTransportNet.cpp`, `NC` for `Legacy/NetChannel.cpp`.

    tlc -workers 2 -config NetChannel_classes.cfg MCNetChannel     # a run
    tlapm NetChannelProofs.tla                                     # the proofs

1. The system; 2. The inventory; 3. The modules; 4. The runs; 5. Fairness;
6. The proofs; 7. Findings; 8. What is not modelled; 9. The plan

## 1. The system

The repository is a game engine (half a million lines of C++: simulation, AI,
scripting, rendering, sound, user interface), two Rust programs (the master
server `src/mserver`, the test runner `src/engine/Trident`) and tools. Most of it
is sequential code over large numeric states. The concurrent and distributed
part, the one a unit test reaches least, is the multiplayer stack:

    displays        DisplayMultiplayerSetup, ...          main thread of a client
      |  AssignPlayer, ClientReady, commands
    session         NetworkServer, NetworkClient          main thread
      |  SendMsg, KickOff, ProcessUserMessages, ProcessPlayers, CancelAllMessages
    transport       NetServer, NetClient (NT)             all threads
      |  dispatchMessage, call-backs (serverReceive, destroyPlayerCallback)
    channel         NetChannelBasic (NC)                  listener and sender
      |  getPreparedMessage / preSend / postSend, processData
    peer            NetPeerUDP (Legacy/NetPeer.cpp)       listener, sender, socket
      |  UDP: packets are lost, duplicated, reordered

    directory       MasterServerPublisher (in a game server) -- HTTP --
                    MasterService (Rust: handlers over a database) and its prober

A server has one peer with one socket, a listener and a sender thread, and one
channel per player. The listener hands a packet to the channel its address is
routed to (`chMap`); the channel orders the messages and calls the transport
back; the transport merges fragments and puts messages into a list which the
game empties once a frame. The other way round the game dispatches messages into
the queues of a channel, the sender takes them one at a time, and a time-out in
the listener's loop puts unacknowledged ones back.

The session above it is a pair of state machines: the server goes through the
phases of a mission, tells the players, and waits at each gate for their
answers; a client follows, and what it answers is decided by the display on top
of it. A server publishes itself with the directory by a call every half minute
and whenever something changes, and removes itself when it ends.

## 2. The inventory

| component | state | operations | what is hard | what makes it correct |
|---|---|---|---|---|
| **channel** `NetChannelBasic` | three send queues, serials, last guaranteed messages, receive window (two bit-masks, a ring of owed acknowledgements, a priority queue), deferred messages, messages waiting for an acknowledgement | `dispatchMessage`, `setOrderedPrevious`, `getPreparedMessage`, `setOutputData`, `preSend`, `postSend`, `processData`, `processVIM`, `inputStatistics`, `inputResent`, `runRevisited`, `checkConnectivity`, `cancelAllMessages`, `reconnect`, `close` | loss, duplication, reordering; call-backs without the lock; window and ring of finite size; cancellation of a live channel | exactly once, in order, acknowledged only when received, nothing waits for ever |
| **players** `NetServer` | user map, split lists by address, routes, lists of players to create and to delete, queued TERMINATE messages | `MAGIC_CREATE_PLAYER`, `MAGIC_RECONNECT_PLAYER`, `MAGIC_DESTROY_PLAYER`, `KickOff`, `GetConnectionInfo`, `ProcessPlayers`, `CancelAllMessages` | a request is repeated; the listener gives up its locks in the middle of an admission; player numbers are reused; four maps change together | the game knows exactly the players there are; the limit holds; a kick hits its player; no address stays blocked |
| **threads and sections** `NetPeerUDP`, `NetPool`, `poolLock`, `usrCs`, `rcvCs` | owners of recursive critical sections, life of threads, peer and server | every entry point of the three threads | order of the sections, call-backs inside them, joining threads, the end of a server | no circle of waiting threads; each enter has its leave; `~NetServer` ends and leaves no thread |
| **message stream** `SendMsg`, `serverReceive`, `clientReceive`, `ProcessUserMessages` | fragments under way, one list of parts per class, one sorted list of received messages | cutting, merging, inserting, handing over, cancelling | fragments of classes, players and messages interleave; serials of different channels in one list; cancellation in the middle of a message | the game is handed whole messages, in order, all of them |
| client handshake `NetClient` | attempt, channel, time-outs | `Init`, `ReInit`, `~NetClient` | late answers of an earlier attempt | one player per client |
| message pool `NetMessagePool` | recycled messages, reference counts | `newMessage`, `recycleMessage` | a message in use is recycled | |
| session enumeration `NetSessionEnum` | table of sessions | requests, answers, ageing | shares the pool's life with the server | |
| **session** `NetworkServer`, `NetworkClient`, displays | phase, slots (`_playerRoles`), state of each player on both sides, admin, mission and its file, display on top | `OnCreatePlayer`, `CreateIdentity`, `OnPlayerDestroy`, `SetGameState`, `OnGameStateMessage`, `OnMessagePlayerRole`, `OnNetworkCommand`, `SimulateDS`; `NMTGameState` and the displays' `OnSimulate` | requests, changes of phase, joins and departures cross each other; a slot comes late; a player joins in progress; an admin moves players; queues are cancelled | both sides agree on the slots; who is taken to play plays; nobody has two slots or loses his; the mission goes on |
| mission and file transfer | valid copies; segments, progress | ask, send, gate; merge, abandon | an answer about the mission before | (gate: in the session) |
| integrity, authentication, rate limits, bans | questions and deadlines, buckets, tables | | time-outs against late answers | |
| **directory** `MasterServerPublisher`, `MasterService`, prober | table of servers with age, verdict and token; each server's token and its file; handlers at work | register, unregister, list, observe, prune; start, publish, stop; a round of the prober | handlers interleave at their awaits; a call is given up and runs on; an answer with a new token is lost; a process is killed; verdicts are late | a row is its server's; a server that is gone is not listed; one that runs is listed again and again |
| downloads, task pool, pending connection | jobs, progress, cancellation | | cancellation against completion | |
| simulation, AI, script evaluator, UI, graphics, audio, input, files, tools | | | | sequential or numeric; see 8 |

`PROJECT.json` lists every component with its status, and under `hazards`, each at
its line, what in the modelled components is hard to test and which property
would catch it.

## 3. The modules

| module | models | composed with |
|---|---|---|
| `ReliableDelivery` | what a channel promises: offered messages are handed over at most once, guaranteed ones behind their predecessors, and eventually | abstract specification of `NetChannel` |
| `NetChannel` | one direction of a channel: sender at A, receiver at B, a lossy network between | implements `ReliableDelivery` (`KeepsPromise`) |
| `NetServerPlayers` | players, routes, lists for the game | |
| `TransportLocks` | the three threads, the sections, the life of the peer | the finer grain of what the other modules take as one step |
| `MessageStream` | cut, merge, received lists, hand-over | takes the order of its channels for granted (what `NetChannel` is shown to keep) |
| `GameSession` | the session of a dedicated server, its clients and their displays | guaranteed messages in order (what `NetChannel` and `MessageStream` provide), players who come and go (`NetServerPlayers`) |
| `ServerDirectory` | publishers, the service's handlers, the prober | |
| `NetChannelProofs`, `NetServerPlayersProofs`, `TransportLocksProofs`, `MessageStreamProofs`, `GameSessionProofs`, `ServerDirectoryProofs` | theorems | each extends the module it is named after |
| `GameSessionPlayerProofs` | lemmas: one player, as the server has him and as his client is, and the invariant | extends `GameSessionProofs` |
| `GameSessionPlayProofs` | the theorem about who plays | extends `GameSessionPlayerProofs` |
| `MC*` | instances for TLC | |

### NetChannel

A message is its dispatch order; its serial is given by the first `Send`.
`where` says in which queue, list or state it is. `Dispatch` is `dispatchMessage`
with `setOrderedPrevious`; `Heartbeat` and `SetDelayMessage` are the messages the
channel composes or moves itself; `Send` / `PostSend` are the sender's
`getPreparedMessage`+`setOutputData`+`preSend` and `postSend`, between which an
acknowledgement does not find the message yet; `AckTimeout` is `runRevisited`;
`ReceiveAck` is the acknowledgement half of `inputStatistics`. At B, `Receive` is
`processData`, with `InputStatistics`, `InputResent`, the duplicate test and the
deferral; `ProcessVIM` is the part after the call-back, which runs without the
channel's lock (`busy`). `EmitAck` and `EmitDelayReply` are the acknowledgement
part of `setOutputData`. The wire is a set with duplication (`Receive` may leave
the packet there), `LosePacket` and `LoseAck` empty it: any order is possible.

Abstracted: the other direction (same code), payloads, latency and bandwidth
estimates and what depends on them (which queue may send now: any order the
priorities allow, and any place among the urgent messages for one that is sent
again or moved ahead), statistics masks, the pairs of packets. Serials do not wrap:
`MsgSerial` has 32 bits and a session does not send as many.

### NetServerPlayers

`ReceiveCreate` and `Resume` are the two halves of `MAGIC_CREATE_PLAYER`, before
and after the pause in which the listener holds no lock; `SendAck` is the answer
it sends after it left `usrCs`. `ReceiveDestroy`, `KickOff` with `KickSent`,
`Drop` and `CancelAllMessages` are the ways out, all through `DestroyAll`
(`finishDestroyPlayer` with `deleteChannel` and `close`). `ProcessPlayers` empties
both lists, deletions first, and may kick a new player at once. Each handler runs
inside `usrCs` from its first read to its last write and is one step;
`TransportLocks` (`MapsAgree`) checks that this is justified.
A request is a record of what the handler distinguishes: address, proposed
number, whether version and password fit, whether it is the server's own client.

### TransportLocks

What a thread does is a list of steps `In(l)`, `Out(l)` and changes of state;
`Listen`, `Dispatch` and `Play` choose the next handler, `Step` executes it, a
step that leads to a call-back (`SendKick`, `Cancel`) puts the call-back's steps
in front. `ProcessPlayers` holds `usrCs` around the game's call-backs, which send
to some player and kick another. A loop over players, in any order, is the step `Each`, which puts one
turn in front of what is left of itself (`Iterate`), so that what a thread still
has to do stays a sequence of steps of a finite set. Sections are recursive (`owner`, `depth`). `PoolShared` says that a
session browser or a client keeps the pool alive, `Patient` that the TERMINATE
messages leave within `DESTRUCT_WAIT`.

### MessageStream

A stream is one direction of one channel. `SendMsg` / `SendNext` are the loop of
`SendMsg`, one fragment a turn, each ordered behind the one before
(`setOrderedPrevious`); `Leave` gives a serial, `Lose` loses what is not
guaranteed; `Arrive` is `serverReceive` / `clientReceive` in the order the channel
allows (`InTurn`), with `Collect`, `Composite` (`mergeMessageList`) and
`InsertReceived`; `ProcessUserMessages` is one turn of its loop, the listener may
insert between two turns; `CancelAllMessages` drops what is queued on the
server's channels, and of what is under way whatever waits to be repeated.
`torn` and `before` are history variables that only the properties read.

### GameSession

The server's actions are `Join` (`OnCreatePlayer` with the bootstrap of a late
joiner), `Leave` (`OnPlayerDestroy`), a handler for each message (`OnLogin`,
`OnAskMissionFile`, `OnReady`, `OnReadyBriefing`, `OnReadyBot`, `OnClaim`,
`OnOrder`) and a case of `SimulateDS` each (`ChooseMission` .. `LeaveDebriefing`).
All of them change the phase through `SetGameState`: whom it tells (`Hears`),
what it then takes his state to be (`Mirrored`), who becomes a late joiner
(`Reclassified`), and what `CancelAllMessages` drops (`Cancelled`: of each
player's queue any tail, since nobody knows how far the transport got).
`OnClaim` is `OnMessagePlayerRole` whole: may he, which slot is given up, who is
told, and what is sent to a player whose slot came when the mission was already
under way. A client's actions are the handlers of `NetworkClient`
(`ReceiveState` with the leftovers a late joiner ignores, `ReceiveHeader`,
`ReceiveRole`, `ReceiveFile`, `ReceivePlayer`, `ReceiveOther`) and the displays:
`screen` says which is on top, and each action is a way out of one or what its
buttons report.

Data: a mission is a number, a slot is an index, a player's unit (`person`) is
the slot it belongs to, a file is there or not. Between a server and a client
there is one queue each way, in order, without loss: that is what the channel
promises. A handler is one step, for both sides are single threads. The bot
client in the server's process is reduced to the one report that matters,
`report`, which the local queue delivers before the players' messages. The slots
before the first mission are those it will have. A player of `Worldless` has an
installation without the missions' island, on which `PrepareGame` fails
(`Prepares`); the server does not know it.

### ServerDirectory

The service is asynchronous, so a handler (`calls[c]`) goes from one await to
the next: `ReadRow`, `ReadHash`, `Upsert`, `Fetch`, `SetToken`, `Answer` for a
registration, `Gate`, `Delete`, `Answer` for a removal. The publisher of a server
is one thread that waits for its call (`awaits`); after `GiveUp` the handler runs
on, or is dropped where it waits (`DropCall`). `Crash` kills the game server,
perhaps with its token's file just truncated. A row has the address the call came
from for its id, a removal the id the server knows of; where they differ (a router
between, an advertised name) the removal goes `Astray`: no row has that id, and the
404 counts as a success, or, with `client_ip_header`, the answer is 403. That id is
taken to be no other server's row either. The prober takes a list, asks each
server, and reports each verdict (`FetchServers`, `ProbeOne`, `EndRound`,
`Report`), then prunes; anything may happen in between. A `Tick` ages rows and
verdicts up to the age from which nothing changes; only the order of the four
limits matters, which is why small ones are enough. `doubt` is a history
variable: the servers that may have missed an answer. Publishing and heart-beat
are the same call for the service.

## 4. The runs

All runs are exhaustive over their bounds. Bounds are constants named in the
modules (`N`, `Requests`, `MaxAckPackets`, `MaxCancels`, `MaxAhead`; `Ops`; `MaxJoins`,
`MaxMissions`, `MaxClicks`, `MaxOrders`; `MaxStarts`, `MaxLosses`, `MaxMisses`).

| run | states | checks | bounds and why they are enough |
|---|---|---|---|
| `channel_classes` | 1 179 090 | `TypeOK`, `ExactlyOnce`, `OrderedDelivery`, `PredSerialKnown` | three messages of three classes in every mixture: a chain of three, two chains, a chain across the urgent queue; everything is repeated for ever and cancelled once; no acknowledgements, which these properties do not read |
| `channel_window` | 1 082 132 | `AckSound`, `NothingStranded`, `KeepsPromise` | a mask shorter (2) and a ring (2) shorter than the conversation (3): the window passes messages in flight, deferred and unacknowledged |
| `channel_live` | 2 330 | `EventuallyDelivered`, `EventuallyAcked` | two messages and one acknowledgement in flight: one overtakes, is deferred and repeated; a ring of one entry forces the priority queue (not how long an old acknowledgement may wait for its turn under steady traffic: that takes three messages and is beyond five minutes) |
| `players_play` | 335 391 | `TypeOK`, `Capacity`, `GameFollows`, `KicksMatch`, `ChannelsOwned`, `PlayersRouted`, `FiledUntilMoved` | three addresses, two places, requests that compete for a number; a channel object is used again (three of them); channels are interchangeable (symmetry) |
| `locks_all` | 466 662 | `TypeOK`, `Balanced`, `MapsAgree`, `CirclesKnown` | every operation of a running server |
| `locks_stop` | 84 108 | `NoThreadsAfter`, `KickedGoes`, `ServerStops` | two players kicked one by one or all at once by `~NetServer` |
| `locks_admission` | violated | `ListenerReturns` | a kick and a join |
| `stream_play` | 146 397 | `TypeOK`, `WholeMessages`, `OrderKept`, `EventuallyHanded` | three streams, two of them into one list; four fragments: two cut messages of one class or of two, a cut one between short ones, serials of two channels that compare either way; one cancellation |
| `session_play` | 1 709 545 | `RolesSeen`, `PlayersMirror` | two players and one slot, so that they compete for it, one of them without the island; nobody has the file; two connections: both from the start, one in progress, or one that left and came again; three clicks: OK, and a slot asked for before, during or after the loading; not explored beyond the debriefing of the only mission (`MissionsLast`), where the bound leaves the server nothing to do |
| `session_live` | 163 880 | `HolderPlays` | the same with a mission nobody may join in progress and one player who has the file already; all gates |
| `session_admin` | 609 516 | `TypeOK`, `RoleOnce`, `SlotDefended` | two players, two slots: the admin gives the other one a slot while that one has, frees or changes his; every command in every phase; the mission the admin names is not found, or cannot be loaded |
| `directory_play` | 925 302 | `TypeOK`, `TokenAgrees`, `StoppedGone`, `KeptListed`, `GoneUnlisted` | one server (servers share nothing but the prober's list, and `ServerDirectoryProofs` has any number) with two calls in the service at once, that is one given up and one after it; two starts, one loss of any kind, one wrong verdict (a server the prober can never reach stays hidden); removals that find the row and ones that go astray; four tokens, so that a new one is always free |

What the less obvious properties say:

- `AckSound`: a sender stops repeating only what the receiver has in charge. Its
  danger is the message that is acknowledged while it waits to be sent again.
- `NothingStranded`: a message is never deferred behind one that is already
  processed. The call-back runs without the lock, so a follower may come in
  exactly then.
- `KeepsPromise`: with the refinement mapping `waived <- {m : Passed(m)}` (the
  window has passed the serial), every step of the channel is a step of
  `ReliableDelivery`.
- `GameFollows`: the game, which reads all deletions before all creations, ends
  up with exactly the players there are, though a player may come, go and come
  again under one number between two looks.
- `KicksMatch`: a TERMINATE message carries a number into a queue and numbers are
  reused; it nevertheless never hits a later player, because closing a channel
  takes the messages of the channel away.
- `FiledUntilMoved`: the split lists of a player are found under his address until
  he moves. (After a reconnection they are not: see 7.)
- `WholeMessages`, `OrderKept`: whole messages, each behind the one it is ordered
  behind, though one list holds the serials of all players and is emptied while
  it is filled. `EventuallyHanded` includes what is sent after a cancellation.
- `CirclesKnown`: threads wait for each other in a circle only where a call-back
  (inside the peer's section or a channel's) enters `usrCs` or `poolLock`, or a
  reconnection enters the peer from within its channel. Those circles exist (7),
  hence `CHECK_DEADLOCK FALSE` in `locks_all`; the property says that there are no
  others, so that undoing these two nestings would make the transport free of
  them. The other runs that say so may really stop: a server that is gone, a
  conversation that is over, players who do nothing more.
- `RolesSeen`: a client that has read everything has the server's slots. Its
  danger is the player who connects in the middle of a mission and is sent the
  slots once, while others change them.
- `PlayersMirror`: if the server takes a player to be playing and nothing is under
  way, his client plays, and in a unit. Its danger is the slot that was granted
  when the mission was already being transferred, loaded or briefed. It is not so
  of a player without the island (7), and beside him it is still so of the others.
- `HolderPlays`: no gate on the way to play holds a player up for ever.
- `RoleOnce`, `SlotDefended`: an admin and a player ask for slots of the same
  player at once; one slot each, and a slot is lost only as it may be.
- `TokenAgrees`, `StoppedGone`: what the service keeps of a server and what the
  server knows agree between two calls, and after the last, unless an answer was
  lost (`doubt`) or the removal went astray; what goes then is left to `GoneUnlisted`:
  the row is not listed for ever. `KeptListed` and `GoneUnlisted` ask, without that exception, that
  the list is right again and again, which rests on the three ages
  (`SERVER_TOKEN_RECOVERY_MS`, `UNREACHABLE_HIDE_MS`, `HEARTBEAT_FRESH_MS`).

Every property of a passing run has a mutant in `PROJECT.json`: a plausible slip
in a modelled function (`...Nothing`, `...Leak`, `...Late`) under which TLC finds
it violated with the same bounds. The mutants stand before what they mutate.

## 5. Fairness

Safety is checked without fairness. Where fairness is assumed:

- `NetChannel`: both threads run (weak fairness of `ProcessVIM`, `PostSend`,
  `AckTimeout`, `ReceiveAck`, `EmitAck`: the sender's loop, the listener's loop
  that visits the channels every 50 ms, the heart-beat every half second). The
  network is fair to a packet that is sent again and again (strong fairness of
  `Receive` and of the arrival of an acknowledgement for a waiting message), and
  the sender's priorities to each message (strong fairness of `Send`: bandwidth
  allows in the end). `InTime` says that from some time on a message is not
  repeated while a packet or an acknowledgement of it is under way, which is what
  the growing `ackTimeout` (up to `MAX_ACK_TIMEOUT`) achieves.
- `TransportLocks`: each thread takes its steps (strong fairness, since a section
  may be taken by others in between: it is not refused for ever to one thread),
  and the bandwidth of a channel allows an urgent message in the end (`SendKick`).
- `MessageStream`: `SendMsg` ends, the sender takes its queues, the channel hands
  over what is guaranteed (proved and checked one level below), the game calls
  `ProcessUserMessages` every frame. Nothing is assumed of unguaranteed messages.
- `GameSession`: the server's frame (`ServerFrame`: the cases of `SimulateDS`, in
  play only when it is restarted or nobody plays any more, since a mission may
  last as long as it likes) and the messages of each player; a client's messages and
  the frames of its displays, with the two buttons that a player presses in the
  end, Launch and Continue. Nobody is assumed to ask for a slot, to press OK, to
  leave a mission or to disconnect.
- `ServerDirectory`: a running server publishes (`Publish`), a handler goes on, time
  passes. Nothing is assumed of the prober, and no server is ever stopped.

## 6. The proofs

For every value of the constants that satisfies the named assumptions
(`ConstantsAssumption`, `PlayersAssumption`, `SlotsAssumption`, `AgesAssumption`, ...:
sizes are naturals, the window's stretch is smaller than its width, finitely many
requests, slots are numbered from 1).

**Channel** (`NetChannelProofs`).
`TypeCorrect`, then two inductive invariants:

- `SenderInv` = `SerialInv` /\ `QueueInv` /\ `OrderInv` /\ `LastInv` with
  `CancelForgetsOrder` and `PredSerialKnown`. The last is not inductive alone: that
  a predecessor has left before its follower rests on the priority of the queues
  (`QueueInv`), on age within a class (`OrderInv`), and on the ends of the chains
  never being dropped (`LastInv`, the reason why `cancelAllMessages` forgets
  them). Hence `PredecessorNumbered` and `CancelForgets`.
- `ReceiverInv` = `WindowInv` /\ `RecordInv` /\ the four safety properties. The masks
  and the records of what was delivered, deferred or is being delivered agree;
  an acknowledgement under way speaks of accepted messages only. Hence
  `DeliveredOnce`, `DeliveredInOrder`, `AcknowledgedIsReceived` and
  `DeferredHaveHope`. They assume
  `MaxAhead <= MaxChannelBitMask`: the sender is never further ahead of the
  receiver's newest serial than the masks are wide. That assumption is needed:
  beyond it the code processes what its comment says it rejects (7).
- `ChannelKeepsPromise`: the channel implements `ReliableDelivery` (safety part),
  step by step: `Dispatch` and the composed messages are `Offer`, the delivery
  steps are `Deliver` (the window may pass older messages in the same step),
  the rest is `Waive` or a stutter.

**Players** (`NetServerPlayersProofs`).
Every step is one of six (`StepShape`: a departure of some players, an entry, a
reconnection, a kick, a report, or the listener alone). `PlayersInv` is
`TypeOK /\ GameFollows /\ Capacity /\ KicksMatch`, inductive together; hence
`GameIsTold`, `NeverOverfull`, `KicksHitTheirPlayer`, for any reconnections.
`RoutingInv` adds that players, open channels and routes correspond one to one;
it assumes `"taken" \notin Roaming`, that no reconnection comes from an address of
another channel. Hence `PlayersAreRouted`, `NoChannelLeaks`,
`AddressesAreDistinct`. `FilesStay` is the action property `FiledUntilMoved` from the
same invariant: a step that takes a split list away takes it from an address
whose channels it closes, and no other player's channel has that address.

**Threads and sections** (`TransportLocksProofs`).
What has to be shown is about what a thread has not done yet: that the `Out`s
ahead of it match the sections it is in, whatever call-backs come between. A
`Context` is what a thread knows at a point of its handler: how often it has
entered each section (`lv`), in which of the maps each player may be (`st`), how
far the peer has been taken down (`ph`), whether the server is still there (`sv`).
`Does(t, a, i, b)`: the step `i` may be done in the context `a` and leads to `b`; it
holds what each step relies on (`Orders`, `Maps`, `Life`). `Walk(t, q, a, b)`: the
steps `q` lead from `a` to `b`. `Invariant` is `Types` with `Ready(t)` of each thread:
what it still has to do can be walked from the context it is in to one in which
it is in no section and the maps agree. It is inductive (`AlwaysReady`) because
the other threads do not change what a thread knows (`st` is known only inside
`usrCs`, `ph` only to the game's thread), and because a call-back, a loop or an
admission replaces one step of the walk by a walk between the same two contexts.
Hence, for any number of players:

- `SectionsAreLeft` (`Balanced`), whatever operations occur, the end of the server
  included: a walk ends with every section left.
- `CirclesAreKnown` (`CirclesKnown`), from the order of the sections that `Orders`
  keeps. It assumes that `"create"` and `"shutdown"` are not both in `Ops`: a player
  who joins during `~NetServer` makes a circle the property does not name (7).
- `MapsStayAgreed` (`MapsAgree`) and `TypeCorrect` (`TypeOK`) without `"shutdown"`, as
  in `locks_all`. What `Maps` says of the steps is needed for both: the depth of a
  section depends on which players a call-back still finds. `TypesHold` is all of
  `TypeOK` but the bound of the depth, with `"shutdown"`.
- `ThreadsEnd` (`NoThreadsAfter`), if nobody else keeps the pool (`~PoolShared`), as
  in `locks_stop`: otherwise the peer lives on.

**Message stream** (`MessageStreamProofs`).
`TypeCorrect` by `TInv`, which adds that queues and lists refer to fragments there
are. `Chains` says that a fragment is ordered behind an earlier one of its own
channel. `LInv` describes the whole way: how `SendMsg` cuts a message
(`Messages`, `Loop`); that what is guaranteed and of one class arrives in the order
it was sent (`Flow`); what a split list holds (`Splits`: the beginning of one
message, up to the fragment that arrived last); and that what an end has handed
over, followed by its list of received messages, is one line in which every
message stands behind the one it is ordered behind (`Lines`). Hence
`MessagesInOrder` (`OrderKept`), for any number of streams whose serials are mixed in
one list, and `MessagesAreWhole` (`WholeMessages`). The latter assumes that only
guaranteed messages are cut (`CutsGuaranteed`), which is what a client does, and
the server up to a `MaxSizeNonguaranteed` of 512 (7): a message that may be lost in
part is merged with another. `AssertionHolds`, from the same invariant: on a stream
that no cancellation tore, the client's assertion that a closing fragment has an
opener holds (NT:1235), and the server throws no fragment away.

**Session** (`GameSessionProofs`).
`IInv` is `TypeOK /\ Typed /\ RoleOnce`. `Typed` is what the server may rely on
of its clients: what is under way to it is a login, an answer about a file, a
state, a claim for an existing slot or an order. It is needed because the
handlers write what they read into the tables. Nothing else is assumed of the
clients, so the theorems hold whatever the displays do. `RoleOnce` is inductive
with it, because `OnClaim` gives up the one slot the player has. Hence
`TypeCorrect`, `OneSlotEach`, and from the same invariant, step by step,
`SlotsDefended`: five steps touch the slots (`Leave`, `OnClaim`, `OnOrder`,
`ChooseMission`, `LeaveDebriefing`), and of those `OnClaim` needs the argument, in
which `RoleOnce` identifies the slot that is given up with the player it is
given for.

**What a client knows of the slots** (`GameSessionProofs`, second part).
`RolesSeen` speaks of a client that has read everything; the invariant has to
speak of what is still under way. `Leads(t, q, u)`: whoever knows the slots `t` and
reads the messages `q` knows `u` afterwards (by what he knows after each of them;
facts about a fold over the queue would need induction). `SeenIn` says that what is
under way to a client leads it to the server's slots, if it has the mission's
header or the header is under way. `RInv` says so of everybody present, with
`IInv`, the types of what is sent (`SentTyped`) and of what clients know
(`HaveSlots`); `RolesLead` is that it holds always. A step of the server sends each
player messages that lead from the slots before it to the slots after it (`Tells`,
`Moves`), a client's step takes the first message away. Hence `RolesKnown`
(`RolesSeen`). It assumes `"restart" \notin Orders`, as `session_play` does: a restart
cancels what is under way, changes of slots with it, and `RolesSeen` fails (7).

**Who plays** (`GameSessionPlayerProofs`, `GameSessionPlayProofs`).
`PlayersMirror` speaks of a moment when nothing is under way between the server and
a player; `PInv` speaks of all the others. `View(p)` is a player as the server has
him (phase, what it takes him to be at, slot, copy of the file, login) next to his
client (its phase, the server's phase as it knows it, header, file, unit, login,
display). `Fitted(p)` says of it:

- `Core`: what the two may be at together. `OnServer` relates the phase to what the
  server takes the player to be at, `OnClient` what the client may have come to
  meanwhile, `OnScreen` which display may be on top of it.
- `Reports`: what the player has said and the server has not read yet goes through
  a mission in its order (`Rank`, `Ordered`), not behind what the server knows of him
  already (`Least`) and not beyond what his display can have said (`Bound`); and who
  has left the mission unknown to the server has said so (`Owes`, `Owed`). A
  DebriefingOK is the last thing said of a mission while that lasts, and the
  first when it is over. Without this part a stale answer could undo what the
  server had heard.
- `Led`: what is under way to the client leads it, message by message (`Way`), to
  where the server has the player (`Leaves`): into the briefing with a unit, into
  the play, into the debriefing. No message on the way finds it in a phase in
  which it would ignore it (`Takes`), which is the danger of a late slot: header,
  file, phase, world and briefing are put behind what is under way to him.
- `Told`, `Greeted`: when a phase, a header, a login or a question about the file may
  be under way at all, and how often.

Each operation is first taken as a change of the view alone (the lemmas named
`...Passes`, `...Reads`, `...Moves`), then as a step of the session (`...Fits`).
`PlayersFollow` is that `PInv` holds always, `PlayersPlay` that `PlayersMirror` does:
for any number of players, slots and clicks, whoever joins, leaves, or asks for a
slot in whatever phase, and whoever else lacks the island (`Staying` leaves the
`Worldless` ones out, as the property does). It speaks of players who have been there since before
the mission, as the property does; those who joined in progress come and go
beside them. `Session` is what is assumed of the constants:

- `Jip`, missions that may be joined. Otherwise the code does not keep
  `PlayersMirror`: a player who frees his slot as the briefing begins is taken to be
  playing and never told to (7).
- `Admins = {}`: a restart cancels queues, and an admin's client gives slots to players who
  have left (7).
- `LoadErrors \subseteq {"early"}`: a load fails before the bot has reported, which is
  all that the runs enable, too.
- `Cached = Players \/ MaxMissions <= 1`: with a second mission whose file some
  client lacks, an answer about the first counts for the second (7), and `PInv`, by
  which the server is right about the file, does not hold. `PlayersMirror` is then
  neither proved nor refuted (TLC finds nothing against it with one player, two
  missions and five clicks).

`GameSession_play.cfg` satisfies it, with everything that makes the property hard.

**Directory** (`ServerDirectoryProofs`).
`TypeCorrect` by itself, then `IInv` = `TypeOK` and for each server `OwnInv` =
`WaitInv /\ GoneInv /\ TokenInv`. `WaitInv`: a server that has missed no answer
has no call at work but the one it waits for (`OneCallEach`). `TokenInv` follows
the row's token through that call: the one the server knows, or none, until the
handler stores another, which is then in the answer. `GoneInv`: from the
removal to the answer and after it there is no row, if the removal found it. The lemma `Frame` says that a
step of another server, of the prober or of time leaves all this alone, so that
each handler is looked at for its own server only. Hence `StoppedStayGone` and
`RowsRecognised`, for any number of servers, calls and tokens.

**Only model-checked**: the liveness properties (`EventuallyDelivered`,
`EventuallyAcked`, `KickedGoes`, `ServerStops`, `EventuallyHanded`, `HolderPlays`,
`KeptListed`, `GoneUnlisted`; fairness and `ENABLED` are out of the prover's reach).
Every safety property of a passing run is a theorem, under the hypotheses named
above.

## 7. Findings

With a run that shows it: `locks_admission` (NT:580). `usrCs` then `poolLock` in an
admission, `poolLock` then `usrCs` in the call-back of a TERMINATE message: two
threads wait for each other for ever when a player is kicked off while another
one joins.

Seen while modelling, without a run of their own (most are hazards with a note):

- A duplicate CreatePlayer is looked for below the proposed number, a taken number
  is replaced by one above it (NT:587): the second copy of such a request
  destroys the player the first one created.
- `~NetServer` closes its peer and then calls `CancelAllMessages` (NT:2065), whose
  `getServerPeer()` creates another, with its threads.
- A cancellation while a cut message is under way lets its fragments mix with
  those of the next; the client asserts that a closing fragment has an opener,
  and goes on with a null pointer when it has not (NT:1235).
- Cancelling also drops a predecessor that was waiting to be repeated: a
  successor that has already left stays deferred until the window slides (NC:2434).
- An admin's client may give a slot to a player who has just left
  (`NetworkServerMsgOnMessage.cpp:2489-2708` looks for the slot, not for the
  player): nothing clears it, and the play never starts.
- A client without the mission's island fails in `PrepareGame`
  (`NetworkClientActions.cpp:103`, 139) and stays where it was
  (`NetworkClientOnMessage.cpp:1111`, 2146). Its display goes by the server's phase
  (`src/engine/Poseidon/UI/DisplayUISetup.cpp:1619`) and reports it ready for
  the briefing and the play; the server takes the player to be playing, and his
  client ignores that the play starts (2202). With `Worldless` players not excepted,
  `PlayersMirror` fails.
- A restart cancels the server's queues (`NetworkServerMission.cpp:1208`), and with
  them slots, headers and states of players who are just connecting: `RolesSeen`
  fails then.
- A client in a mission that may be joined takes a real way back to the lobby,
  while it loads, for a leftover of its joining (`NetworkClientOnMessage.cpp:2083`).
- A client that reads Play and Debriefing in one frame of its get-ready display
  goes to the wait display and never reports DebriefingOK; without an admin the
  debriefing then waits until it leaves.
- In a mission that nobody may join in progress, a player who frees his slot while
  the start of the briefing is under way to him goes into the briefing and
  launches all the same; the server takes him to be playing, but does not tell him
  that the play starts (`NetworkServerMission.cpp:1318` tells who has a slot).
  `PlayersMirror` fails for `Jip = FALSE`. Where joining is allowed, `SetGameState`
  makes a late joiner of him.
- The answer of a client to the header of one mission counts for the next
  (`NetworkServerMsgOnMessage.cpp:340`): the file is not sent, and the gate lets
  the player through.
- So may his report of a briefing: it reaches the server in the lobby of the next
  mission, and a slot he then gets late looks to it like one of a player who has
  missed nothing (`NetworkServerMsgOnMessage.cpp:2672`). `HolderPlays` fails with two
  missions for that reason.
- A DebriefingOK that overtakes the server's own Debriefing is undone by it
  (`NetworkServerMission.cpp:1364`): the player has to press the button again
  (`PressAgain`), or the debriefing waits. Pressed twice, the second answer is read
  in the lobby, where it counts as ready (it is greater than PrepareOK).
- `inputStatistics` says "reject anything outside a strictly wider window"
  (NC:606) but returns nothing, so `processData` hands a packet outside the span to
  the user, unmarked. It takes an outage of a whole window; no property here asks
  for the rejection, and `ExactlyOnce` fails as soon as
  `MaxAhead > MaxChannelBitMask`.
- A refused reconnection has given up the old route and changed the address
  (NC:387): two channels share an address (`Roaming = {"taken"}` violates
  `DistinctAddresses`). A granted one leaves the split lists behind (NT:714).
  No client of this repository sends the request any more.
- More circles of waiting: a reconnection against the sender's round (the
  operation `"reconnect"`), `~NetServer` joining
  a listener that waits for `poolLock` (`"create"` with `"shutdown"`),
  `CancelAllMessages` against the call-back of a kick (`"cancel"` with `"kick"`).
- `finishDestroyPlayer` uses the pool without `poolLock` (NT:2279), and the map of
  routes is read and changed without the peer's section (`Legacy/NetPeer.cpp:663`);
  both are taken as one step here.
- The listener uses the raw channel of a new player after it gave up `usrCs`
  (NT:679); the life of channel objects is below these models.
- `register_server` puts the public address into the id of a row
  (`src/mserver/MasterService/src/http.rs:215`), the server removes itself by the id
  it knows of (`MasterServerPublisher.cpp:104`). Where they differ its row outlives it
  until it is too old, and a 404 is reported as a success
  (`MasterServerServiceClient.hpp:390`). `StoppedGone` is of the other servers;
  `GoneUnlisted` is of all.
- `NetServer::SendMsg` leaves the wrong section (`sndCs`) on an early return
  (NT:2602) that cannot happen, since `newMessage` never returns null. The model
  does not follow it.
- The server cuts unguaranteed messages, too (NT:2564); the closing fragment may
  arrive alone. It takes a configured `MaxSizeNonguaranteed` above 512.

## 8. What is not modelled, and why

- The payloads, formats and wording of messages: data.
- Of the channel: bandwidth and latency estimation, statistics, broadcast mode and
  the control channel, the channel's own reconnection (it is in
  `NetServerPlayers` and `TransportLocks`), a dropped connection.
- Of the transport: session enumeration, `GetURL`, voice, raw magic messages, the message
  pool, the client's half of the handshake (planned).
- Of the peer: sockets and their re-creation, leaf sections in which nothing else
  is entered.
- Of the session: votes, the locked session, NO_PLAYER and disabled AI, squads,
  logout and the voted admin, the automatic assignment of tests, several missions
  (more than one is beyond five minutes), the replication of objects. A load that
  fails late is an outcome of `Load` that no run enables.
- Of the transfer: segments. They are ordered messages of one channel; what could
  go wrong is in the channel and in the gate.
- Of the directory: samples and sessions (statistics), the other filters of the
  list, servers with a password (never probed), streaks of failures
  (`UNREACHABLE_AFTER_FAILURES` is one) and the prober's outage rule with several
  servers, rate limits. The database's statements are atomic, as it promises, and do
  not fail. A handler's `now`, read before its first await, is the time it writes
  the row. A write of the token's file that fails silently
  (`MasterServerServiceClient.cpp:1188`) is followed by a crash here, and not by an
  orderly end and a later start.
- Integrity checks, custom assets, authentication tables, the enumeration of
  sessions: small sequential tables, or reading only.
- Simulation, AI, evaluator, graphics, audio, input, the rest of the user
  interface, file formats, tools, vendored libraries: sequential or numeric code
  whose state is out of a model checker's reach or whose behaviour unit tests
  reach well. They are by far the larger part of the repository's half a million
  lines, so that the share of lines these models cover is small and will stay so:
  they cover the part in which the order of events decides.

## 9. The plan

Written, in this order of importance: channel, its abstract promise and proofs;
players and proofs; threads and sections; message stream; session and proofs;
directory and proofs; proofs of the threads, of the stream, of the slots a
client knows, and of who plays. Worth adding, most valuable first:

1. Two missions in a row: what a player says of the first and the server reads in
   the second (7). `Reports` follows it for sessions without file transfer; the
   answers about files, and `HolderPlays`, are open.
2. The depth of a section during `~NetServer` as a theorem.
3. `JoinHandshake`: `NetClient::Init` repeats its request against
   `NetServerPlayers`; late answers of an earlier attempt. Abstract
   specification: one player per client.
4. Departures in `MessageStream`: a message in the list whose player has left
   (NT:2788).
5. `MessagePool`: recycling against references held by queues and call-backs.
6. The download worker and the task pool.

Composed questions that one run answers are preferred to a run per module.
