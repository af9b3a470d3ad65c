--------------------------- MODULE TransportLocks ---------------------------
(***************************************************************************)
(* The threads and the locks of a server's transport.  A NetPeerUDP runs a *)
(* listener (udpListen) and a sender (udpSend); the game's thread is the   *)
(* third.  They share recursive critical sections:                         *)
(*   usr    NetServer::usrCs, the user map          rcv    NetServer::rcvCs *)
(*   pool   poolLock, the pool and its peers        peer   NetPeerUDP       *)
(*   and one of each channel; a player stands for his channel's.            *)
(* What a thread does is a sequence of sections entered and left, of the    *)
(* changes of state between them, and of the call-backs those lead to.      *)
(* (What NetServerPlayers and NetChannel take as one step is taken apart    *)
(* here; what they say of the state is left out.  NetServer::sndCs, the     *)
(* control channel's and the message pool's sections are left out: nothing  *)
(* is entered inside them.)                                                 *)
(***************************************************************************)
EXTENDS Integers, Sequences

CONSTANTS
    Players,
    Nobody,
    AtStart,     \* the players there are in the beginning
    Ops,         \* the operations that occur
    PoolShared,  \* a NetSessionEnum or NetClient keeps the pool alive
    Patient      \* DESTRUCT_WAIT is long enough for the TERMINATE messages

Threads == {"listener", "sender", "main"}
Locks   == {"usr", "pool", "peer", "rcv"} \cup Players

ASSUME LocksAssumption ==
    /\ Nobody \notin Threads
    /\ Players \cap {"usr", "pool", "peer", "rcv"} = {}
    /\ AtStart \subseteq Players
    /\ Ops \subseteq {"create", "reconnect", "destroy", "kick", "drop", "cancel", "shutdown"}
    /\ PoolShared \in BOOLEAN /\ Patient \in BOOLEAN

VARIABLES
    owner, depth,     \* of each lock: the thread inside, and how many times
    todo,             \* what a thread still has to do in its present handler
    users,            \* NetServer::users
    opened, routed,   \* the channels that are open; those in NetPeerUDP::chMap
    kicks,            \* the players for whom a TERMINATE message is queued
    wanted, running,  \* NetPeerUDP::listen and sending; the threads there are
    peer,             \* serverPeer # nullptr
    server            \* _server # nullptr

locks    == <<owner, depth>>
channels == <<users, opened, routed, kicks>>
peers    == <<wanted, running, peer, server>>
vars     == <<locks, todo, channels, peers>>

-----------------------------------------------------------------------------
(* What a thread can have to do.                                           *)
In(l)           == <<"in", l>>
Out(l)          == <<"out", l>>
Do(what)        == <<what>>
To(what, p)     == <<what, p>>
Within(l, body) == <<In(l)>> \o body \o <<Out(l)>>
Use(l)          == Within(l, <<>>)
Each(what, S)   == <<"each", what, S>>

(* finishDestroyPlayer, and destroyPlayerCallback of a TERMINATE message.  *)
FinishDestroy(p)   == Within("usr", <<To("remove", p)>>)
DestroyCallback(p) == Within("pool", IF server THEN FinishDestroy(p) ELSE <<>>)

(* CancelAllMessages asks for the server's peer, which creates one if there
   is none.                                                                  *)
CancelMessages == Within("pool", <<Do("serverPeer")>>)

(* NetPeerUDP::close.                                                      *)
ClosePeer == Within("peer", <<Do("stop")>>)
             \o <<To("join", "sender"), To("join", "listener")>> \o Use("peer")

-----------------------------------------------------------------------------
(* The handlers.  A packet is looked up in chMap under the peer's lock.    *)

Create(p)    == Use("peer") \o <<In("usr"), In("pool"), To("admit", p)>>
Reconnect(p) == Use("peer") \o Within("usr", <<To("reconnect", p)>>) \o Use(p)
Destroy(p)   == Use("peer") \o Use(p) \o Within("usr", FinishDestroy(p))
Data(p)      == Use("peer") \o Use(p) \o Use("rcv")
Check(p)     == Within("peer", Use(p))          \* checkConnectivity

Transmit   == Within("peer", <<Do("prepare")>>)

Kick(p)    == Within("usr", <<To("kick", p)>>)
Drop(p)    == Within("usr", Use(p) \o FinishDestroy(p))
Send(p)    == Within("usr", Use(p))            \* newMessage never fails
ProcessPlayers(calls) == Within("usr", calls)   \* the game's call-backs inside
Receive    == Within("rcv", Use("usr"))
Shutdown   == Within("usr", <<Do("kickAll")>>) \o <<Do("sleep")>>
              \o Within("pool", ClosePeer \o Use("peer") \o <<Do("dispose")>>)
              \o CancelMessages \o Within("pool", <<Do("gone")>>)

(* A thread turns to its next handler.                                     *)
Turn(t, code) ==
    /\ t \in running \cup {"main"} /\ todo[t] = <<>>
    /\ todo' = [todo EXCEPT ![t] = code]
    /\ UNCHANGED <<locks, channels, peers>>

Listen ==
    /\ "listener" \in wanted
    /\ \/ \E p \in routed : Turn("listener", Data(p)) \/ Turn("listener", Check(p))
       \/ \E p \in routed : "destroy" \in Ops /\ server /\ Turn("listener", Destroy(p))
       \/ \E p \in users : "reconnect" \in Ops /\ server /\ Turn("listener", Reconnect(p))
       \/ \E p \in Players : "create" \in Ops /\ server /\ Turn("listener", Create(p))

Dispatch == "sender" \in wanted /\ Turn("sender", Transmit)

Play ==
    /\ server
    /\ \/ \E p \in users : Turn("main", Send(p))
       \/ \E p \in users : "kick" \in Ops /\ Turn("main", Kick(p))
       \/ \E p \in users : "drop" \in Ops /\ Turn("main", Drop(p))
       \/ \E p \in users : Turn("main", ProcessPlayers(Send(p)))
       \/ \E p, q \in users : "kick" \in Ops /\ Turn("main", ProcessPlayers(Send(p) \o Kick(q)))
       \/ Turn("main", Receive)
       \/ "cancel" \in Ops /\ Turn("main", CancelMessages)
       \/ "shutdown" \in Ops /\ Turn("main", Shutdown)

(* udpListen and udpSend look at their flags between two handlers.         *)
Exit(t) ==
    /\ t \in running \ wanted /\ todo[t] = <<>>
    /\ running' = running \ {t}
    /\ UNCHANGED <<locks, todo, channels, wanted, peer, server>>

-----------------------------------------------------------------------------
(* The steps of a handler.                                                 *)
Instr(t)          == Head(todo[t])
Is(t, what)       == todo[t] # <<>> /\ Head(todo[t])[1] = what
Continue(t, code) == todo' = [todo EXCEPT ![t] = code \o Tail(@)]

Enter(t) ==
    /\ Is(t, "in")
    /\ LET l == Instr(t)[2]
       IN /\ owner[l] \in {Nobody, t}
          /\ owner' = [owner EXCEPT ![l] = t]
          /\ depth' = [depth EXCEPT ![l] = @ + 1]
    /\ Continue(t, <<>>)
    /\ UNCHANGED <<channels, peers>>

(* Mutant: the section is given up at the first leave().                   *)
LeaveAtOnce(t) ==
    /\ Is(t, "out")
    /\ LET l == Instr(t)[2]
       IN /\ depth' = [depth EXCEPT ![l] = @ - 1]
          /\ owner' = [owner EXCEPT ![l] = Nobody]
    /\ Continue(t, <<>>)
    /\ UNCHANGED <<channels, peers>>

Leave(t) ==
    /\ Is(t, "out")
    /\ LET l == Instr(t)[2]
       IN /\ depth' = [depth EXCEPT ![l] = @ - 1]
          /\ owner' = [owner EXCEPT ![l] = IF depth[l] = 1 THEN Nobody ELSE @]
    /\ Continue(t, <<>>)
    /\ UNCHANGED <<channels, peers>>

(* finishDestroyPlayer under usrCs: a number no longer there is ignored.   *)
RemoveUser(t) ==
    /\ Is(t, "remove")
    /\ LET p == Instr(t)[2]
       IN /\ users' = users \ {p}
          /\ Continue(t, IF p \in users THEN <<To("close", p)>> ELSE <<>>)
    /\ UNCHANGED <<locks, opened, routed, kicks, peers>>

(* Mutant: the route is given up under the peer's lock, as it is registered, but
   before the channel's is left.                                             *)
CloseInside(t) ==
    /\ Is(t, "close")
    /\ LET p == Instr(t)[2]
       IN /\ opened' = opened \ {p}
          /\ Continue(t, IF p \in opened
                         THEN Within(p, <<To("cancel", p)>> \o Within("peer", <<To("unroute", p)>>))
                         ELSE <<>>)
    /\ UNCHANGED <<locks, users, routed, kicks, peers>>

(* NetChannelBasic::close: the messages are cancelled under the channel's
   lock, then the channel leaves chMap, without the peer's.                  *)
Close(t) ==
    /\ Is(t, "close")
    /\ LET p == Instr(t)[2]
       IN /\ opened' = opened \ {p}
          /\ Continue(t, IF p \in opened
                         THEN Within(p, <<To("cancel", p)>>) \o <<To("unroute", p)>> \o Use(p)
                         ELSE <<>>)
    /\ UNCHANGED <<locks, users, routed, kicks, peers>>

Cancel(t) ==
    /\ Is(t, "cancel")
    /\ LET p == Instr(t)[2]
       IN /\ kicks' = kicks \ {p}
          /\ Continue(t, IF p \in kicks THEN DestroyCallback(p) ELSE <<>>)
    /\ UNCHANGED <<locks, users, opened, routed, peers>>

Unroute(t) ==
    /\ Is(t, "unroute")
    /\ routed' = routed \ {Instr(t)[2]}
    /\ Continue(t, <<>>)
    /\ UNCHANGED <<locks, users, opened, kicks, peers>>

Register(t) ==
    /\ Is(t, "register")
    /\ routed' = routed \cup {Instr(t)[2]}
    /\ Continue(t, <<>>)
    /\ UNCHANGED <<locks, users, opened, kicks, peers>>

(* Mutants: the player is put into the map after the locks are left; a duplicate
   leaves only one of them.                                                  *)
Admission(t, entered, refused) ==
    /\ Is(t, "admit")
    /\ LET p == Instr(t)[2]
       IN \/ /\ p \notin routed
             /\ Continue(t, Within("peer", <<To("register", p)>>) \o Within(p, <<To("open", p)>>) \o entered)
          \/ Continue(t, refused)
          \/ /\ p \in routed
             /\ Continue(t, FinishDestroy(p) \o <<Out("pool"), Out("usr"), In("usr"), In("pool"), To("admit", p)>>)
    /\ UNCHANGED <<locks, channels, peers>>
AdmitPutLate(t) == Admission(t, <<Out("pool"), Out("usr"), To("put", Instr(t)[2])>>, <<Out("pool"), Out("usr")>>)
AdmitKeepsUsr(t) == Admission(t, <<To("put", Instr(t)[2]), Out("pool"), Out("usr")>>, <<Out("pool")>>)

(* CreatePlayer with usrCs and poolLock held: a channel already there is a
   duplicate's, or an old player's who is destroyed before the locks are given
   up for the pause.                                                         *)
Admit(t) ==
    /\ Is(t, "admit")
    /\ LET p       == Instr(t)[2]
           refused == <<Out("pool"), Out("usr")>>
       IN \/ /\ p \notin routed
             /\ Continue(t, Within("peer", <<To("register", p)>>) \o Within(p, <<To("open", p)>>)
                            \o <<To("put", p)>> \o refused \o Use(p))
          \/ Continue(t, refused)
          \/ /\ p \in routed
             /\ Continue(t, FinishDestroy(p) \o refused \o <<In("usr"), In("pool"), To("admit", p)>>)
    /\ UNCHANGED <<locks, channels, peers>>

Open(t) ==
    /\ Is(t, "open")
    /\ opened' = opened \cup {Instr(t)[2]}
    /\ Continue(t, <<>>)
    /\ UNCHANGED <<locks, users, routed, kicks, peers>>

Put(t) ==
    /\ Is(t, "put")
    /\ users' = users \cup {Instr(t)[2]}
    /\ Continue(t, <<>>)
    /\ UNCHANGED <<locks, opened, routed, kicks, peers>>

(* NetChannelBasic::reconnect gives the old route up and asks the peer for the
   new one with its own lock held.                                           *)
Reroute(t) ==
    /\ Is(t, "reconnect")
    /\ LET p == Instr(t)[2]
       IN Continue(t, IF p \in users
                      THEN Within(p, <<To("unroute", p)>> \o Within("peer", <<To("register", p)>>))
                      ELSE <<>>)
    /\ UNCHANGED <<locks, channels, peers>>

(* udpSend holds the peer's lock while it asks the channels for a message, sends
   it, and runs its call-back.                                               *)
Prepare(t) ==
    /\ Is(t, "prepare")
    /\ \/ \E p \in routed : Continue(t, Use(p))
       \/ routed = {} /\ Continue(t, <<>>)
    /\ UNCHANGED <<locks, channels, peers>>

(* Mutant: the call-back is forgotten.                                      *)
SendKickSilently(t) ==
    /\ Is(t, "prepare")
    /\ \E p \in routed \cap kicks : kicks' = kicks \ {p} /\ Continue(t, Use(p))
    /\ UNCHANGED <<locks, users, opened, routed, peers>>

SendKick(t) ==
    /\ Is(t, "prepare")
    /\ \E p \in routed \cap kicks :
          kicks' = kicks \ {p} /\ Continue(t, Use(p) \o DestroyCallback(p))
    /\ UNCHANGED <<locks, users, opened, routed, peers>>

QueueKick(t) ==
    /\ Is(t, "kick")
    /\ LET p == Instr(t)[2]
       IN /\ kicks' = kicks \cup ({p} \cap users)
          /\ Continue(t, IF p \in users THEN Use(p) ELSE <<>>)
    /\ UNCHANGED <<locks, users, opened, routed, peers>>

KickAll(t) ==
    /\ Is(t, "kickAll")
    /\ kicks' = kicks \cup users
    /\ Continue(t, <<Each("use", users)>>)
    /\ UNCHANGED <<locks, users, opened, routed, peers>>

(* A loop over players or channels, in an order of its own.                *)
Turns(what, p) == CASE what = "use"    -> Use(p)
                    [] what = "close"  -> <<To("close", p)>>
                    [] what = "cancel" -> Within(p, <<To("cancel", p)>>)
Iterate(t) ==
    /\ Is(t, "each")
    /\ LET what == Instr(t)[2]
           S    == Instr(t)[3]
       IN \/ S = {} /\ Continue(t, <<>>)
          \/ \E p \in S : Continue(t, Turns(what, p) \o <<Each(what, S \ {p})>>)
    /\ UNCHANGED <<locks, channels, peers>>

-----------------------------------------------------------------------------
(* The life of the peer.                                                   *)
Sleep(t) ==
    /\ Is(t, "sleep")
    /\ Patient => kicks = {} /\ todo["sender"] = <<>>
    /\ Continue(t, <<>>)
    /\ UNCHANGED <<locks, channels, peers>>

(* Mutant: only the listener is told to stop.                              *)
StopListener(t) ==
    /\ Is(t, "stop")
    /\ wanted' = {"sender"}
    /\ Continue(t, <<Each("close", routed)>>)
    /\ UNCHANGED <<locks, channels, running, peer, server>>

Stop(t) ==
    /\ Is(t, "stop")
    /\ wanted' = {}
    /\ Continue(t, <<Each("close", routed)>>)
    /\ UNCHANGED <<locks, channels, running, peer, server>>

Join(t) ==
    /\ Is(t, "join")
    /\ Instr(t)[2] \notin running
    /\ Continue(t, <<>>)
    /\ UNCHANGED <<locks, channels, peers>>

Dispose(t) ==
    /\ Is(t, "dispose")
    /\ peer' = FALSE
    /\ Continue(t, <<>>)
    /\ UNCHANGED <<locks, channels, wanted, running, server>>

(* getServerPeer creates a peer, and with it its threads, if there is none. *)
ServerPeer(t) ==
    /\ Is(t, "serverPeer")
    /\ peer' = TRUE
    /\ wanted' = IF peer THEN wanted ELSE {"listener", "sender"}
    /\ running' = running \cup (wanted' \ wanted)
    /\ Continue(t, Within("peer", <<Each("cancel", routed)>>))
    /\ UNCHANGED <<locks, channels, server>>

(* Mutant: the pool is not checked.                                        *)
GoneUnchecked(t) ==
    /\ Is(t, "gone")
    /\ server' = FALSE
    /\ Continue(t, <<>>)
    /\ UNCHANGED <<locks, channels, wanted, running, peer>>

(* setServer(nullptr) and checkPool, which destroys a pool nobody uses.    *)
Gone(t) ==
    /\ Is(t, "gone")
    /\ server' = FALSE
    /\ Continue(t, IF PoolShared \/ ~peer THEN <<>> ELSE ClosePeer \o <<Do("dispose")>>)
    /\ UNCHANGED <<locks, channels, wanted, running, peer>>

Step(t) ==
    \/ Enter(t) \/ Leave(t)
    \/ RemoveUser(t) \/ Close(t) \/ Cancel(t) \/ Unroute(t) \/ Register(t)
    \/ Admit(t) \/ Open(t) \/ Put(t) \/ Reroute(t)
    \/ Prepare(t) \/ SendKick(t) \/ QueueKick(t) \/ KickAll(t) \/ Iterate(t)
    \/ Sleep(t) \/ Stop(t) \/ Join(t) \/ Dispose(t) \/ ServerPeer(t) \/ Gone(t)

Init ==
    /\ owner = [l \in Locks |-> Nobody] /\ depth = [l \in Locks |-> 0]
    /\ todo = [t \in Threads |-> <<>>]
    /\ users = AtStart /\ opened = AtStart /\ routed = AtStart /\ kicks = {}
    /\ wanted = {"listener", "sender"} /\ running = wanted
    /\ peer = TRUE /\ server = TRUE

Next ==
    \/ Listen \/ Dispatch \/ Play
    \/ \E t \in Threads : Step(t) \/ Exit(t)

(* Each thread runs, no lock is refused to one thread for ever while the others
   take turns in it, and the bandwidth of a channel allows an urgent message in
   the end.                                                                  *)
Fairness ==
    /\ \A t \in Threads : SF_vars(Step(t)) /\ WF_vars(Exit(t))
    /\ WF_vars(Dispatch) /\ SF_vars(SendKick("sender"))

Spec == Init /\ [][Next]_vars /\ Fairness
-----------------------------------------------------------------------------
TypeOK ==
    /\ owner \in [Locks -> Threads \cup {Nobody}]
    /\ depth \in [Locks -> 0 .. 4]
    /\ \A l \in Locks : owner[l] = Nobody <=> depth[l] = 0
    /\ users \subseteq Players /\ opened \subseteq Players
    /\ routed \subseteq Players /\ kicks \subseteq Players
    /\ wanted \subseteq Threads \ {"main"} /\ running \subseteq Threads \ {"main"}
    /\ peer \in BOOLEAN /\ server \in BOOLEAN

(* A thread is between two handlers only with every section left: every enter()
   has its leave() (PoCriticalSection).                                      *)
Balanced == \A t \in Threads : todo[t] = <<>> => \A l \in Locks : owner[l] # t

(* Threads of which each waits for what the next one holds, or for its end, are
   of two kinds only: one of them is in the call-back of a TERMINATE message, which
   asks for poolLock and usrCs with the peer's or a channel's section held, or it
   is the listener in a reconnection, which asks for the peer's with a channel's
   held.  Nothing else that the threads do can stop them.                    *)
WaitsFor(t) ==
    IF Is(t, "in") THEN {owner[Instr(t)[2]]} \ {Nobody, t}
    ELSE IF Is(t, "join") THEN {Instr(t)[2]} \cap running
    ELSE {}
Holds(t)       == {l \in Locks : owner[l] = t}
CallsBack(t)   == Instr(t) \in {In("usr"), In("pool")} /\ Holds(t) \cap ({"peer"} \cup Players) # {}
Reconnects(t)  == t = "listener" /\ Instr(t) = In("peer") /\ Holds(t) \cap Players # {}
CirclesKnown ==
    \A S \in (SUBSET Threads) \ {{}} :
        (\A t \in S : WaitsFor(t) \cap S # {}) => \E t \in S : CallsBack(t) \/ Reconnects(t)

(* Who enters usrCs finds a player for every open channel and a route to it. *)
MapsAgree == server /\ owner["usr"] = Nobody => users = opened /\ opened = routed

(* The listener looks at its flag again and again (udpListen: "check it at least
   each 50ms").                                                              *)
ListenerReturns == []<>(todo["listener"] = <<>>)

(* A player who was kicked off is destroyed, though nobody but the call-back of
   the TERMINATE message does it.                                            *)
KickedGoes == \A p \in Players : p \in kicks ~> p \notin users

(* ~NetServer ends, and no thread of the peer outlives it.                 *)
ServerStops    == todo["main"] # <<>> ~> todo["main"] = <<>>
NoThreadsAfter == ~server /\ todo["main"] = <<>> => running = {}
=============================================================================
