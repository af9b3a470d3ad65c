--------------------------- MODULE MessageStream ---------------------------
(***************************************************************************)
(* The stream of user messages above the channels (NetServer and NetClient *)
(* in Network/NetTransportNet.cpp).  SendMsg cuts a long message into      *)
(* fragments that travel as messages of their own; the receive routines    *)
(* collect the fragments of each class, put the composite into the list of *)
(* received messages, and ProcessUserMessages hands that list to the game. *)
(*                                                                         *)
(* A stream is one direction of one channel.  The streams of ServerSends   *)
(* go from the server to a client of their own, all others to the server,  *)
(* which has one list for all of them.  Of the channel the module takes    *)
(* for granted what NetChannel shows: a message arrives at most once, an   *)
(* ordered one behind the one it is ordered behind.                        *)
(*                                                                         *)
(* Fragments are numbered over all streams in the order they are           *)
(* dispatched; a message is known by its first fragment.                   *)
(***************************************************************************)
EXTENDS Naturals, Sequences, SequencesExt

CONSTANTS
    Streams,
    ServerSends,   \* the streams from the server
    Requests,      \* what SendMsg is asked for: [on, class, size], the size counted
                   \* in fragments of NetTransportReliableFragmentPayload bytes
    N,             \* bound: fragments
    MaxCancels     \* bound: calls of CancelAllMessages

None    == 0
Classes == {"vim", "urgent", "plainUrgent", "common"}
Kinds   == {"vim", "urgent", "common"}
Server  == "server"
Ends    == {Server} \cup ServerSends
End(s)  == IF s \in ServerSends THEN s ELSE Server

ASSUME StreamsAssumption ==
    /\ ServerSends \subseteq Streams /\ Server \notin Streams
    /\ Requests \subseteq [on : Streams, class : Classes, size : Nat \ {0}]
    /\ N \in Nat /\ MaxCancels \in Nat

VARIABLES
    frags,                \* all fragments: what their headers say
    lastVIM, lastUrgent,  \* of each channel
    sending,              \* the rest of the message SendMsg is cutting
    where,                \* "queued", "flying", "arrived", "lost" or "dropped"
    serial, serialOf,     \* the next serial of a stream; those given out
    split,                \* m_split and m_splitUrgent, split and splitUrgent
    received,             \* of each end: composites, in the order of their list
    handed,               \* of each end: what the game was given
    cancels,
    torn,                 \* history: the streams on which CancelAllMessages found a cut
                          \* message under way
    before                \* history: how many fragments there were at its last call

senderVars   == <<frags, lastVIM, lastUrgent, sending>>
channelVars  == <<where, serial, serialOf>>
receiverVars == <<split, received, handed>>
cancelVars   == <<cancels, torn, before>>
vars == <<senderVars, channelVars, receiverVars, cancelVars>>

Frags == 1 .. Len(frags)
Idle  == [left |-> 0, msg |-> None, class |-> "vim"]
-----------------------------------------------------------------------------
(* Sending.                                                                *)

(* A message of the server that is cut has MSG_PART_FLAG even when it is not
   guaranteed, and so is ordered behind the last guaranteed one, which makes it
   guaranteed (setOrderedPrevious); the client cuts guaranteed ones only.     *)
Pieces(r) == IF r.on \in ServerSends \/ r.class \in {"vim", "urgent"} THEN r.size ELSE 1
KindOf(s, class, part) ==
    CASE class \in {"vim", "urgent"} -> class
      [] s \in ServerSends /\ class = "plainUrgent" /\ lastUrgent[s] # None -> "urgent"
      [] s \in ServerSends /\ class = "common" /\ part /\ lastVIM[s] # None -> "vim"
      [] OTHER -> "common"
Urgent(s, class) == class = "urgent" \/ (s \in ServerSends /\ class = "plainUrgent")

(* Mutant of Previous: every fragment is ordered behind the end of the message
   before, as setOrderedPrevious called once per message would do it.        *)
PreviousMessage(s, kind) ==
    LET last == IF kind = "vim" THEN lastVIM[s] ELSE lastUrgent[s]
    IN IF kind = "common" \/ last = None THEN None
       ELSE IF frags[last].msg = sending[s].msg THEN frags[sending[s].msg].pred ELSE last
Previous(s, kind) == CASE kind = "vim"    -> lastVIM[s]
                       [] kind = "urgent" -> lastUrgent[s]
                       [] OTHER           -> None

(* One turn of the loop of SendMsg: a fragment is composed and dispatched.   *)
Dispatch(s, class, msg, part, left) ==
    LET id   == Len(frags) + 1
        kind == KindOf(s, class, part)
    IN /\ id <= N
       /\ frags' = Append(frags, [on |-> s, msg |-> msg, part |-> part, closing |-> part /\ left = 0,
                                  kind |-> kind, urgent |-> Urgent(s, class),
                                  pred |-> Previous(s, kind)])
       /\ where' = Append(where, "queued") /\ serialOf' = Append(serialOf, None)
       /\ lastVIM' = IF kind = "vim" THEN [lastVIM EXCEPT ![s] = id] ELSE lastVIM
       /\ lastUrgent' = IF kind = "urgent" THEN [lastUrgent EXCEPT ![s] = id] ELSE lastUrgent
       /\ sending' = [sending EXCEPT ![s] = IF left = 0 THEN Idle
                                            ELSE [left |-> left, msg |-> msg, class |-> class]]
       /\ UNCHANGED <<serial, receiverVars, cancelVars>>

SendMsg(r) ==
    /\ \A s \in Streams : sending[s] = Idle      \* bound: one loop at a time
    /\ Len(frags) + Pieces(r) <= N
    /\ Dispatch(r.on, r.class, Len(frags) + 1, Pieces(r) > 1, Pieces(r) - 1)

SendNext(s) ==
    /\ sending[s] # Idle
    /\ Dispatch(s, sending[s].class, sending[s].msg, TRUE, sending[s].left - 1)

-----------------------------------------------------------------------------
(* The channel.                                                            *)

SameQueue(i, j) == /\ frags[i].on = frags[j].on /\ frags[i].urgent = frags[j].urgent
                   /\ (frags[i].kind = "vim") = (frags[j].kind = "vim")

(* The sender gives the oldest of a queue its serial.                      *)
Leave(i) ==
    LET s == frags[i].on
    IN /\ where[i] = "queued"
       /\ \A j \in 1 .. i - 1 : SameQueue(i, j) => where[j] # "queued"
       /\ where' = [where EXCEPT ![i] = "flying"]
       /\ serialOf' = [serialOf EXCEPT ![i] = serial[s]]
       /\ serial' = [serial EXCEPT ![s] = @ + 1]
       /\ UNCHANGED <<senderVars, receiverVars, cancelVars>>

(* Messages that are not guaranteed are lost, or given up before they leave. *)
Lose(i) ==
    /\ frags[i].kind = "common" /\ where[i] \in {"queued", "flying"}
    /\ where' = [where EXCEPT ![i] = "lost"]
    /\ UNCHANGED <<senderVars, serial, serialOf, receiverVars, cancelVars>>

InTurn(i) == frags[i].pred # None => where[frags[i].pred] = "arrived"

UnderWay(m) ==
    LET parts == {i \in Frags : frags[i].msg = m}
    IN /\ frags[m].part
       /\ \E i \in parts : where[i] \in {"flying", "arrived"}
       /\ \E i \in parts : where[i] # "arrived"

(* cancelAllMessages forgets the messages the next ones would be ordered behind.
   Mutant: it does not.                                                      *)
KeepOrder == UNCHANGED <<lastVIM, lastUrgent>>
ForgetOrder ==
    /\ lastVIM' = [s \in Streams |-> IF s \in ServerSends THEN None ELSE lastVIM[s]]
    /\ lastUrgent' = [s \in Streams |-> IF s \in ServerSends THEN None ELSE lastUrgent[s]]

(* CancelAllMessages (the server leaves a mission) drops what waits in the queues
   of all its channels, a fragment that waits to be repeated included.         *)
CancelAllMessages ==
    LET theirs == {i \in Frags : frags[i].on \in ServerSends}
    IN /\ cancels < MaxCancels
       /\ cancels' = cancels + 1
       /\ \A s \in ServerSends : sending[s] = Idle
       /\ \E repeats \in SUBSET {i \in theirs : where[i] = "flying"} :
             where' = [i \in Frags |-> IF i \in repeats \/ (i \in theirs /\ where[i] = "queued")
                                       THEN "dropped" ELSE where[i]]
       /\ ForgetOrder
       /\ before' = Len(frags)
       /\ torn' = torn \cup {frags[m].on : m \in {i \in theirs : UnderWay(frags[i].msg)}}
       /\ UNCHANGED <<frags, sending, serial, serialOf, receiverVars>>

-----------------------------------------------------------------------------
(* Receiving.                                                              *)

(* Mutant: the composite is not given the header of its last fragment (setFrom). *)
CompositeBare(parts) == [parts |-> parts, serial |-> None]
Composite(parts) == [parts |-> parts, serial |-> serialOf[Last(parts)]]

(* Mutant: a newer message goes to the front.                              *)
InsertReceivedFirst(list, m) == <<m>> \o list

(* insertReceived: before the first of the list that is not older, from the
   second one on.                                                          *)
InsertReceived(list, m) ==
    IF list = <<>> \/ m.serial < Head(list).serial THEN <<m>> \o list
    ELSE LET ahead == {k \in 1 .. Len(list) :
                           \A j \in 2 .. k : list[j].serial < m.serial}
             last  == CHOOSE k \in ahead : \A j \in ahead : j <= k
         IN InsertAt(list, last + 1, m)

Insert(s, parts) ==
    received' = [received EXCEPT ![End(s)] = InsertReceived(@, Composite(parts))]

(* Mutant of Collect: the list is not emptied.                             *)
CollectKeeping(i, whole) ==
    LET s == frags[i].on
        u == frags[i].urgent
    IN /\ split' = [split EXCEPT ![s][u] = Append(@, i)]
       /\ IF whole THEN Insert(s, Append(split[s][u], i)) ELSE UNCHANGED received

Collect(i, whole) ==
    LET s == frags[i].on
        u == frags[i].urgent
    IN /\ split' = [split EXCEPT ![s][u] = IF whole THEN <<>> ELSE Append(@, i)]
       /\ IF whole THEN Insert(s, Append(split[s][u], i)) ELSE UNCHANGED received

(* A closing fragment finds nothing to close.                              *)
Headless(i) == frags[i].closing /\ split[frags[i].on][frags[i].urgent] = <<>>

(* serverReceive and clientReceive, for a fragment the channel hands over.
   A headless one is thrown away by the server; the client asserts split.NotNull(),
   goes on and inserts a null pointer: its behaviour ends there.               *)
Arrive(i) ==
    /\ where[i] = "flying" /\ InTurn(i)
    /\ where' = [where EXCEPT ![i] = "arrived"]
    /\ Headless(i) => frags[i].on \notin ServerSends
    /\ IF frags[i].part /\ ~Headless(i) THEN Collect(i, frags[i].closing)
       ELSE IF frags[i].part THEN UNCHANGED <<split, received>>
       ELSE Insert(frags[i].on, <<i>>) /\ UNCHANGED split
    /\ UNCHANGED <<senderVars, serial, serialOf, handed, cancelVars>>

(* One turn of the loop of ProcessUserMessages.                            *)
ProcessUserMessages(e) ==
    /\ received[e] # <<>>
    /\ handed' = [handed EXCEPT ![e] = Append(@, Head(received[e]).parts)]
    /\ received' = [received EXCEPT ![e] = Tail(@)]
    /\ UNCHANGED <<senderVars, channelVars, split, cancelVars>>

-----------------------------------------------------------------------------
Init ==
    /\ frags = <<>> /\ where = <<>> /\ serialOf = <<>>
    /\ lastVIM = [s \in Streams |-> None] /\ lastUrgent = [s \in Streams |-> None]
    /\ sending = [s \in Streams |-> Idle]
    /\ serial = [s \in Streams |-> 1]
    /\ split = [s \in Streams |-> [u \in BOOLEAN |-> <<>>]]
    /\ received = [e \in Ends |-> <<>>] /\ handed = [e \in Ends |-> <<>>]
    /\ cancels = 0 /\ torn = {} /\ before = 0

Next ==
    \/ \E r \in Requests : SendMsg(r)
    \/ \E s \in Streams : SendNext(s)
    \/ \E i \in Frags : Leave(i) \/ Lose(i) \/ Arrive(i)
    \/ \E e \in Ends : ProcessUserMessages(e)
    \/ CancelAllMessages

Spec == Init /\ [][Next]_vars

(* SendMsg ends, the sender takes every queue in its turn, the channel hands over
   what is guaranteed (EventuallyDelivered of NetChannel), and the game looks for
   messages in every frame.                                                  *)
Fairness ==
    /\ \A s \in Streams : WF_vars(SendNext(s))
    /\ \A i \in 1 .. N : /\ WF_vars(i \in Frags /\ Leave(i))
                         /\ WF_vars(i \in Frags /\ frags[i].kind # "common" /\ Arrive(i))
    /\ \A e \in Ends : WF_vars(ProcessUserMessages(e))

FairSpec == Spec /\ Fairness
-----------------------------------------------------------------------------
(* Properties.                                                             *)

TypeOK ==
    /\ frags \in Seq([on : Streams, msg : 1 .. N, part : BOOLEAN, closing : BOOLEAN,
                      kind : Kinds, urgent : BOOLEAN, pred : 0 .. N])
    /\ lastVIM \in [Streams -> 0 .. N] /\ lastUrgent \in [Streams -> 0 .. N]
    /\ sending \in [Streams -> [left : 0 .. N, msg : 0 .. N, class : Classes]]
    /\ where \in Seq({"queued", "flying", "arrived", "lost", "dropped"})
    /\ serial \in [Streams -> 1 .. N + 1] /\ serialOf \in Seq(0 .. N)
    /\ split \in [Streams -> [BOOLEAN -> Seq(1 .. N)]]
    /\ received \in [Ends -> Seq([parts : Seq(1 .. N), serial : 1 .. N])]
    /\ handed \in [Ends -> Seq(Seq(1 .. N))]
    /\ cancels \in 0 .. MaxCancels /\ torn \subseteq ServerSends
    /\ before \in 0 .. N

(* What the game is given is what SendMsg was given: all fragments of one message,
   in their order, and nothing else ("the last message-part to be merged").
   It is so whatever the order in which fragments of different classes, players and
   messages arrive, and across a cancellation that finds no cut message under way. *)
PartsOf(m)   == {i \in Frags : frags[i].msg = m}
Whole(parts) == /\ ToSet(parts) = PartsOf(frags[Last(parts)].msg)
                /\ \A j, k \in DOMAIN parts : j < k => parts[j] < parts[k]
WholeMessages ==
    \A e \in Ends : \A k \in DOMAIN handed[e] :
        frags[Last(handed[e][k])].on \notin torn => Whole(handed[e][k])

(* Nothing is handed over before the message it is ordered behind, nor twice: the
   list of received messages keeps the order of each class, though it mixes the
   serials of all players and is emptied while it is filled.                  *)
OrderKept ==
    \A e \in Ends : \A k \in DOMAIN handed[e] :
        LET m == frags[Last(handed[e][k])].msg
        IN /\ frags[m].pred # None => \E j \in 1 .. k - 1 : Last(handed[e][j]) = frags[m].pred
           /\ \A j \in 1 .. k - 1 : ToSet(handed[e][j]) \cap ToSet(handed[e][k]) = {}

(* A guaranteed message is handed over: no list keeps it for ever, and it does not
   wait for one that never comes.  That holds of what the server sends after it
   cancelled its queues, too, unless it cut a message in two by that.        *)
Excused(i) == frags[i].on \in ServerSends /\ (i <= before \/ frags[i].on \in torn)
Handed(i)  == \E e \in Ends : \E k \in DOMAIN handed[e] : i \in ToSet(handed[e][k])
EventuallyHanded ==
    \A i \in 1 .. N : i \in Frags /\ frags[i].kind # "common"
                           ~> (i \in Frags /\ Excused(i)) \/ Handed(i)
=============================================================================
