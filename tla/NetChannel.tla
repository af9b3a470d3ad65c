----------------------------- MODULE NetChannel -----------------------------
(***************************************************************************)
(* The reliable point-to-point channel of the game's UDP transport         *)
(* (Network/Legacy/NetChannel.cpp), one direction of it: endpoint A sends  *)
(* messages 1..N, endpoint B receives them and answers with packets whose  *)
(* header carries an acknowledgement mask.  The other direction is the     *)
(* same code with the roles exchanged, so every packet of B is seen here   *)
(* only as the acknowledgement it carries.                                 *)
(*                                                                         *)
(* A message is known by its dispatch order (NetMessage::id).  It gets a   *)
(* serial number when it is first handed to the socket, and keeps it when  *)
(* it is sent again.                                                       *)
(***************************************************************************)
EXTENDS Naturals, FiniteSets, Sequences

CONSTANTS
    N,                    \* messages dispatched on A during one behaviour
    Requests,             \* bound: what is asked of A: SendRequests, and the
                          \* synthetic messages of "heartbeat" and "ping"
    MaxChannelBitMask,    \* NetworkParams::maxChannelBitMask
    GoodChannelBitMask,   \* GOOD_CHANNEL_BIT_MASK
    AckArray,             \* MAX_ACK_ARRAY
    AckRedundancy,        \* NetworkParams::ackRedundancy
    MaxOldAcks,           \* MAX_OLD_ACKS
    AckWidths,            \* widths of the acknowledgement masks (32 and 64 bits)
    MaxAhead,             \* environment: A's serials run at most this far ahead
                          \* of B's inputMax before the channel is dropped
    MaxAckPackets,        \* bound: acknowledgements in flight
    MaxCancels            \* bound: calls of cancelAllMessages

VARIABLES
    kind, pred, where, serialOf,              \* A: per message
    serial, lastVIM, lastUrgent, cancels,     \* A: per channel
    ackMask, procMask, ackMaskMin, inputMax,  \* B: the receive window
    ack, oldAckQueue,                         \* B: acknowledgements owed
    deferred, busy, delivered,                \* B: ordering and the user
    wire, acks                                \* packets in flight A->B, B->A

senderVars == <<kind, pred, where, serialOf, serial, lastVIM, lastUrgent, cancels>>
windowVars == <<ackMask, procMask, ackMaskMin, inputMax>>
oweVars    == <<ack, oldAckQueue>>
userVars   == <<deferred, busy, delivered>>
netVars    == <<wire, acks>>
vars == <<kind, pred, where, serialOf, serial, lastVIM, lastUrgent, cancels,
          ackMask, procMask, ackMaskMin, inputMax, ack, oldAckQueue,
          deferred, busy, delivered, wire, acks>>

Ids     == 1 .. N
Serials == 1 .. N
None    == 0              \* no message, and MSG_SERIAL_NULL

VIMKinds == {"vim", "urgent", "signal"}      \* MSG_VIM_FLAG is set
Kinds    == VIMKinds \cup {"common", "dummy"}
SendRequests == VIMKinds \cup {"plainUrgent", "common"}
Queues   == {"urgentToSend", "vimToSend", "commonToSend"}
Places   == Queues \cup {"unborn", "prepared", "revisited", "acked", "dropped"}
NotReceived == AckRedundancy + 1             \* the ack[] item NOT_RECEIVED

ASSUME ConstantsAssumption ==
    /\ N \in Nat \ {0}
    /\ Requests \subseteq SendRequests \cup {"heartbeat", "ping"}
    /\ MaxChannelBitMask \in Nat /\ GoodChannelBitMask \in Nat
    /\ GoodChannelBitMask < MaxChannelBitMask
    /\ AckArray \in Nat \ {0} /\ AckRedundancy \in Nat \ {0}
    /\ MaxOldAcks \in Nat \ {0}
    /\ AckWidths \subseteq Nat \ {0}
    /\ MaxAhead \in Nat /\ MaxAckPackets \in Nat /\ MaxCancels \in Nat

-----------------------------------------------------------------------------
(* Sender: the three queues, oldest first.                                 *)

InQueue(q) == {m \in Ids : where[m] = q}
NewIn(q)   == {m \in InQueue(q) : serialOf[m] = None}
VIM(m)     == kind[m] \in VIMKinds
First(m, S) == m \in S /\ \A n \in S : m <= n

(* setOrderedPrevious: a guaranteed message follows the last guaranteed one
   of its class; a plain urgent message of the server becomes guaranteed when
   its class has one already.  AckPlayer ("signal") is guaranteed, sent
   through the urgent queue without MSG_URGENT_FLAG, and follows nothing.    *)
KindOf(request) == IF request # "plainUrgent" THEN request
                   ELSE IF lastUrgent # None THEN "urgent" ELSE "common"
Predecessor(k)  == CASE k = "vim"    -> lastVIM
                     [] k = "urgent" -> lastUrgent
                     [] OTHER        -> None
QueueFor(request) == CASE KindOf(request) = "vim" -> "vimToSend"
                       [] request = "common"      -> "commonToSend"
                       [] OTHER                   -> "urgentToSend"

(* dispatchMessage, as the SendMsg of client and server call it.           *)
Dispatch(m, request) ==
    LET k == KindOf(request)
    IN /\ First(m, InQueue("unborn"))
       /\ kind' = [kind EXCEPT ![m] = k]
       /\ pred' = [pred EXCEPT ![m] = Predecessor(k)]
       /\ where' = [where EXCEPT ![m] = QueueFor(request)]
       /\ lastVIM' = IF k \in {"vim", "signal"} THEN m ELSE lastVIM
       /\ lastUrgent' = IF k = "urgent" THEN m ELSE lastUrgent
       /\ UNCHANGED <<serialOf, serial, cancels>>
       /\ UNCHANGED <<windowVars, oweVars, userVars, netVars>>

(* checkConnectivityInternal: nothing urgent is waiting, so an empty dummy
   message is composed to carry the heart-beat and the acknowledgements.   *)
Heartbeat(m) ==
    /\ "heartbeat" \in Requests
    /\ First(m, InQueue("unborn"))
    /\ InQueue("urgentToSend") = {}
    /\ kind' = [kind EXCEPT ![m] = "dummy"]
    /\ where' = [where EXCEPT ![m] = "urgentToSend"]
    /\ UNCHANGED <<pred, serialOf, serial, lastVIM, lastUrgent, cancels>>
    /\ UNCHANGED <<windowVars, oweVars, userVars, netVars>>

(* setDelayMessage: B asks for an instant reply and no urgent message can
   carry it (each already carries a short mask): the oldest common message is
   moved ahead, or an empty one composed.                                  *)
SetDelayMessage(m) ==
    /\ "ping" \in Requests
    /\ IF InQueue("commonToSend") # {} THEN First(m, InQueue("commonToSend"))
                                       ELSE First(m, InQueue("unborn"))
    /\ where' = [where EXCEPT ![m] = "urgentToSend"]
    /\ kind' = [kind EXCEPT ![m] = "common"]
    /\ UNCHANGED <<pred, serialOf, serial, lastVIM, lastUrgent, cancels>>
    /\ UNCHANGED <<windowVars, oweVars, userVars, netVars>>

(* getCommonMessage: the send-timeout of the oldest common message is over. *)
Obsolete(m) ==
    /\ First(m, InQueue("commonToSend"))
    /\ InQueue("urgentToSend") \cup InQueue("vimToSend") \cup InQueue("prepared") = {}
    /\ where' = [where EXCEPT ![m] = "dropped"]
    /\ UNCHANGED <<kind, pred, serialOf, serial, lastVIM, lastUrgent, cancels>>
    /\ UNCHANGED <<windowVars, oweVars, userVars, netVars>>

(* Mutant of Sendable: the queues have no priorities.                      *)
SendableAnyQueue(m) ==
    /\ InQueue("prepared") = {}
    /\ \E q \in Queues : First(m, InQueue(q))

(* getPreparedMessage: urgent before guaranteed before common.  insertResend
   puts a message that is sent again in its place among the urgent ones, and
   setDelayMessage one that it moves ahead at their end; any place is allowed
   here for both, and for the other ones without a guarantee.              *)
Sendable(m) ==
    /\ InQueue("prepared") = {}
    /\ \/ where[m] = "urgentToSend" /\ (serialOf[m] # None \/ kind[m] = "common")
       \/ First(m, {n \in NewIn("urgentToSend") : kind[n] # "common"})
       \/ InQueue("urgentToSend") = {} /\ First(m, InQueue("vimToSend"))
       \/ /\ InQueue("urgentToSend") \cup InQueue("vimToSend") = {}
          /\ First(m, InQueue("commonToSend"))

(* One turn of the sender thread: getPreparedMessage with setOutputData,
   which numbers a message sent for the first time, preSend and sendData.  *)
Send(m) ==
    /\ Sendable(m)
    /\ IF serialOf[m] = None
       THEN /\ serial <= inputMax + MaxAhead
            /\ serialOf' = [serialOf EXCEPT ![m] = serial]
            /\ serial' = serial + 1
       ELSE UNCHANGED <<serialOf, serial>>
    /\ where' = [where EXCEPT ![m] = "prepared"]
    /\ wire' = wire \cup {m}
    /\ UNCHANGED <<kind, pred, lastVIM, lastUrgent, cancels, acks>>
    /\ UNCHANGED <<windowVars, oweVars, userVars>>

(* postSend: from here on an acknowledgement finds the message.            *)
PostSend(m) ==
    /\ where[m] = "prepared"
    /\ where' = [where EXCEPT ![m] = "revisited"]
    /\ UNCHANGED <<kind, pred, serialOf, serial, lastVIM, lastUrgent, cancels>>
    /\ UNCHANGED <<windowVars, oweVars, userVars, netVars>>

(* runRevisited: a guaranteed message without acknowledgement is sent
   again, any other one is forgotten.                                      *)
AckTimeout(m) ==
    /\ where[m] = "revisited"
    /\ where' = [where EXCEPT ![m] = IF VIM(m) THEN "urgentToSend" ELSE "dropped"]
    /\ UNCHANGED <<kind, pred, serialOf, serial, lastVIM, lastUrgent, cancels>>
    /\ UNCHANGED <<windowVars, oweVars, userVars, netVars>>

(* inputStatistics at A: the messages of the mask that are in 'revisited'
   are acknowledged, the others (waiting to be sent again) are not found.  *)
ReceiveAck(c) ==
    /\ c \in acks
    /\ acks' = acks \ {c}
    /\ where' = [m \in Ids |-> IF where[m] = "revisited" /\ serialOf[m] \in c
                               THEN "acked" ELSE where[m]]
    /\ UNCHANGED <<kind, pred, serialOf, serial, lastVIM, lastUrgent, cancels, wire>>
    /\ UNCHANGED <<windowVars, oweVars, userVars>>

(* cancelAllMessages, called on every live channel when the server leaves
   the mission (NetworkServer::SetGameState).                              *)
CancelAllMessages ==
    /\ cancels < MaxCancels
    /\ cancels' = cancels + 1
    /\ lastVIM' = None
    /\ lastUrgent' = None
    /\ where' = [m \in Ids |-> IF where[m] \in Queues THEN "dropped" ELSE where[m]]
    /\ UNCHANGED <<kind, pred, serialOf, serial>>
    /\ UNCHANGED <<windowVars, oweVars, userVars, netVars>>

-----------------------------------------------------------------------------
(* Receiver: the window [ackMaskMin, inputMax] of the masks, and the shorter
   one [inputMin, inputMax] of the ack[] ring.                             *)

Bigger(a, b)  == IF a >= b THEN a ELSE b
InputMinOf(x) == IF x > AckArray THEN x - AckArray + 1 ELSE 1
InputMin      == InputMinOf(inputMax)

(* Mutants of Received: the newest message, or the messages the window has
   passed, are not recognised as duplicates.                               *)
ReceivedButNewest(s)  == s < ackMaskMin \/ (s < inputMax /\ s \in ackMask)
ReceivedInMaskOnly(s) == s \in ackMask

Received(s)   == s < ackMaskMin \/ s \in ackMask

(* WireBounds::SerialWithinSpan *)
WithinSpan(s) == s <= inputMax + MaxChannelBitMask /\ ackMaskMin <= s + MaxChannelBitMask

(* The window after inputStatistics has seen serial s.                     *)
NewInputMax(s) == Bigger(inputMax, s)
NewMaskMin(s)  == IF NewInputMax(s) > ackMaskMin + MaxChannelBitMask
                  THEN NewInputMax(s) + GoodChannelBitMask - MaxChannelBitMask
                  ELSE ackMaskMin

(* inputStatistics: a serial outside the span changes nothing; any other is
   marked, the window follows, and its acknowledgement becomes due.        *)
InputStatistics(s) ==
    IF WithinSpan(s)
    THEN /\ inputMax' = NewInputMax(s)
         /\ ackMaskMin' = NewMaskMin(s)
         /\ ackMask' = {x \in ackMask \cup {s} : x >= ackMaskMin'}
         /\ procMask' = {x \in procMask : x >= ackMaskMin'}
         /\ ack' = [x \in Serials |-> IF x < InputMinOf(inputMax') THEN NotReceived
                                      ELSE IF x = s THEN AckRedundancy ELSE ack[x]]
    ELSE UNCHANGED <<windowVars, ack>>

(* Mutants of InputResent: the priority queue has no end; a duplicate does
   not renew its acknowledgement.                                          *)
InputResentUnbounded(m) ==
    LET s == serialOf[m]
    IN IF s >= ackMaskMin /\ s < InputMin
       THEN oldAckQueue' = Append(oldAckQueue, s) /\ UNCHANGED ack
       ELSE ack' = [ack EXCEPT ![s] = AckRedundancy] /\ UNCHANGED oldAckQueue
InputResentSilent(m) == UNCHANGED oweVars

(* inputResent: a duplicate makes its acknowledgement due again, through the
   priority queue when it is too old for the ring.                         *)
InputResent(m) ==
    LET s == serialOf[m]
    IN /\ ack' = IF s >= ackMaskMin /\ s >= InputMin /\ VIM(m)
                 THEN [ack EXCEPT ![s] = AckRedundancy] ELSE ack
       /\ oldAckQueue' = IF /\ s >= ackMaskMin /\ s < InputMin
                            /\ Len(oldAckQueue) + 1 < MaxOldAcks
                         THEN Append(oldAckQueue, s) ELSE oldAckQueue

(* Mutant of Waits: a predecessor only has to be received.                 *)
WaitsForReceipt(m) == /\ pred[m] # None
                      /\ serialOf[pred[m]] >= ackMaskMin'
                      /\ serialOf[pred[m]] \notin ackMask'

Waits(m) == /\ pred[m] # None
            /\ serialOf[pred[m]] >= ackMaskMin'
            /\ serialOf[pred[m]] \notin procMask'

(* processData: the listener takes packet m; the network may hold a second
   copy of it.  A message is dropped as a duplicate, consumed as a dummy,
   handed to the user, deferred until its predecessor has been processed, or
   taken to processVIM.                                                    *)
Receive(m) ==
    /\ m \in wire
    /\ busy = None
    /\ wire' \in {wire, wire \ {m}}
    /\ IF Received(serialOf[m])
       THEN /\ InputResent(m)
            /\ UNCHANGED <<windowVars, userVars>>
       ELSE /\ InputStatistics(serialOf[m])
            /\ UNCHANGED oldAckQueue
            /\ \/ kind[m] = "dummy" /\ UNCHANGED userVars
               \/ /\ kind[m] = "common"
                  /\ delivered' = [delivered EXCEPT ![m] = @ + 1]
                  /\ UNCHANGED <<deferred, busy>>
               \/ /\ VIM(m) /\ Waits(m)
                  /\ deferred' = deferred \cup {m}
                  /\ UNCHANGED <<busy, delivered>>
               \/ /\ VIM(m) /\ ~Waits(m)
                  /\ busy' = m
                  /\ UNCHANGED <<deferred, delivered>>
    /\ UNCHANGED <<senderVars, acks>>

(* processVIM: the call-back runs without the channel's lock, then the
   message counts as processed and the one deferred behind it is next.     *)
Followers(m) == {n \in deferred : pred[n] = m}

(* Mutant of ProcessVIM: the deferred messages are not looked at.           *)
ProcessVIMAlone ==
    /\ busy # None
    /\ delivered' = [delivered EXCEPT ![busy] = @ + 1]
    /\ procMask' = procMask \cup {serialOf[busy]}
    /\ busy' = None
    /\ UNCHANGED <<ackMask, ackMaskMin, inputMax, deferred>>
    /\ UNCHANGED <<senderVars, oweVars, netVars>>

ProcessVIM ==
    /\ busy # None
    /\ IF serialOf[busy] >= ackMaskMin
       THEN /\ delivered' = [delivered EXCEPT ![busy] = @ + 1]
            /\ procMask' = procMask \cup {serialOf[busy]}
       ELSE UNCHANGED <<delivered, procMask>>
    /\ \/ Followers(busy) = {} /\ busy' = None /\ UNCHANGED deferred
       \/ \E n \in Followers(busy) : busy' = n /\ deferred' = deferred \ {n}
    /\ UNCHANGED <<ackMask, ackMaskMin, inputMax>>
    /\ UNCHANGED <<senderVars, oweVars, netVars>>

-----------------------------------------------------------------------------
(* setOutputData at B: the acknowledgement part of any outgoing packet.    *)

Owed   == {s \in InputMin .. inputMax : ack[s] \in 1 .. AckRedundancy}
Covered(newest, width) == {s \in Serials : s <= newest /\ newest < s + width}

(* Mutant of PutAck: a cumulative acknowledgement of all up to 'newest'.     *)
PutAckCumulative(newest, width) ==
    /\ Cardinality(acks) < MaxAckPackets
    /\ acks' = acks \cup {Covered(newest, width)}
    /\ UNCHANGED <<ack, senderVars, windowVars, userVars, wire>>

(* The mask covers the 'width' serials up to 'newest'; those it covers in the
   ring are owed once less.                                                *)
PutAck(newest, width) ==
    /\ Cardinality(acks) < MaxAckPackets
    /\ acks' = acks \cup {Covered(newest, width) \cap ackMask}
    /\ ack' = [s \in Serials |->
                 IF s \in Covered(newest, width) \cap Owed THEN ack[s] - 1 ELSE ack[s]]
    /\ UNCHANGED <<senderVars, windowVars, userVars, wire>>

(* An ordinary packet: first the priority queue, then the oldest serial owed
   (the youngest of its mask), else the newest one.                        *)
RegularNewest(width) ==
    LET oldest == IF Owed # {} THEN CHOOSE s \in Owed : \A t \in Owed : s <= t
                                 ELSE inputMax
    IN IF oldest + width - 1 < inputMax THEN oldest + width - 1 ELSE inputMax

EmitAck(width) ==
    IF ack[inputMax] # NotReceived /\ oldAckQueue # <<>>
    THEN PutAck(Head(oldAckQueue), width) /\ oldAckQueue' = Tail(oldAckQueue)
    ELSE PutAck(RegularNewest(width), width) /\ UNCHANGED oldAckQueue

(* The reply to a ping (MSG_DELAY_FLAG) is about the request's serial.     *)
EmitDelayReply(s, width) ==
    /\ s \in ackMask
    /\ PutAck(s, width)
    /\ UNCHANGED oldAckQueue

-----------------------------------------------------------------------------
(* The network loses packets; it duplicates them (see Receive) and, as the
   packets in flight are a set, delivers them in any order.                *)
LosePacket(m) == /\ m \in wire
                 /\ wire' = wire \ {m}
                 /\ UNCHANGED <<senderVars, windowVars, oweVars, userVars, acks>>

LoseAck(c) == /\ c \in acks
              /\ acks' = acks \ {c}
              /\ UNCHANGED <<senderVars, windowVars, oweVars, userVars, wire>>

-----------------------------------------------------------------------------
Init ==
    /\ kind = [m \in Ids |-> "common"]
    /\ pred = [m \in Ids |-> None]
    /\ where = [m \in Ids |-> "unborn"]
    /\ serialOf = [m \in Ids |-> None]
    /\ serial = 1
    /\ lastVIM = None /\ lastUrgent = None /\ cancels = 0
    /\ ackMask = {} /\ procMask = {}
    /\ ackMaskMin = 1 /\ inputMax = 1
    /\ ack = [s \in Serials |-> NotReceived]
    /\ oldAckQueue = <<>>
    /\ deferred = {} /\ busy = None
    /\ delivered = [m \in Ids |-> 0]
    /\ wire = {} /\ acks = {}

SenderNext ==
    \/ \E m \in Ids :
        \/ \E request \in Requests \cap SendRequests : Dispatch(m, request)
        \/ Heartbeat(m) \/ SetDelayMessage(m) \/ Obsolete(m)
        \/ Send(m) \/ PostSend(m) \/ AckTimeout(m)
    \/ CancelAllMessages
    \/ \E c \in acks : ReceiveAck(c)

ReceiverNext ==
    \/ \E m \in wire : Receive(m)
    \/ ProcessVIM
    \/ \E w \in AckWidths : EmitAck(w) \/ \E s \in ackMask : EmitDelayReply(s, w)

NetworkNext ==
    \/ \E m \in wire : LosePacket(m)
    \/ \E c \in acks : LoseAck(c)

Next == SenderNext \/ ReceiverNext \/ NetworkNext

Spec == Init /\ [][Next]_vars

(***************************************************************************)
(* Fairness.  The two threads run: the sender picks every message it may   *)
(* pick again and again, ends each send, and visits 'revisited' every 50   *)
(* ms; the listener finishes its call-backs; B sends at least a heart-beat *)
(* every half second, with an acknowledgement in it.  The network is       *)
(* lossy, but a packet sent again and again gets through again and again,  *)
(* and so does the acknowledgement of a message that waits for it.         *)
(* InTime is what the growing ackTimeout (up to MAX_ACK_TIMEOUT) achieves: *)
(* from some time on, a message is sent again only when neither a packet   *)
(* of it nor an acknowledgement for it is on its way, and no packet        *)
(* crosses the network before its own sender has reached postSend.         *)
(***************************************************************************)
UnderWay(m) == \/ m \in wire
               \/ serialOf[m] \in Owed
               \/ \E i \in 1 .. Len(oldAckQueue) : oldAckQueue[i] = serialOf[m]
               \/ \E c \in acks : serialOf[m] \in c

InTime == <>[][\A m \in Ids : /\ AckTimeout(m) => ~UnderWay(m)
                              /\ Receive(m) => where[m] # "prepared"]_vars

AckArrives(m) == \E c \in acks : serialOf[m] \in c /\ ReceiveAck(c)

Fairness ==
    /\ InTime
    /\ WF_vars(ProcessVIM)
    /\ WF_vars(\E w \in AckWidths : EmitAck(w))
    /\ WF_vars(\E c \in acks : ReceiveAck(c))
    /\ \A m \in Ids : /\ SF_vars(Send(m)) /\ WF_vars(PostSend(m))
                      /\ WF_vars(AckTimeout(m))
                      /\ SF_vars(Receive(m))
                      /\ SF_vars(where[m] = "revisited" /\ AckArrives(m))

FairSpec == Spec /\ Fairness

-----------------------------------------------------------------------------
(* Properties.                                                             *)

TypeOK ==
    /\ kind \in [Ids -> Kinds] /\ pred \in [Ids -> Ids \cup {None}]
    /\ where \in [Ids -> Places] /\ serialOf \in [Ids -> Nat]
    /\ serial \in Nat \ {0} /\ cancels \in 0 .. MaxCancels
    /\ lastVIM \in Ids \cup {None} /\ lastUrgent \in Ids \cup {None}
    /\ ackMask \subseteq Nat /\ procMask \subseteq Nat
    /\ ackMaskMin \in Nat \ {0} /\ inputMax \in Nat \ {0}
    /\ ack \in [Serials -> 0 .. NotReceived]
    /\ oldAckQueue \in Seq(Nat) /\ Len(oldAckQueue) < MaxOldAcks
    /\ deferred \subseteq Ids /\ busy \in Ids \cup {None}
    /\ delivered \in [Ids -> Nat]
    /\ wire \subseteq Ids /\ acks \subseteq SUBSET Nat

(* The receiver has taken charge of m.                                     *)
Accepted(m) == delivered[m] > 0 \/ m \in deferred \/ busy = m

(* The receiver has moved its window past the serial of m.                 *)
Passed(m) == serialOf[m] # None /\ serialOf[m] < ackMaskMin

(* However often a packet is sent, duplicated or reordered, and whatever
   the sender thread does while a call-back runs: no message is handed to
   the user twice, and none waits here after it was handed over.           *)
ExactlyOnce ==
    \A m \in Ids : /\ delivered[m] <= 1
                   /\ m \in deferred \/ busy = m => delivered[m] = 0
                   /\ ~(m \in deferred /\ busy = m)

(* A guaranteed message reaches the user after the one it was ordered
   behind; only a predecessor the window has passed is not waited for.     *)
OrderedDelivery ==
    \A m \in Ids : (delivered[m] > 0 \/ busy = m) /\ pred[m] # None =>
                       delivered[pred[m]] > 0 \/ Passed(pred[m])

(* A sender stops repeating a guaranteed message only when the receiver has
   it: delivered, being delivered, or deferred (or its window has passed).  *)
AckSound ==
    \A m \in Ids : where[m] = "acked" /\ kind[m] # "dummy" => Accepted(m) \/ Passed(m)

(* When a packet with MSG_ORDERED_FLAG leaves, its predecessor has a serial
   to put into the header (NET_ERROR in setOutputData).                    *)
PredSerialKnown ==
    \A m \in Ids : serialOf[m] # None /\ pred[m] # None => serialOf[pred[m]] # None

(* Nothing is deferred behind a message that is already processed: nobody
   would ever take it out again.                                           *)
NothingStranded ==
    \A m \in deferred : pred[m] # None /\ delivered[pred[m]] = 0

(* A message that was never sent and waits for its turn is not ordered
   behind one that was dropped: cancelAllMessages forgets lastVIM and
   lastUrgent together with the messages.                                  *)
CancelForgetsOrder ==
    \A m \in Ids : where[m] \in Queues /\ serialOf[m] = None /\ pred[m] # None
                     => where[pred[m]] # "dropped"

(* The channel implements its promise: delivered at most once, in order,
   and only by the steps the promise allows.                               *)
Promise == INSTANCE ReliableDelivery WITH
    Messages <- Ids, NoMessage <- None,
    offered <- {m \in Ids : where[m] # "unborn"},
    guaranteed <- {m \in Ids : VIM(m)},
    after <- pred,
    waived <- {m \in Ids : Passed(m)}

KeepsPromise == Promise!Spec

(* Every guaranteed message is delivered, whatever the network loses ...    *)
EventuallyDelivered == Promise!AllDelivered

(* ... and the sender learns it, so that it does not repeat it for ever.   *)
EventuallyAcked ==
    \A m \in Ids : VIM(m) ~> where[m] = "acked"

-----------------------------------------------------------------------------
(* The inductive invariant behind the properties above.                    *)

(* A serial belongs to one message, and one that was sent has a serial.     *)
SerialInv ==
    /\ \A m \in Ids : serialOf[m] < serial
    /\ \A m, n \in Ids : serialOf[m] # None /\ serialOf[m] = serialOf[n] => m = n
    /\ \A m \in Ids : where[m] \in {"prepared", "revisited", "acked"} => serialOf[m] # None

(* What is in which queue.                                                 *)
QueueInv ==
    \A m \in Ids :
        /\ where[m] = "unborn" => serialOf[m] = None /\ pred[m] = None /\ kind[m] = "common"
        /\ where[m] = "vimToSend" => kind[m] = "vim"
        /\ where[m] = "commonToSend" => kind[m] = "common"
        /\ where[m] \notin {"unborn", "dropped"} /\ serialOf[m] = None =>
              /\ kind[m] = "vim" => where[m] = "vimToSend"
              /\ kind[m] \in {"urgent", "signal"} => where[m] = "urgentToSend"

(* A predecessor is older, of the same class, and has no other follower.    *)
OrderInv ==
    /\ \A m, n \in Ids : where[m] = "unborn" /\ where[n] # "unborn" => n < m
    /\ \A m \in Ids : pred[m] # None =>
          /\ pred[m] < m /\ where[pred[m]] # "unborn"
          /\ \/ kind[m] = "vim" /\ kind[pred[m]] \in {"vim", "signal"}
             \/ kind[m] = "urgent" /\ kind[pred[m]] = "urgent"
    /\ \A m, n \in Ids : pred[m] # None /\ pred[m] = pred[n] => m = n

(* lastVIM and lastUrgent are the ends of the two chains.                   *)
LastInv ==
    /\ lastVIM # None => /\ where[lastVIM] \notin {"unborn", "dropped"}
                         /\ kind[lastVIM] \in {"vim", "signal"}
                         /\ \A m \in Ids : pred[m] # lastVIM
    /\ lastUrgent # None => /\ where[lastUrgent] \notin {"unborn", "dropped"}
                            /\ kind[lastUrgent] = "urgent"
                            /\ \A m \in Ids : pred[m] # lastUrgent

SenderInv == /\ SerialInv /\ QueueInv /\ OrderInv /\ LastInv
             /\ CancelForgetsOrder /\ PredSerialKnown

(* Everything the masks and the acknowledgements speak of was numbered, no
   packet is too far ahead of the window, and the window has its width.     *)
WindowInv ==
    /\ inputMax <= ackMaskMin + MaxChannelBitMask
    /\ \A s \in ackMask \cup procMask \cup UNION acks : s # None /\ s < serial
    /\ \A m \in wire : serialOf[m] # None
    /\ \A m \in Ids : serialOf[m] <= inputMax + MaxAhead

(* The receiver's records and the masks agree.                             *)
RecordInv ==
    /\ \A m \in Ids : Accepted(m) => serialOf[m] # None /\ Received(serialOf[m])
    /\ \A m \in Ids : serialOf[m] \in procMask => delivered[m] > 0
    /\ \A m \in Ids : delivered[m] > 0 /\ VIM(m) => serialOf[m] \in procMask \/ Passed(m)
    /\ \A m \in Ids : (\E c \in acks \cup {ackMask} : serialOf[m] \in c) /\ kind[m] # "dummy"
                     => Accepted(m) \/ Passed(m)
    /\ \A m \in deferred : VIM(m)
    /\ busy # None => VIM(busy)

ReceiverInv == /\ WindowInv /\ RecordInv
               /\ ExactlyOnce /\ OrderedDelivery /\ AckSound /\ NothingStranded

ChannelInv == SenderInv /\ ReceiverInv

=============================================================================
