-------------------------- MODULE NetChannelProofs --------------------------
(***************************************************************************)
(* Proofs about NetChannel, for every number of messages, every size of    *)
(* the windows and every behaviour of the network.                         *)
(***************************************************************************)
EXTENDS NetChannel, TLAPS

USE DEF None

LEMMA NewWindow ==
    ASSUME TypeOK, NEW s \in Nat
    PROVE  /\ NewInputMax(s) \in Nat \ {0} /\ NewInputMax(s) >= inputMax
           /\ NewInputMax(s) >= s
           /\ NewMaskMin(s) \in Nat \ {0} /\ NewMaskMin(s) >= ackMaskMin
  BY ConstantsAssumption DEF TypeOK, NewInputMax, NewMaskMin, Bigger

LEMMA StatisticsType ==
    ASSUME TypeOK, NEW s \in Nat, InputStatistics(s)
    PROVE  /\ ackMask' \subseteq Nat /\ procMask' \subseteq Nat
           /\ ackMaskMin' \in Nat \ {0} /\ inputMax' \in Nat \ {0}
           /\ ack' \in [Serials -> 0 .. NotReceived]
           /\ ackMaskMin' >= ackMaskMin /\ inputMax' >= inputMax
<1>1. CASE WithinSpan(s)
  <2>1. /\ inputMax' = NewInputMax(s) /\ ackMaskMin' = NewMaskMin(s)
        /\ ackMask' = {x \in ackMask \cup {s} : x >= ackMaskMin'}
        /\ procMask' = {x \in procMask : x >= ackMaskMin'}
        /\ ack' = [x \in Serials |-> IF x < InputMinOf(inputMax') THEN NotReceived
                                     ELSE IF x = s THEN AckRedundancy ELSE ack[x]]
    BY <1>1 DEF InputStatistics
  <2>2. ack' \in [Serials -> 0 .. NotReceived]
    BY <2>1, ConstantsAssumption DEF TypeOK, NotReceived
  <2> QED BY <2>1, <2>2, NewWindow DEF TypeOK
<1>2. CASE ~WithinSpan(s)
  <2>1. UNCHANGED <<ackMask, procMask, ackMaskMin, inputMax, ack>>
    BY <1>2 DEF InputStatistics, windowVars
  <2> QED BY <2>1 DEF TypeOK
<1> QED BY <1>1, <1>2

LEMMA ResentType ==
    ASSUME TypeOK, NEW m \in Ids, InputResent(m)
    PROVE  /\ ack' \in [Serials -> 0 .. NotReceived]
           /\ oldAckQueue' \in Seq(Nat) /\ Len(oldAckQueue') < MaxOldAcks
<1>1. serialOf[m] \in Nat /\ oldAckQueue \in Seq(Nat) /\ Len(oldAckQueue) \in Nat
  BY DEF TypeOK
<1>2. ack' \in [Serials -> 0 .. NotReceived]
  <2>1. AckRedundancy \in 0 .. NotReceived
    BY ConstantsAssumption DEF NotReceived
  <2>2. ack' \in {ack, [ack EXCEPT ![serialOf[m]] = AckRedundancy]}
    BY DEF InputResent
  <2> QED BY <2>1, <2>2 DEF TypeOK
<1>3. oldAckQueue' \in Seq(Nat) /\ Len(oldAckQueue') < MaxOldAcks
  <2>1. /\ Append(oldAckQueue, serialOf[m]) \in Seq(Nat)
        /\ Len(Append(oldAckQueue, serialOf[m])) = Len(oldAckQueue) + 1
    BY <1>1
  <2>2. \/ oldAckQueue' = oldAckQueue
        \/ /\ Len(oldAckQueue) + 1 < MaxOldAcks
           /\ oldAckQueue' = Append(oldAckQueue, serialOf[m])
    BY DEF InputResent
  <2> QED BY <1>1, <2>1, <2>2 DEF TypeOK
<1> QED BY <1>2, <1>3

LEMMA PutAckType ==
    ASSUME TypeOK, NEW n, NEW w, PutAck(n, w)
    PROVE  /\ acks' \subseteq SUBSET Nat
           /\ ack' \in [Serials -> 0 .. NotReceived]
<1>1. acks' = acks \cup {Covered(n, w) \cap ackMask}
  BY DEF PutAck
<1>2. acks' \subseteq SUBSET Nat
  BY <1>1 DEF TypeOK
<1>3. \A s \in Serials : ack[s] \in 0 .. NotReceived
  BY DEF TypeOK
<1>4. \A s \in Owed : ack[s] \in 1 .. AckRedundancy
  BY DEF Owed
<1>5. ASSUME NEW s \in Serials, s \in Owed PROVE ack[s] - 1 \in 0 .. NotReceived
  <2>1. \A x \in 1 .. AckRedundancy : x - 1 \in 0 .. NotReceived
    BY ConstantsAssumption DEF NotReceived
  <2> QED BY <1>4, <1>5, <2>1
<1>6. ack' = [s \in Serials |->
                 IF s \in Covered(n, w) \cap Owed THEN ack[s] - 1 ELSE ack[s]]
  BY DEF PutAck
<1>7. ack' \in [Serials -> 0 .. NotReceived]
  <2>1. \A s \in Serials : (IF s \in Covered(n, w) \cap Owed THEN ack[s] - 1 ELSE ack[s])
                             \in 0 .. NotReceived
    BY <1>3, <1>5
  <2> QED BY <1>6, <2>1
<1> QED BY <1>2, <1>7

LEMMA InitTypeOK == Init => TypeOK
  BY ConstantsAssumption
  DEF Init, TypeOK, Kinds, VIMKinds, Places, Queues, NotReceived, Ids, Serials

LEMMA NextTypeOK == TypeOK /\ [Next]_vars => TypeOK'
<1> SUFFICES ASSUME TypeOK, [Next]_vars PROVE TypeOK'
  OBVIOUS
<1> USE DEF senderVars, windowVars, oweVars, userVars, netVars
<1>1. ASSUME NEW m \in Ids, NEW r \in SendRequests, Dispatch(m, r) PROVE TypeOK'
  <2>1. /\ KindOf(r) \in Kinds /\ QueueFor(r) \in Queues
        /\ Predecessor(KindOf(r)) \in {lastVIM, lastUrgent, None}
    BY DEF KindOf, QueueFor, Predecessor, SendRequests, Kinds, VIMKinds, Queues
  <2>2. /\ kind' = [kind EXCEPT ![m] = KindOf(r)]
        /\ pred' = [pred EXCEPT ![m] = Predecessor(KindOf(r))]
        /\ \E q \in Queues : where' = [where EXCEPT ![m] = q]
        /\ lastVIM' \in {m, lastVIM} /\ lastUrgent' \in {m, lastUrgent}
        /\ UNCHANGED <<serialOf, serial, cancels>>
        /\ UNCHANGED <<windowVars, oweVars, userVars, netVars>>
    BY <1>1, <2>1 DEF Dispatch
  <2>3. pred' \in [Ids -> Ids \cup {None}]
    BY <2>1, <2>2 DEF TypeOK
  <2> QED BY <2>1, <2>2, <2>3 DEF TypeOK, Places
<1>2. ASSUME NEW m \in Ids, Heartbeat(m) PROVE TypeOK'
  BY <1>2 DEF Heartbeat, TypeOK, Kinds, Places, Queues
<1>3. ASSUME NEW m \in Ids, SetDelayMessage(m) PROVE TypeOK'
  BY <1>3 DEF SetDelayMessage, TypeOK, Kinds, Places, Queues
<1>4. ASSUME NEW m \in Ids, Obsolete(m) PROVE TypeOK'
  BY <1>4 DEF Obsolete, TypeOK, Places
<1>5. ASSUME NEW m \in Ids, Send(m) PROVE TypeOK'
  <2>1. serialOf' \in [Ids -> Nat] /\ serial' \in Nat \ {0}
    <3>1. /\ serialOf \in [Ids -> Nat] /\ serial \in Nat \ {0}
          /\ serialOf' \in {serialOf, [serialOf EXCEPT ![m] = serial]} /\ serial' \in {serial, serial + 1}
      BY <1>5 DEF Send, TypeOK
    <3>2. \A n \in Nat : [serialOf EXCEPT ![m] = n] \in [Ids -> Nat]
      BY <3>1
    <3> QED BY <3>1, <3>2
  <2>2. where' \in [Ids -> Places] /\ wire' \subseteq Ids
    BY <1>5 DEF Send, TypeOK, Places
  <2>3. /\ UNCHANGED <<kind, pred, lastVIM, lastUrgent, cancels, acks>>
        /\ UNCHANGED <<windowVars, oweVars, userVars>>
    BY <1>5 DEF Send
  <2> QED BY <2>1, <2>2, <2>3 DEF TypeOK
<1>6. ASSUME NEW m \in Ids, PostSend(m) PROVE TypeOK'
  BY <1>6 DEF PostSend, TypeOK, Places
<1>7. ASSUME NEW m \in Ids, AckTimeout(m) PROVE TypeOK'
  BY <1>7 DEF AckTimeout, TypeOK, Places, Queues
<1>8. ASSUME NEW c \in acks, ReceiveAck(c) PROVE TypeOK'
  BY <1>8 DEF ReceiveAck, TypeOK, Places
<1>9. CASE CancelAllMessages
  BY <1>9, ConstantsAssumption DEF CancelAllMessages, TypeOK, Places
<1>10. ASSUME NEW m \in wire, Receive(m) PROVE TypeOK'
  <2>1. m \in Ids /\ serialOf[m] \in Nat
    BY DEF TypeOK
  <2>2. UNCHANGED <<kind, pred, where, serialOf, serial, lastVIM, lastUrgent, cancels, acks>>
        /\ wire' \subseteq Ids
    BY <1>10 DEF Receive, TypeOK
  <2>3. CASE Received(serialOf[m])
    <3>1. InputResent(m) /\ UNCHANGED <<windowVars, userVars>>
      BY <1>10, <2>3 DEF Receive
    <3>2. /\ ack' \in [Serials -> 0 .. NotReceived]
          /\ oldAckQueue' \in Seq(Nat) /\ Len(oldAckQueue') < MaxOldAcks
      BY <3>1, <2>1, ResentType
    <3> QED BY <2>2, <3>1, <3>2 DEF TypeOK
  <2>4. CASE ~Received(serialOf[m])
    <3>1. InputStatistics(serialOf[m]) /\ UNCHANGED oldAckQueue
      BY <1>10, <2>4 DEF Receive
    <3>2. /\ delivered' \in {delivered, [delivered EXCEPT ![m] = @ + 1]}
          /\ deferred' \in {deferred, deferred \cup {m}}
          /\ busy' \in {busy, m}
      BY <1>10, <2>1, <2>4 DEF Receive, TypeOK, Kinds, VIM
    <3>3. /\ delivered' \in [Ids -> Nat] /\ deferred' \subseteq Ids
          /\ busy' \in Ids \cup {None}
      <4>1. delivered \in [Ids -> Nat] /\ deferred \subseteq Ids
            /\ busy \in Ids \cup {None}
        BY DEF TypeOK
      <4>2. [delivered EXCEPT ![m] = @ + 1] \in [Ids -> Nat]
        BY <4>1, <2>1
      <4> QED BY <3>2, <2>1, <4>1, <4>2
    <3>4. /\ ackMask' \subseteq Nat /\ procMask' \subseteq Nat
          /\ ackMaskMin' \in Nat \ {0} /\ inputMax' \in Nat \ {0}
          /\ ack' \in [Serials -> 0 .. NotReceived]
      BY <3>1, <2>1, StatisticsType
    <3> QED BY <2>2, <3>1, <3>3, <3>4 DEF TypeOK
  <2> QED BY <2>3, <2>4
<1>11. CASE ProcessVIM
  <2>1. busy \in Ids /\ serialOf[busy] \in Nat
    BY <1>11 DEF ProcessVIM, TypeOK
  <2>2. /\ delivered' \in {delivered, [delivered EXCEPT ![busy] = @ + 1]}
        /\ procMask' \in {procMask, procMask \cup {serialOf[busy]}}
    BY <1>11 DEF ProcessVIM
  <2>3. delivered' \in [Ids -> Nat] /\ procMask' \subseteq Nat
    <3>1. delivered \in [Ids -> Nat] /\ procMask \subseteq Nat
      BY DEF TypeOK
    <3>2. [delivered EXCEPT ![busy] = @ + 1] \in [Ids -> Nat]
      BY <3>1, <2>1
    <3> QED BY <2>1, <2>2, <3>1, <3>2
  <2>4. busy' \in Ids \cup {None} /\ deferred' \subseteq Ids
    BY <1>11 DEF ProcessVIM, Followers, TypeOK
  <2>5. UNCHANGED <<kind, pred, where, serialOf, serial, lastVIM, lastUrgent, cancels,
                    ackMask, ackMaskMin, inputMax, ack, oldAckQueue, wire, acks>>
    BY <1>11 DEF ProcessVIM
  <2> QED BY <2>3, <2>4, <2>5 DEF TypeOK
<1>12. ASSUME NEW w \in AckWidths, EmitAck(w) PROVE TypeOK'
  <2>1. PICK n : PutAck(n, w)
    BY <1>12 DEF EmitAck
  <2>2. oldAckQueue' \in Seq(Nat) /\ Len(oldAckQueue') < MaxOldAcks
    <3>1. /\ oldAckQueue \in Seq(Nat) /\ Len(oldAckQueue) < MaxOldAcks
          /\ MaxOldAcks \in Nat /\ Len(oldAckQueue) \in Nat
      BY ConstantsAssumption DEF TypeOK
    <3>2. CASE oldAckQueue # <<>> /\ oldAckQueue' = Tail(oldAckQueue)
      BY <3>1, <3>2
    <3>3. CASE UNCHANGED oldAckQueue
      BY <3>1, <3>3
    <3> QED BY <1>12, <3>2, <3>3 DEF EmitAck
  <2>3. UNCHANGED <<senderVars, windowVars, userVars, wire>>
    BY <2>1 DEF PutAck
  <2> QED BY <2>1, <2>2, <2>3, PutAckType DEF TypeOK
<1>13. ASSUME NEW w \in AckWidths, NEW s \in ackMask, EmitDelayReply(s, w) PROVE TypeOK'
  <2>1. PutAck(s, w) /\ UNCHANGED oldAckQueue
    BY <1>13 DEF EmitDelayReply
  <2>2. UNCHANGED <<senderVars, windowVars, userVars, wire>>
    BY <2>1 DEF PutAck
  <2> QED BY <2>1, <2>2, PutAckType DEF TypeOK
<1>14. ASSUME NEW m \in wire, LosePacket(m) PROVE TypeOK'
  BY <1>14 DEF LosePacket, TypeOK
<1>15. ASSUME NEW c \in acks, LoseAck(c) PROVE TypeOK'
  BY <1>15 DEF LoseAck, TypeOK
<1>16. CASE UNCHANGED vars
  BY <1>16 DEF vars, TypeOK
<1> QED
  BY <1>1, <1>2, <1>3, <1>4, <1>5, <1>6, <1>7, <1>8, <1>9, <1>10, <1>11, <1>12,
     <1>13, <1>14, <1>15, <1>16
  DEF Next, SenderNext, ReceiverNext, NetworkNext

(* Every variable of the channel keeps its type.                           *)
THEOREM TypeCorrect == Spec => []TypeOK
  BY InitTypeOK, NextTypeOK, PTL DEF Spec

-----------------------------------------------------------------------------
(* The sender's half of the invariant depends on the sender's variables.    *)

LEMMA InitSenderInv == Init => SenderInv
  BY DEF Init, SenderInv, SerialInv, QueueInv, OrderInv, LastInv,
         CancelForgetsOrder, PredSerialKnown, Ids, Queues

LEMMA SenderUnchanged == SenderInv /\ UNCHANGED senderVars => SenderInv'
  BY DEF senderVars, SenderInv, SerialInv, QueueInv, OrderInv, LastInv,
         CancelForgetsOrder, PredSerialKnown

LEMMA SenderStep ==
    ASSUME TypeOK, SenderInv, SenderNext
    PROVE  SenderInv'
<1> USE DEF SenderInv
<1>a. \A m \in Ids : m \in Nat \ {0}
  BY DEF Ids
<1>b. /\ pred \in [Ids -> Ids \cup {None}]
      /\ lastVIM \in Ids \cup {None} /\ lastUrgent \in Ids \cup {None}
  BY DEF TypeOK
<1>1. ASSUME NEW m \in Ids, NEW r \in SendRequests, Dispatch(m, r) PROVE SenderInv'
  <2>1. where[m] = "unborn" /\ \A n \in Ids : where[n] = "unborn" => m <= n
    BY <1>1 DEF Dispatch, First, InQueue
  <2>2. /\ UNCHANGED <<serialOf, serial>>
        /\ \A n \in Ids \ {m} : kind'[n] = kind[n] /\ pred'[n] = pred[n] /\ where'[n] = where[n]
    BY <1>1 DEF Dispatch, TypeOK
  <2>3. \/ /\ kind'[m] = "vim" /\ where'[m] = "vimToSend" /\ pred'[m] = lastVIM
           /\ lastVIM' = m /\ lastUrgent' = lastUrgent
        \/ /\ kind'[m] = "urgent" /\ where'[m] = "urgentToSend" /\ pred'[m] = lastUrgent
           /\ lastUrgent' = m /\ lastVIM' = lastVIM
        \/ /\ kind'[m] = "signal" /\ where'[m] = "urgentToSend" /\ pred'[m] = None
           /\ lastVIM' = m /\ lastUrgent' = lastUrgent
        \/ /\ kind'[m] = "common" /\ where'[m] \in {"urgentToSend", "commonToSend"}
           /\ pred'[m] = None /\ UNCHANGED <<lastVIM, lastUrgent>>
    <3>1. /\ kind'[m] = KindOf(r) /\ pred'[m] = Predecessor(KindOf(r))
          /\ where'[m] = QueueFor(r)
          /\ lastVIM' = IF KindOf(r) \in {"vim", "signal"} THEN m ELSE lastVIM
          /\ lastUrgent' = IF KindOf(r) = "urgent" THEN m ELSE lastUrgent
      BY <1>1 DEF Dispatch, TypeOK
    <3>2. r \in {"vim", "urgent", "signal", "plainUrgent", "common"}
      BY DEF SendRequests, VIMKinds
    <3>3. CASE r # "plainUrgent"
      <4>1. KindOf(r) = r
        BY <3>3 DEF KindOf
      <4>2. CASE r = "vim"
        BY <3>1, <4>1, <4>2 DEF QueueFor, Predecessor
      <4>3. CASE r = "urgent"
        BY <3>1, <4>1, <4>3 DEF QueueFor, Predecessor
      <4>4. CASE r = "signal"
        BY <3>1, <4>1, <4>4 DEF QueueFor, Predecessor
      <4>5. CASE r = "common"
        BY <3>1, <4>1, <4>5 DEF QueueFor, Predecessor
      <4> QED BY <3>2, <3>3, <4>2, <4>3, <4>4, <4>5
    <3>4. CASE r = "plainUrgent"
      BY <3>1, <3>4 DEF KindOf, QueueFor, Predecessor
    <3> QED BY <3>3, <3>4
  <2>4. serialOf[m] = None
    BY <2>1 DEF QueueInv
  <2>5. SerialInv'
    BY <2>2, <2>3 DEF SerialInv
  <2>6. QueueInv'
    BY <2>2, <2>3 DEF QueueInv
  <2>a. /\ lastVIM # None => lastVIM \in Ids \ {m} /\ lastVIM < m
        /\ lastUrgent # None => lastUrgent \in Ids \ {m} /\ lastUrgent < m
    BY <1>a, <1>b, <2>1 DEF LastInv, OrderInv
  <2>b. \A n \in Ids : pred[n] # None => pred[n] \in Ids \ {m}
    BY <1>b, <2>1 DEF OrderInv
  <2>7. OrderInv'
    <3>1. \A i, j \in Ids : where'[i] = "unborn" /\ where'[j] # "unborn" => j < i
      BY <1>a, <2>1, <2>2, <2>3 DEF OrderInv
    <3>2. \A i \in Ids : pred'[i] # None =>
             /\ pred'[i] < i /\ where'[pred'[i]] # "unborn"
             /\ \/ kind'[i] = "vim" /\ kind'[pred'[i]] \in {"vim", "signal"}
                \/ kind'[i] = "urgent" /\ kind'[pred'[i]] = "urgent"
      <4>1. CASE pred'[m] # None
        BY <2>2, <2>3, <2>a, <2>b, <4>1 DEF OrderInv, LastInv
      <4>2. CASE pred'[m] = None
        BY <2>2, <2>b, <4>2 DEF OrderInv
      <4> QED BY <4>1, <4>2
    <3>3. \A i, j \in Ids : pred'[i] # None /\ pred'[i] = pred'[j] => i = j
      BY <2>2, <2>3, <2>a DEF OrderInv, LastInv
    <3> QED BY <3>1, <3>2, <3>3 DEF OrderInv
  <2>8. LastInv'
    BY <1>a, <2>2, <2>3, <2>a, <2>b DEF LastInv
  <2>9. CancelForgetsOrder'
    BY <2>2, <2>3, <2>a, <2>b DEF CancelForgetsOrder, LastInv
  <2>10. PredSerialKnown'
    BY <2>2, <2>4 DEF PredSerialKnown
  <2> QED BY <2>5, <2>6, <2>7, <2>8, <2>9, <2>10
<1>2. ASSUME NEW m \in Ids, Heartbeat(m) PROVE SenderInv'
  <2>1. where[m] = "unborn" /\ \A n \in Ids : where[n] = "unborn" => m <= n
    BY <1>2 DEF Heartbeat, First, InQueue
  <2>2. /\ UNCHANGED <<pred, serialOf, serial, lastVIM, lastUrgent>>
        /\ \A n \in Ids \ {m} : kind'[n] = kind[n] /\ where'[n] = where[n]
        /\ kind'[m] = "dummy" /\ where'[m] = "urgentToSend"
    BY <1>2 DEF Heartbeat, TypeOK
  <2>3. SerialInv' /\ QueueInv'
    BY <2>1, <2>2 DEF SerialInv, QueueInv
  <2>4. OrderInv'
    <3>1. \A n \in Ids : pred[n] # None => pred[n] \in Ids \ {m}
      BY <1>b, <2>1 DEF OrderInv
    <3>2. pred[m] = None
      BY <2>1 DEF QueueInv
    <3>3. \A i, j \in Ids : where'[i] = "unborn" /\ where'[j] # "unborn" => j < i
      BY <1>a, <2>1, <2>2 DEF OrderInv
    <3>4. \A i \in Ids : pred'[i] # None =>
             /\ pred'[i] < i /\ where'[pred'[i]] # "unborn"
             /\ \/ kind'[i] = "vim" /\ kind'[pred'[i]] \in {"vim", "signal"}
                \/ kind'[i] = "urgent" /\ kind'[pred'[i]] = "urgent"
      BY <2>2, <3>1, <3>2 DEF OrderInv
    <3>5. \A i, j \in Ids : pred'[i] # None /\ pred'[i] = pred'[j] => i = j
      BY <2>2 DEF OrderInv
    <3> QED BY <3>3, <3>4, <3>5 DEF OrderInv
  <2>5. LastInv'
    BY <1>b, <2>1, <2>2 DEF LastInv
  <2>6. CancelForgetsOrder' /\ PredSerialKnown'
    BY <1>b, <2>1, <2>2 DEF CancelForgetsOrder, PredSerialKnown, QueueInv
  <2> QED BY <2>3, <2>4, <2>5, <2>6
<1>3. ASSUME NEW m \in Ids, SetDelayMessage(m) PROVE SenderInv'
  <2>1. \/ where[m] = "unborn" /\ \A n \in Ids : where[n] = "unborn" => m <= n
        \/ where[m] = "commonToSend"
    BY <1>3 DEF SetDelayMessage, First, InQueue
  <2>2. kind[m] = "common"
    BY <2>1 DEF QueueInv
  <2>3. /\ UNCHANGED <<kind, pred, serialOf, serial, lastVIM, lastUrgent>>
        /\ \A n \in Ids \ {m} : where'[n] = where[n]
        /\ where'[m] = "urgentToSend"
    BY <1>3, <2>2 DEF SetDelayMessage, TypeOK
  <2>4. SerialInv' /\ QueueInv'
    BY <2>1, <2>2, <2>3 DEF SerialInv, QueueInv
  <2>5. OrderInv'
    BY <1>a, <1>b, <2>1, <2>3 DEF OrderInv
  <2>6. LastInv'
    BY <1>b, <2>1, <2>3 DEF LastInv
  <2>7. CancelForgetsOrder' /\ PredSerialKnown'
    BY <1>b, <2>1, <2>3 DEF CancelForgetsOrder, PredSerialKnown, QueueInv, Queues
  <2> QED BY <2>4, <2>5, <2>6, <2>7
<1>4. ASSUME NEW m \in Ids, Obsolete(m) PROVE SenderInv'
  <2>1. where[m] = "commonToSend" /\ kind[m] = "common"
    BY <1>4 DEF Obsolete, First, InQueue, QueueInv
  <2>2. /\ UNCHANGED <<kind, pred, serialOf, serial, lastVIM, lastUrgent>>
        /\ \A n \in Ids \ {m} : where'[n] = where[n]
        /\ where'[m] = "dropped"
    BY <1>4 DEF Obsolete, TypeOK
  <2>3. SerialInv' /\ QueueInv'
    BY <2>1, <2>2 DEF SerialInv, QueueInv
  <2>4. OrderInv'
    BY <1>b, <2>1, <2>2 DEF OrderInv
  <2>5. LastInv'
    BY <1>b, <2>1, <2>2 DEF LastInv
  <2>6. CancelForgetsOrder' /\ PredSerialKnown'
    BY <1>b, <2>1, <2>2 DEF CancelForgetsOrder, PredSerialKnown, OrderInv, Queues
  <2> QED BY <2>3, <2>4, <2>5, <2>6
<1>5. ASSUME NEW m \in Ids, Send(m) PROVE SenderInv'
  <2>1. /\ UNCHANGED <<kind, pred, lastVIM, lastUrgent>>
        /\ \A n \in Ids \ {m} : where'[n] = where[n]
        /\ where'[m] = "prepared"
    BY <1>5 DEF Send, TypeOK
  <2>2. where[m] \in Queues
    BY <1>5 DEF Send, Sendable, First, InQueue, NewIn, Queues
  <2>3. \A n \in Ids \ {m} : serialOf'[n] = serialOf[n]
    BY <1>5 DEF Send, TypeOK
  <2>4. IF serialOf[m] = None THEN serialOf'[m] = serial /\ serial' = serial + 1
                              ELSE serialOf'[m] = serialOf[m] /\ serial' = serial
    BY <1>5 DEF Send, TypeOK
  <2>5. serialOf \in [Ids -> Nat] /\ serial \in Nat \ {0}
    BY DEF TypeOK
  <2>6. SerialInv'
    BY <2>1, <2>3, <2>4, <2>5 DEF SerialInv
  <2>7. QueueInv'
    BY <2>1, <2>2, <2>3, <2>4, <2>5 DEF QueueInv, Queues
  <2>8. OrderInv' /\ LastInv'
    BY <1>b, <2>1, <2>2 DEF OrderInv, LastInv, Queues
  <2>9. CancelForgetsOrder'
    BY <1>b, <2>1, <2>3 DEF CancelForgetsOrder, Queues
  <2>10. ASSUME serialOf[m] = None, pred[m] # None PROVE serialOf[pred[m]] # None
    <3> DEFINE p == pred[m]
    <3>1. SUFFICES ASSUME serialOf[p] = None PROVE FALSE
      OBVIOUS
    <3>2. /\ p \in Ids /\ p < m /\ where[p] # "unborn"
          /\ \/ kind[m] = "vim" /\ kind[p] \in {"vim", "signal"}
             \/ kind[m] = "urgent" /\ kind[p] = "urgent"
      BY <2>10 DEF OrderInv, TypeOK
    <3>3. where[p] # "dropped"
      BY <2>2, <2>10 DEF CancelForgetsOrder
    <3>4. CASE kind[m] = "vim"
      <4>1. where[m] = "vimToSend"
        BY <2>2, <2>10, <3>4 DEF QueueInv, Queues
      <4>2. InQueue("urgentToSend") = {} /\ First(m, InQueue("vimToSend"))
        BY <1>5, <4>1 DEF Send, Sendable, First, InQueue, NewIn
      <4>3. where[p] \in {"vimToSend", "urgentToSend"}
        BY <3>1, <3>2, <3>3, <3>4 DEF QueueInv
      <4> QED BY <1>a, <3>2, <4>2, <4>3 DEF First, InQueue
    <3>5. CASE kind[m] = "urgent"
      <4>1. where[m] = "urgentToSend"
        BY <2>2, <2>10, <3>5 DEF QueueInv, Queues
      <4>2. First(m, {n \in NewIn("urgentToSend") : kind[n] # "common"})
        BY <1>5, <2>10, <3>5, <4>1 DEF Send, Sendable, First, InQueue
      <4>3. where[p] = "urgentToSend"
        BY <3>1, <3>2, <3>3, <3>5 DEF QueueInv
      <4> QED BY <1>a, <3>1, <3>2, <4>2, <4>3 DEF First, NewIn, InQueue
    <3> QED BY <3>2, <3>4, <3>5
  <2>11. PredSerialKnown'
    BY <2>1, <2>3, <2>4, <2>5, <2>10 DEF PredSerialKnown, TypeOK
  <2> QED BY <2>6, <2>7, <2>8, <2>9, <2>11
<1>6. ASSUME NEW m \in Ids, PostSend(m) PROVE SenderInv'
  <2>1. /\ UNCHANGED <<kind, pred, serialOf, serial, lastVIM, lastUrgent>>
        /\ \A n \in Ids \ {m} : where'[n] = where[n]
        /\ where[m] = "prepared" /\ where'[m] = "revisited"
    BY <1>6 DEF PostSend, TypeOK
  <2>3. SerialInv' /\ QueueInv'
    BY <2>1 DEF SerialInv, QueueInv, Queues
  <2>4. OrderInv'
    BY <1>b, <2>1 DEF OrderInv, Queues
  <2>5. LastInv'
    BY <1>b, <2>1 DEF LastInv
  <2>6. CancelForgetsOrder' /\ PredSerialKnown'
    BY <1>b, <2>1 DEF CancelForgetsOrder, PredSerialKnown, Queues
  <2> QED BY <2>3, <2>4, <2>5, <2>6
<1>7. ASSUME NEW m \in Ids, AckTimeout(m) PROVE SenderInv'
  <2>1. /\ UNCHANGED <<kind, pred, serialOf, serial, lastVIM, lastUrgent>>
        /\ \A n \in Ids \ {m} : where'[n] = where[n]
        /\ where[m] = "revisited"
        /\ IF VIM(m) THEN where'[m] = "urgentToSend" ELSE where'[m] = "dropped"
    BY <1>7 DEF AckTimeout, TypeOK
  <2>2. serialOf[m] # None
    BY <2>1 DEF SerialInv
  <2>3. SerialInv' /\ QueueInv'
    BY <2>1, <2>2 DEF SerialInv, QueueInv
  <2>4. OrderInv' /\ LastInv'
    BY <1>b, <2>1 DEF OrderInv, LastInv, VIM, VIMKinds
  <2>5. CancelForgetsOrder' /\ PredSerialKnown'
    BY <1>b, <2>1, <2>2
    DEF CancelForgetsOrder, PredSerialKnown, OrderInv, VIM, VIMKinds, Queues
  <2> QED BY <2>3, <2>4, <2>5
<1>8. ASSUME NEW c \in acks, ReceiveAck(c) PROVE SenderInv'
  <2>1. /\ UNCHANGED <<kind, pred, serialOf, serial, lastVIM, lastUrgent>>
        /\ \A n \in Ids : \/ where'[n] = where[n]
                          \/ where[n] = "revisited" /\ where'[n] = "acked"
    BY <1>8 DEF ReceiveAck, TypeOK
  <2>2. SerialInv' /\ QueueInv'
    BY <2>1 DEF SerialInv, QueueInv
  <2>3. OrderInv'
    BY <1>b, <2>1 DEF OrderInv
  <2>4. LastInv'
    BY <1>b, <2>1 DEF LastInv
  <2>5. CancelForgetsOrder' /\ PredSerialKnown'
    BY <1>b, <2>1 DEF CancelForgetsOrder, PredSerialKnown, Queues
  <2> QED BY <2>2, <2>3, <2>4, <2>5
<1>9. CASE CancelAllMessages
  <2>1. /\ UNCHANGED <<kind, pred, serialOf, serial>>
        /\ lastVIM' = None /\ lastUrgent' = None
        /\ \A n \in Ids : where'[n] = IF where[n] \in Queues THEN "dropped" ELSE where[n]
    BY <1>9 DEF CancelAllMessages, TypeOK
  <2>3. SerialInv' /\ QueueInv'
    BY <2>1 DEF SerialInv, QueueInv, Queues
  <2>4. OrderInv'
    BY <1>b, <2>1 DEF OrderInv, Queues
  <2>5. LastInv'
    BY <1>b, <2>1 DEF LastInv
  <2>6. CancelForgetsOrder' /\ PredSerialKnown'
    BY <1>b, <2>1 DEF CancelForgetsOrder, PredSerialKnown, Queues
  <2> QED BY <2>3, <2>4, <2>5, <2>6
<1> QED
  BY <1>1, <1>2, <1>3, <1>4, <1>5, <1>6, <1>7, <1>8, <1>9 DEF SenderNext

LEMMA NextSenderInv == TypeOK /\ SenderInv /\ [Next]_vars => SenderInv'
<1>1. ReceiverNext \/ NetworkNext \/ UNCHANGED vars => UNCHANGED senderVars
  BY DEF ReceiverNext, NetworkNext, Receive, ProcessVIM, EmitAck, EmitDelayReply, PutAck,
         LosePacket, LoseAck, vars, senderVars
<1> QED
  BY <1>1, SenderStep, SenderUnchanged DEF Next

(* The sender's records agree: serials are unique, messages sit in the queue of
   their class, the two chains of ordered messages are lists, and lastVIM and
   lastUrgent are their ends.                                              *)
THEOREM SenderInvariant == Spec => []SenderInv
  BY TypeCorrect, InitSenderInv, NextSenderInv, PTL DEF Spec

(* A packet with MSG_ORDERED_FLAG never leaves before its predecessor has a
   serial: the order of the queues (urgent, guaranteed, common; oldest first)
   is what makes setOutputData's NET_ERROR unreachable.                     *)
THEOREM PredecessorNumbered == Spec => []PredSerialKnown
  BY SenderInvariant, PTL DEF SenderInv

(* cancelAllMessages leaves no waiting message ordered behind a dropped one.  *)
THEOREM CancelForgets == Spec => []CancelForgetsOrder
  BY SenderInvariant, PTL DEF SenderInv

-----------------------------------------------------------------------------
(* The receiver's half.  It needs the environment's promise that the channel
   is dropped before the sender runs further ahead than the masks reach.    *)

LEMMA InitReceiverInv == Init => ReceiverInv
  BY ConstantsAssumption
  DEF Init, ReceiverInv, WindowInv, RecordInv, ExactlyOnce, OrderedDelivery, AckSound,
      NothingStranded, Accepted, Received, Passed, Ids, Serials

(* A step that touches neither the serials nor the receiver, and leaves every
   numbered message what it is.                                             *)
LEMMA QuietStep ==
    ASSUME TypeOK, SenderInv, ReceiverInv,
           UNCHANGED <<serialOf, serial, windowVars, userVars, wire, acks>>,
           \A n \in Ids : serialOf[n] # None => kind'[n] = kind[n] /\ pred'[n] = pred[n],
           \A n \in Ids : where'[n] = "acked" => where[n] = "acked"
    PROVE  ReceiverInv'
<1> USE DEF windowVars, userVars
<1>1. \A n \in Ids : /\ Accepted(n)' <=> Accepted(n)
                     /\ Passed(n)' <=> Passed(n)
                     /\ Received(serialOf[n])' <=> Received(serialOf[n])
  BY DEF Accepted, Passed, Received
<1>2. \A n \in Ids : Accepted(n) => kind'[n] = kind[n] /\ pred'[n] = pred[n]
  BY DEF ReceiverInv, RecordInv
<1>3. \A n \in Ids : pred[n] # None => pred[n] \in Ids
  BY DEF TypeOK
<1>4. WindowInv'
  BY DEF ReceiverInv, WindowInv
<1>5. \A n \in Ids : \A c \in acks \cup {ackMask} : serialOf[n] \in c => serialOf[n] # None
  BY DEF ReceiverInv, WindowInv
<1>6. RecordInv'
  <2>1. \A n \in Ids : Accepted(n)' => serialOf'[n] # None /\ Received(serialOf[n])'
    BY <1>1 DEF ReceiverInv, RecordInv
  <2>2. \A n \in Ids : serialOf'[n] \in procMask' => delivered'[n] > 0
    BY DEF ReceiverInv, RecordInv
  <2>3. \A n \in Ids : delivered'[n] > 0 /\ VIM(n)' => serialOf'[n] \in procMask' \/ Passed(n)'
    BY <1>1, <1>2 DEF ReceiverInv, RecordInv, Accepted, VIM
  <2>4. \A n \in Ids : (\E c \in acks' \cup {ackMask'} : serialOf'[n] \in c) /\ kind'[n] # "dummy"
                     => Accepted(n)' \/ Passed(n)'
    BY <1>1, <1>5 DEF ReceiverInv, RecordInv
  <2>5. /\ \A n \in deferred' : VIM(n)'
        /\ busy' # None => VIM(busy)'
    BY <1>2 DEF ReceiverInv, RecordInv, Accepted, VIM, TypeOK
  <2> QED BY <2>1, <2>2, <2>3, <2>4, <2>5 DEF RecordInv
<1>7. ExactlyOnce'
  BY DEF ReceiverInv, ExactlyOnce
<1>8. OrderedDelivery'
  BY <1>1, <1>2, <1>3 DEF ReceiverInv, OrderedDelivery, Accepted
<1>9. AckSound'
  <2>1. \A n \in Ids : where[n] = "acked" => serialOf[n] # None
    BY DEF SenderInv, SerialInv
  <2> QED BY <1>1, <2>1 DEF ReceiverInv, AckSound
<1>10. NothingStranded'
  BY <1>2 DEF ReceiverInv, NothingStranded, Accepted, TypeOK
<1> QED BY <1>4, <1>6, <1>7, <1>8, <1>9, <1>10 DEF ReceiverInv

LEMMA SendStep ==
    ASSUME TypeOK, SenderInv, ReceiverInv, NEW m \in Ids, Send(m)
    PROVE  ReceiverInv'
<1>1. /\ UNCHANGED <<kind, pred, ackMask, procMask, ackMaskMin, inputMax,
                     deferred, busy, delivered, acks>>
      /\ \A n \in Ids : where'[n] = "acked" => where[n] = "acked"
      /\ \A n \in Ids \ {m} : serialOf'[n] = serialOf[n]
      /\ wire' = wire \cup {m}
  BY DEF Send, windowVars, oweVars, userVars, TypeOK
<1>2. CASE serialOf[m] # None
  <2>1. serialOf' = serialOf /\ serial' = serial
    BY <1>2 DEF Send
  <2> QED
    BY <1>1, <1>2, <2>1
    DEF ReceiverInv, WindowInv, RecordInv, ExactlyOnce, OrderedDelivery, AckSound,
        NothingStranded, Accepted, Passed, Received, VIM
<1>3. CASE serialOf[m] = None
  <2>1. serialOf'[m] = serial /\ serial' = serial + 1 /\ serial <= inputMax + MaxAhead
    BY <1>3 DEF Send, TypeOK
  <2>2. serial \in Nat \ {0} /\ serialOf \in [Ids -> Nat]
        /\ ackMask \subseteq Nat /\ procMask \subseteq Nat /\ acks \subseteq SUBSET Nat
    BY DEF TypeOK
  <2>3. serial \notin ackMask /\ serial \notin procMask /\ \A c \in acks : serial \notin c
    BY <2>2 DEF ReceiverInv, WindowInv
  <2>4. /\ ~Accepted(m)
        /\ \A n \in Ids : Accepted(n)' <=> Accepted(n)
        /\ \A n \in Ids \ {m} : Passed(n)' <=> Passed(n)
        /\ ~Passed(m)
    BY <1>1, <1>3 DEF Accepted, Passed, ReceiverInv, RecordInv
  <2>5. WindowInv'
    <3>1. inputMax \in Nat /\ MaxAhead \in Nat
      BY ConstantsAssumption DEF TypeOK
    <3>2. \A s \in ackMask' \cup procMask' \cup UNION acks' : s # None /\ s < serial'
      <4>1. \A s \in ackMask \cup procMask \cup UNION acks : s \in Nat /\ s # None /\ s < serial
        BY <2>2 DEF ReceiverInv, WindowInv
      <4> QED BY <1>1, <2>1, <2>2, <4>1
    <3>3. \A n \in wire' : serialOf'[n] # None
      BY <1>1, <2>1, <2>2 DEF ReceiverInv, WindowInv, TypeOK
    <3>4. \A n \in Ids : serialOf'[n] <= inputMax' + MaxAhead
      BY <1>1, <2>1, <3>1 DEF ReceiverInv, WindowInv
    <3> QED BY <1>1, <3>2, <3>3, <3>4 DEF ReceiverInv, WindowInv
  <2>6. RecordInv'
    <3>1. \A n \in Ids : Accepted(n)' => serialOf'[n] # None /\ Received(serialOf[n])'
      BY <1>1, <2>4 DEF ReceiverInv, RecordInv, Received
    <3>2. \A n \in Ids : serialOf'[n] \in procMask' => delivered'[n] > 0
      BY <1>1, <2>1, <2>3 DEF ReceiverInv, RecordInv
    <3>3. \A n \in Ids : delivered'[n] > 0 /\ VIM(n)' => serialOf'[n] \in procMask' \/ Passed(n)'
      BY <1>1, <2>4 DEF ReceiverInv, RecordInv, Accepted, VIM
    <3>4. \A n \in Ids : (\E c \in acks' \cup {ackMask'} : serialOf'[n] \in c) /\ kind'[n] # "dummy"
                     => Accepted(n)' \/ Passed(n)'
      BY <1>1, <2>1, <2>3, <2>4 DEF ReceiverInv, RecordInv
    <3>5. /\ \A n \in deferred' : VIM(n)'
          /\ busy' # None => VIM(busy)'
      BY <1>1 DEF ReceiverInv, RecordInv, VIM
    <3> QED BY <3>1, <3>2, <3>3, <3>4, <3>5 DEF RecordInv
  <2>7. ExactlyOnce' /\ NothingStranded'
    BY <1>1 DEF ReceiverInv, ExactlyOnce, NothingStranded
  <2>8. OrderedDelivery'
    <3>1. \A n \in Ids : pred[n] # None => pred[n] \in Ids
      BY DEF TypeOK
    <3> QED BY <1>1, <2>4, <3>1 DEF ReceiverInv, OrderedDelivery, Accepted
  <2>9. AckSound'
    BY <1>1, <2>4 DEF ReceiverInv, AckSound
  <2> QED BY <2>5, <2>6, <2>7, <2>8, <2>9 DEF ReceiverInv
<1> QED BY <1>2, <1>3

(* Steps that only take packets or acknowledgements off the network, or put a
   part of the mask into a new one.                                          *)
LEMMA NetworkStep ==
    ASSUME TypeOK, SenderInv, ReceiverInv,
           UNCHANGED <<senderVars, windowVars, userVars>>,
           wire' \subseteq wire,
           \A c \in acks' : c \in acks \/ c \subseteq ackMask
    PROVE  ReceiverInv'
<1> USE DEF senderVars, windowVars, userVars
<1>1. \A n \in Ids : /\ Accepted(n)' <=> Accepted(n)
                     /\ Passed(n)' <=> Passed(n)
                     /\ Received(serialOf[n])' <=> Received(serialOf[n])
                     /\ VIM(n)' <=> VIM(n)
  BY DEF Accepted, Passed, Received, VIM
<1>2. WindowInv'
  BY DEF ReceiverInv, WindowInv
<1>3. RecordInv'
  <2>1. \A n \in Ids : (\E c \in acks' \cup {ackMask'} : serialOf'[n] \in c) /\ kind'[n] # "dummy"
                     => Accepted(n)' \/ Passed(n)'
    BY <1>1 DEF ReceiverInv, RecordInv
  <2> QED BY <1>1, <2>1 DEF ReceiverInv, RecordInv, TypeOK
<1>4. ExactlyOnce' /\ OrderedDelivery' /\ AckSound' /\ NothingStranded'
  BY <1>1 DEF ReceiverInv, ExactlyOnce, OrderedDelivery, AckSound, NothingStranded, TypeOK,
              Accepted, Passed
<1> QED BY <1>2, <1>3, <1>4 DEF ReceiverInv

(* An acknowledged message is one the receiver answers for.                *)
LEMMA ReceiveAckStep ==
    ASSUME TypeOK, SenderInv, ReceiverInv, NEW c \in acks, ReceiveAck(c)
    PROVE  ReceiverInv'
<1> USE DEF windowVars, userVars
<1>1. /\ UNCHANGED <<kind, pred, serialOf, serial, windowVars, userVars, wire>>
      /\ acks' \subseteq acks
      /\ \A n \in Ids : where'[n] = "acked" => where[n] = "acked" \/ serialOf[n] \in c
  BY DEF ReceiveAck, TypeOK
<1>2. \A n \in Ids : /\ Accepted(n)' <=> Accepted(n)
                     /\ Passed(n)' <=> Passed(n)
                     /\ Received(serialOf[n])' <=> Received(serialOf[n])
                     /\ VIM(n)' <=> VIM(n)
  BY <1>1 DEF Accepted, Passed, Received, VIM
<1>3. WindowInv'
  BY <1>1 DEF ReceiverInv, WindowInv
<1>4. RecordInv'
  BY <1>1, <1>2 DEF ReceiverInv, RecordInv, TypeOK
<1>5. ExactlyOnce' /\ OrderedDelivery' /\ NothingStranded'
  BY <1>1, <1>2 DEF ReceiverInv, ExactlyOnce, OrderedDelivery, NothingStranded, TypeOK,
                    Accepted, Passed
<1>6. AckSound'
  BY <1>1, <1>2 DEF ReceiverInv, RecordInv, AckSound
<1> QED BY <1>3, <1>4, <1>5, <1>6 DEF ReceiverInv

(* The packet of a message the channel has seen, or passed.                  *)
LEMMA DuplicateStep ==
    ASSUME TypeOK, SenderInv, ReceiverInv,
           NEW m \in wire, Receive(m), Received(serialOf[m])
    PROVE  ReceiverInv'
<1>1. UNCHANGED <<senderVars, windowVars, userVars>> /\ wire' \subseteq wire /\ acks' = acks
  BY DEF Receive
<1> QED BY <1>1, NetworkStep

LEMMA EmitStep ==
    ASSUME TypeOK, SenderInv, ReceiverInv,
           \E w \in AckWidths : EmitAck(w) \/ \E s \in ackMask : EmitDelayReply(s, w)
    PROVE  ReceiverInv'
<1>1. PICK newest, width : PutAck(newest, width)
  BY DEF EmitAck, EmitDelayReply
<1>2. UNCHANGED <<senderVars, windowVars, userVars, wire>>
      /\ acks' = acks \cup {Covered(newest, width) \cap ackMask}
  BY <1>1 DEF PutAck
<1> QED BY <1>2, NetworkStep

(* What inputStatistics does to the window when the serial is new and within
   the reach of the masks.                                                 *)
LEMMA WindowStep ==
    ASSUME TypeOK, WindowInv, NEW s \in Nat \ {0}, MaxAhead <= MaxChannelBitMask,
           s <= inputMax + MaxAhead, ~Received(s), InputStatistics(s)
    PROVE  /\ WithinSpan(s)
           /\ ackMaskMin <= ackMaskMin' /\ ackMaskMin' <= s
           /\ inputMax <= inputMax' /\ inputMax' <= ackMaskMin' + MaxChannelBitMask
           /\ ackMask' = {x \in ackMask \cup {s} : x >= ackMaskMin'}
           /\ procMask' = {x \in procMask : x >= ackMaskMin'}
<1>1. /\ inputMax \in Nat /\ ackMaskMin \in Nat /\ MaxChannelBitMask \in Nat
      /\ MaxAhead \in Nat /\ GoodChannelBitMask \in Nat
      /\ GoodChannelBitMask < MaxChannelBitMask
  BY ConstantsAssumption DEF TypeOK
<1>2. ackMaskMin <= s /\ inputMax <= ackMaskMin + MaxChannelBitMask
  BY <1>1 DEF Received, WindowInv
<1>3. WithinSpan(s)
  BY <1>1, <1>2 DEF WithinSpan
<1>4. /\ inputMax' = NewInputMax(s) /\ ackMaskMin' = NewMaskMin(s)
      /\ ackMask' = {x \in ackMask \cup {s} : x >= ackMaskMin'}
      /\ procMask' = {x \in procMask : x >= ackMaskMin'}
  BY <1>3 DEF InputStatistics
<1>5. /\ ackMaskMin <= ackMaskMin' /\ ackMaskMin' <= s
      /\ inputMax <= inputMax' /\ inputMax' <= ackMaskMin' + MaxChannelBitMask
  BY <1>1, <1>2, <1>4 DEF NewInputMax, NewMaskMin, Bigger
<1> QED BY <1>3, <1>4, <1>5

(* A packet the channel has not seen yet.                                  *)
LEMMA NewPacketStep ==
    ASSUME TypeOK, SenderInv, ReceiverInv, MaxAhead <= MaxChannelBitMask,
           NEW m \in wire, Receive(m), ~Received(serialOf[m])
    PROVE  ReceiverInv'
<1> DEFINE s == serialOf[m]
<1>1. /\ m \in Ids /\ s \in Nat \ {0} /\ s < serial /\ s <= inputMax + MaxAhead
      /\ inputMax \in Nat /\ ackMaskMin \in Nat /\ MaxAhead \in Nat
      /\ inputMax' \in Nat /\ ackMaskMin' \in Nat
  <2>1. TypeOK'
    BY NextTypeOK DEF Next, ReceiverNext
  <2> QED BY <2>1, ConstantsAssumption DEF TypeOK, ReceiverInv, WindowInv, SenderInv, SerialInv
<1>2. /\ UNCHANGED <<senderVars, acks>> /\ wire' \subseteq wire
      /\ InputStatistics(s) /\ busy = None
  BY DEF Receive
<1>3. /\ ackMaskMin <= ackMaskMin' /\ ackMaskMin' <= s
      /\ inputMax <= inputMax' /\ inputMax' <= ackMaskMin' + MaxChannelBitMask
      /\ ackMask' = {x \in ackMask \cup {s} : x >= ackMaskMin'}
      /\ procMask' = {x \in procMask : x >= ackMaskMin'}
  BY <1>1, <1>2, WindowStep DEF ReceiverInv
<1>4. UNCHANGED <<kind, pred, where, serialOf, serial>>
  BY <1>2 DEF senderVars
<1>5. ~Accepted(m)
  BY <1>1 DEF ReceiverInv, RecordInv
<1>6. \/ kind[m] = "dummy" /\ UNCHANGED <<delivered, deferred, busy>>
      \/ /\ kind[m] = "common"
         /\ delivered' = [delivered EXCEPT ![m] = @ + 1]
         /\ UNCHANGED <<deferred, busy>>
      \/ /\ VIM(m) /\ Waits(m)
         /\ deferred' = deferred \cup {m}
         /\ UNCHANGED <<busy, delivered>>
      \/ /\ VIM(m) /\ ~Waits(m)
         /\ busy' = m
         /\ UNCHANGED <<deferred, delivered>>
  BY DEF Receive, userVars
<1>7. delivered[m] = 0 /\ m \notin deferred /\ \A n \in Ids : delivered[n] \in Nat
  BY <1>1, <1>5 DEF Accepted, TypeOK
<1>8. \A n \in Ids : n # m => /\ delivered'[n] = delivered[n]
                              /\ n \in deferred' <=> n \in deferred
                              /\ busy' # n
  <2>1. m # None /\ \A n \in Ids : n # None
    BY <1>1 DEF Ids
  <2>2. \A n \in Ids : n # m => delivered'[n] = delivered[n]
    BY <1>6 DEF TypeOK
  <2>3. \A n \in Ids : n # m => (n \in deferred' <=> n \in deferred)
    BY <1>6
  <2>4. busy' \in {None, m}
    BY <1>2, <1>6
  <2> QED BY <2>1, <2>2, <2>3, <2>4
<1>8a. /\ delivered'[m] \in {0, 1}
       /\ delivered'[m] = 1 => kind[m] = "common" /\ m \notin deferred' /\ busy' # m
  <2>1. delivered \in [Ids -> Nat] /\ m # None
    BY <1>1 DEF TypeOK, Ids
  <2>2. CASE kind[m] = "common" /\ delivered' = [delivered EXCEPT ![m] = @ + 1]
             /\ UNCHANGED <<deferred, busy>>
    BY <1>1, <1>2, <1>7, <2>1, <2>2
  <2>3. CASE delivered' = delivered
    BY <1>7, <2>3
  <2> QED BY <1>6, <2>2, <2>3
<1>8b. /\ m \in deferred' => VIM(m) /\ Waits(m) /\ busy' # m
       /\ busy' = m => VIM(m) /\ ~Waits(m)
       /\ busy' \in {None, m} /\ deferred' \subseteq deferred \cup {m}
  BY <1>1, <1>2, <1>6, <1>7 DEF Ids
<1>8c. kind[m] # "dummy" => delivered'[m] = 1 \/ m \in deferred' \/ busy' = m
  BY <1>1, <1>6, <1>7 DEF TypeOK
<1>9. \A n \in Ids : /\ n # m => (Accepted(n)' <=> Accepted(n))
                     /\ Passed(n) => Passed(n)'
                     /\ Received(serialOf[n]) => Received(serialOf[n])'
                     /\ VIM(n)' <=> VIM(n)
                     /\ serialOf[n] \in Nat
  <2>1. \A n \in Ids : serialOf[n] \in Nat
    BY DEF TypeOK
  <2>2. \A n \in Ids : n # m => (Accepted(n)' <=> Accepted(n))
    BY <1>2, <1>8 DEF Accepted, Ids
  <2>3. \A n \in Ids : Passed(n) => Passed(n)'
    BY <1>1, <1>3, <1>4, <2>1 DEF Passed
  <2>4. \A n \in Ids : Received(serialOf[n]) => Received(serialOf[n])'
    BY <1>1, <1>3, <1>4, <2>1 DEF Received
  <2> QED BY <1>4, <2>1, <2>2, <2>3, <2>4 DEF VIM
<1>10. \A n \in Ids : serialOf[n] = s => n = m
  BY <1>1 DEF SenderInv, SerialInv
<1>11. \A n \in Ids : pred[n] # None =>
          /\ pred[n] \in Ids /\ VIM(pred[n]) /\ VIM(n) /\ kind[pred[n]] \notin {"common", "dummy"}
          /\ serialOf[n] # None => serialOf[pred[n]] # None
  BY DEF TypeOK, SenderInv, OrderInv, PredSerialKnown, VIM, VIMKinds
<1>12. WindowInv'
  <2>1. \A x \in ackMask' \cup procMask' \cup UNION acks' : x # None /\ x < serial'
    BY <1>1, <1>2, <1>3, <1>4 DEF ReceiverInv, WindowInv
  <2>2. \A n \in Ids : serialOf'[n] <= inputMax' + MaxAhead
    BY <1>1, <1>3, <1>4, <1>9 DEF ReceiverInv, WindowInv
  <2>3. \A n \in wire' : serialOf'[n] # None
    BY <1>2, <1>4 DEF ReceiverInv, WindowInv
  <2> QED BY <1>3, <2>1, <2>2, <2>3 DEF WindowInv
<1>13. RecordInv'
  <2>1. \A n \in Ids : Accepted(n)' => serialOf'[n] # None /\ Received(serialOf[n])'
    <3>1. Received(s)' /\ s # None
      BY <1>1, <1>3, <1>4 DEF Received
    <3> QED BY <1>4, <1>9, <3>1 DEF ReceiverInv, RecordInv
  <2>2. \A n \in Ids : serialOf'[n] \in procMask' => delivered'[n] > 0
    BY <1>3, <1>4, <1>7, <1>8, <1>8a, <1>8b DEF ReceiverInv, RecordInv
  <2>3. \A n \in Ids : delivered'[n] > 0 /\ VIM(n)' => serialOf'[n] \in procMask' \/ Passed(n)'
    <3>1. \A n \in Ids \ {m} : delivered'[n] > 0 /\ VIM(n)'
                              => serialOf[n] \in procMask \/ Passed(n)
      BY <1>8, <1>9 DEF ReceiverInv, RecordInv
    <3>2. \A n \in Ids : serialOf[n] \in procMask => serialOf'[n] \in procMask' \/ Passed(n)'
      BY <1>1, <1>3, <1>4, <1>9 DEF Passed, ReceiverInv, WindowInv
    <3>3. ~(delivered'[m] > 0 /\ VIM(m)')
      BY <1>1, <1>8, <1>8a, <1>8b, <1>9 DEF VIM, VIMKinds
    <3> QED BY <1>9, <3>1, <3>2, <3>3
  <2>4. \A n \in Ids : (\E c \in acks' \cup {ackMask'} : serialOf'[n] \in c) /\ kind'[n] # "dummy"
                     => Accepted(n)' \/ Passed(n)'
    <3>1. kind[m] # "dummy" => Accepted(m)'
      BY <1>8c DEF Accepted
    <3>2. \A n \in Ids \ {m} : (\E c \in acks' \cup {ackMask'} : serialOf'[n] \in c)
                        => \E c \in acks \cup {ackMask} : serialOf[n] \in c
      BY <1>2, <1>3, <1>4, <1>10
    <3> QED BY <1>4, <1>9, <3>1, <3>2 DEF ReceiverInv, RecordInv
  <2>5. \A n \in deferred' : VIM(n)'
    BY <1>1, <1>8, <1>8a, <1>8b, <1>9 DEF ReceiverInv, RecordInv, TypeOK, VIM, VIMKinds
  <2>6. busy' # None => VIM(busy)'
    BY <1>1, <1>2, <1>4, <1>6 DEF VIM
  <2> QED BY <2>1, <2>2, <2>3, <2>4, <2>5, <2>6 DEF RecordInv
<1>14. ExactlyOnce'
  BY <1>7, <1>8, <1>8a, <1>8b DEF ReceiverInv, ExactlyOnce
<1>15. OrderedDelivery'
  <2>1. \A n \in Ids : delivered[n] > 0 => delivered'[n] > 0
    BY <1>7, <1>8, <1>8a, <1>8b
  <2>2. ASSUME NEW n \in Ids, n # m, delivered'[n] > 0 \/ busy' = n, pred[n] # None
        PROVE  delivered'[pred[n]] > 0 \/ Passed(pred[n])'
    <3>1. delivered[n] > 0
      BY <1>8, <2>2
    <3>2. pred[n] \in Ids /\ (delivered[pred[n]] > 0 \/ Passed(pred[n]))
      BY <1>11, <2>2, <3>1 DEF ReceiverInv, OrderedDelivery
    <3> QED BY <1>4, <1>9, <2>1, <3>2 DEF Passed
  <2>3. ASSUME delivered'[m] > 0 \/ busy' = m, pred[m] # None
        PROVE  delivered'[pred[m]] > 0 \/ Passed(pred[m])'
    <3>1. ~Waits(m)
      BY <1>1, <1>8a, <1>8b, <1>11, <2>3 DEF VIM, VIMKinds
    <3>2. serialOf[pred[m]] < ackMaskMin' \/ serialOf[pred[m]] \in procMask'
      BY <1>1, <1>9, <1>11, <2>3, <3>1 DEF Waits
    <3>3. serialOf[pred[m]] \in procMask' => delivered[pred[m]] > 0
      BY <1>1, <1>3, <1>11, <2>3 DEF ReceiverInv, RecordInv
    <3>4. serialOf[pred[m]] # None
      BY <1>1, <1>11, <2>3
    <3> QED BY <1>1, <1>4, <1>11, <2>1, <2>3, <3>2, <3>3, <3>4 DEF Passed
  <2> QED BY <1>4, <2>2, <2>3 DEF OrderedDelivery
<1>16. AckSound'
  <2>1. \A n \in Ids : Accepted(n) => Accepted(n)'
    BY <1>5, <1>9
  <2> QED BY <1>4, <1>9, <2>1 DEF ReceiverInv, AckSound
<1>17. NothingStranded'
  <2>1. \A n \in deferred \ {m} : pred'[n] # None /\ delivered'[pred'[n]] = 0
    <3>1. \A n \in Ids : pred[n] = m => delivered'[m] = 0
      BY <1>1, <1>8, <1>8a, <1>8b, <1>11 DEF Ids
    <3> QED BY <1>4, <1>8, <1>8a, <1>11, <3>1 DEF ReceiverInv, NothingStranded, TypeOK
  <2>2. m \in deferred' => pred[m] # None /\ delivered'[pred[m]] = 0
    <3>1. SUFFICES ASSUME m \in deferred' PROVE pred[m] # None /\ delivered'[pred[m]] = 0
      OBVIOUS
    <3>2. /\ pred[m] # None /\ serialOf[pred[m]] >= ackMaskMin'
          /\ serialOf[pred[m]] \notin procMask'
      BY <1>8b, <3>1 DEF Waits, VIM, VIMKinds
    <3>3. serialOf[pred[m]] \notin procMask /\ ~Passed(pred[m])
      BY <1>1, <1>3, <1>9, <1>11, <3>2 DEF Passed
    <3>4. delivered[pred[m]] = 0
      BY <1>1, <1>7, <1>11, <3>2, <3>3 DEF ReceiverInv, RecordInv
    <3>5. pred[m] # m
      BY <1>1, <3>2 DEF SenderInv, OrderInv, Ids
    <3> QED BY <1>1, <1>8, <1>8a, <1>11, <3>2, <3>4, <3>5
  <2> QED BY <1>4, <1>8, <1>8b, <2>1, <2>2 DEF NothingStranded
<1> QED BY <1>12, <1>13, <1>14, <1>15, <1>16, <1>17 DEF ReceiverInv

(* The call-back of a guaranteed message returns.                          *)
LEMMA ProcessVIMStep ==
    ASSUME TypeOK, SenderInv, ReceiverInv, ProcessVIM
    PROVE  ReceiverInv'
<1> DEFINE b == busy
<1>1. /\ b \in Ids /\ b # None /\ VIM(b)
      /\ delivered[b] = 0 /\ b \notin deferred /\ deferred \subseteq Ids
      /\ serialOf[b] \in Nat \ {0} /\ serialOf[b] < serial
      /\ ackMaskMin \in Nat /\ delivered \in [Ids -> Nat]
      /\ \A n \in Ids : n # None
  <2>1. b \in Ids /\ b # None /\ deferred \subseteq Ids /\ serialOf[b] \in Nat
        /\ ackMaskMin \in Nat /\ delivered \in [Ids -> Nat]
    BY DEF ProcessVIM, TypeOK
  <2>2. Accepted(b)
    BY DEF Accepted
  <2> QED BY <2>1, <2>2 DEF ReceiverInv, RecordInv, ExactlyOnce, SenderInv, SerialInv, Ids
<1>2. UNCHANGED <<kind, pred, where, serialOf, serial, ackMask, ackMaskMin, inputMax, wire, acks>>
  BY DEF ProcessVIM, senderVars, netVars
<1>3. \/ /\ serialOf[b] >= ackMaskMin
         /\ delivered' = [delivered EXCEPT ![b] = @ + 1]
         /\ procMask' = procMask \cup {serialOf[b]}
      \/ serialOf[b] < ackMaskMin /\ UNCHANGED <<delivered, procMask>>
  BY <1>1 DEF ProcessVIM
<1>4. /\ \A n \in Ids : n # b => delivered'[n] = delivered[n]
      /\ delivered'[b] \in {0, 1}
      /\ delivered'[b] = 1 \/ Passed(b)
      /\ delivered'[b] = 1 => serialOf[b] \in procMask'
      /\ \A x \in procMask' : x \in procMask \/ (x = serialOf[b] /\ delivered'[b] = 1)
      /\ procMask \subseteq procMask'
  BY <1>1, <1>3 DEF Passed
<1>5. /\ busy' # b
      /\ busy' # None => /\ busy' \in deferred /\ pred[busy'] = b
                         /\ deferred' = deferred \ {busy'}
      /\ busy' = None => deferred' = deferred
      /\ \A n \in deferred' : pred[n] # b
  <2>1. \A n \in Followers(b) : n \in deferred /\ n \in Ids /\ pred[n] = b
    BY <1>1 DEF Followers
  <2>2. \A n, k \in Followers(b) : n = k
    BY <1>1, <2>1 DEF SenderInv, OrderInv
  <2>3. \A n \in deferred : pred[n] = b => n \in Followers(b)
    BY DEF Followers
  <2>4. CASE Followers(b) = {} /\ busy' = None /\ UNCHANGED deferred
    BY <1>1, <2>3, <2>4
  <2>5. ASSUME NEW n \in Followers(b), busy' = n, deferred' = deferred \ {n}
        PROVE  /\ busy' # b /\ busy' # None
               /\ busy' \in deferred /\ pred[busy'] = b /\ deferred' = deferred \ {busy'}
               /\ \A k \in deferred' : pred[k] # b
    BY <1>1, <2>1, <2>2, <2>3, <2>5
  <2> QED BY <2>4, <2>5 DEF ProcessVIM
<1>6. \A n \in Ids : /\ Accepted(n) => Accepted(n)' \/ Passed(n)
                     /\ Accepted(n)' => Accepted(n)
                     /\ Passed(n)' <=> Passed(n)
                     /\ Received(serialOf[n])' <=> Received(serialOf[n])
                     /\ VIM(n)' <=> VIM(n)
  <2>1. \A n \in Ids : Accepted(n) => Accepted(n)' \/ Passed(n)
    BY <1>1, <1>4, <1>5 DEF Accepted
  <2>2. \A n \in Ids : Accepted(n)' => Accepted(n)
    BY <1>1, <1>4, <1>5 DEF Accepted
  <2> QED BY <1>2, <2>1, <2>2 DEF Passed, Received, VIM
<1>7. WindowInv'
  <2>1. \A x \in ackMask' \cup procMask' \cup UNION acks' : x # None /\ x < serial'
    BY <1>1, <1>2, <1>4 DEF ReceiverInv, WindowInv
  <2> QED BY <1>2, <2>1 DEF ReceiverInv, WindowInv
<1>8. RecordInv'
  <2>1. \A n \in Ids : Accepted(n)' => serialOf'[n] # None /\ Received(serialOf[n])'
    BY <1>2, <1>6 DEF ReceiverInv, RecordInv
  <2>2. \A n \in Ids : serialOf'[n] \in procMask' => delivered'[n] > 0
    <3>1. \A n \in Ids : serialOf[n] = serialOf[b] => n = b
      BY <1>1 DEF SenderInv, SerialInv
    <3>2. \A n \in Ids : serialOf[n] \in procMask => delivered[n] > 0
      BY DEF ReceiverInv, RecordInv
    <3> QED BY <1>1, <1>2, <1>4, <3>1, <3>2
  <2>3. \A n \in Ids : delivered'[n] > 0 /\ VIM(n)' => serialOf'[n] \in procMask' \/ Passed(n)'
    BY <1>2, <1>4, <1>6 DEF ReceiverInv, RecordInv
  <2>4. \A n \in Ids : (\E c \in acks' \cup {ackMask'} : serialOf'[n] \in c) /\ kind'[n] # "dummy"
                     => Accepted(n)' \/ Passed(n)'
    BY <1>2, <1>6 DEF ReceiverInv, RecordInv
  <2>5. /\ \A n \in deferred' : VIM(n)'
        /\ busy' # None => VIM(busy)'
    BY <1>1, <1>2, <1>5 DEF ReceiverInv, RecordInv, VIM
  <2> QED BY <2>1, <2>2, <2>3, <2>4, <2>5 DEF RecordInv
<1>9. ExactlyOnce'
  BY <1>1, <1>4, <1>5 DEF ReceiverInv, ExactlyOnce
<1>10. OrderedDelivery'
  <2>1. \A n \in Ids : delivered[n] > 0 => delivered'[n] > 0
    BY <1>1, <1>4
  <2>2. ASSUME NEW n \in Ids, delivered'[n] > 0 \/ busy' = n, pred[n] # None
        PROVE  delivered'[pred[n]] > 0 \/ Passed(pred[n])
    <3>1. pred[n] \in Ids
      BY <2>2 DEF TypeOK
    <3>2. CASE busy' = n
      BY <1>1, <1>4, <1>5, <2>2, <3>2
    <3>3. CASE delivered'[n] > 0
      <4>1. delivered[n] > 0 \/ busy = n
        BY <1>4, <3>3
      <4> QED BY <2>1, <2>2, <3>1, <4>1 DEF ReceiverInv, OrderedDelivery
    <3> QED BY <2>2, <3>2, <3>3
  <2> QED BY <1>2, <2>2 DEF OrderedDelivery, Passed
<1>11. AckSound'
  BY <1>2, <1>6 DEF ReceiverInv, AckSound
<1>12. NothingStranded'
  <2>1. \A n \in Ids : pred[n] # None => pred[n] \in Ids
    BY DEF TypeOK
  <2>2. \A n \in deferred' : n \in deferred /\ pred[n] # None /\ delivered[pred[n]] = 0
    BY <1>5 DEF ReceiverInv, NothingStranded
  <2> QED BY <1>1, <1>2, <1>4, <1>5, <2>1, <2>2 DEF NothingStranded
<1> QED BY <1>7, <1>8, <1>9, <1>10, <1>11, <1>12 DEF ReceiverInv

LEMMA NextReceiverInv ==
    ASSUME MaxAhead <= MaxChannelBitMask, TypeOK, SenderInv, ReceiverInv, [Next]_vars
    PROVE  ReceiverInv'
<1>a. \A n \in Ids : n # None
  BY DEF Ids
<1>b. \A n \in Ids : where[n] = "unborn" => serialOf[n] = None
  BY DEF SenderInv, QueueInv
<1> DEFINE Quiet ==
      /\ UNCHANGED <<serialOf, serial, windowVars, userVars, wire, acks>>
      /\ \A n \in Ids : serialOf[n] # None => kind'[n] = kind[n] /\ pred'[n] = pred[n]
      /\ \A n \in Ids : where'[n] = "acked" => where[n] = "acked"
<1>q. Quiet => ReceiverInv'
  BY QuietStep
<1> HIDE DEF Quiet
<1>1. ASSUME NEW m \in Ids, NEW request \in Requests \cap SendRequests, Dispatch(m, request)
      PROVE  Quiet
  <2>1. where[m] = "unborn" /\ serialOf[m] = None
    BY <1>1, <1>b DEF Dispatch, First, InQueue
  <2>2. UNCHANGED <<serialOf, serial, windowVars, userVars, netVars>>
    BY <1>1 DEF Dispatch
  <2>3. \A n \in Ids : n # m => kind'[n] = kind[n] /\ pred'[n] = pred[n] /\ where'[n] = where[n]
    BY <1>1 DEF Dispatch, TypeOK
  <2>4. where'[m] \in Queues
    BY <1>1 DEF Dispatch, QueueFor, TypeOK, Queues
  <2> QED BY <2>1, <2>2, <2>3, <2>4 DEF Quiet, netVars, Queues
<1>2. ASSUME NEW m \in Ids, Heartbeat(m) PROVE Quiet
  <2>1. where[m] = "unborn" /\ serialOf[m] = None
    BY <1>2, <1>b DEF Heartbeat, First, InQueue
  <2> QED BY <1>2, <2>1 DEF Heartbeat, Quiet, netVars, TypeOK
<1>3. ASSUME NEW m \in Ids, SetDelayMessage(m) PROVE Quiet
  <2>1. kind[m] = "common"
    BY <1>3 DEF SetDelayMessage, First, InQueue, SenderInv, QueueInv
  <2> QED BY <1>3, <2>1 DEF SetDelayMessage, Quiet, netVars, TypeOK
<1>4. ASSUME NEW m \in Ids, Obsolete(m) PROVE Quiet
  BY <1>4 DEF Obsolete, Quiet, netVars, TypeOK
<1>5. ASSUME NEW m \in Ids, PostSend(m) PROVE Quiet
  BY <1>5 DEF PostSend, Quiet, netVars, TypeOK
<1>6. ASSUME NEW m \in Ids, AckTimeout(m) PROVE Quiet
  BY <1>6 DEF AckTimeout, Quiet, netVars, TypeOK
<1>7. CancelAllMessages => Quiet
  BY DEF CancelAllMessages, Quiet, netVars, TypeOK
<1>8. SenderNext => ReceiverInv'
  BY <1>q, <1>1, <1>2, <1>3, <1>4, <1>5, <1>6, <1>7, SendStep, ReceiveAckStep DEF SenderNext
<1>9. ReceiverNext => ReceiverInv'
  BY DuplicateStep, NewPacketStep, ProcessVIMStep, EmitStep DEF ReceiverNext
<1>10. NetworkNext => ReceiverInv'
  <2>1. ASSUME NetworkNext
        PROVE  /\ UNCHANGED <<senderVars, windowVars, userVars>>
               /\ wire' \subseteq wire /\ acks' \subseteq acks
    BY <2>1 DEF NetworkNext, LosePacket, LoseAck
  <2> QED BY <2>1, NetworkStep
<1>11. UNCHANGED vars => ReceiverInv'
  BY NetworkStep DEF vars, senderVars, windowVars, userVars
<1> QED BY <1>8, <1>9, <1>10, <1>11 DEF Next

(* The receiver's masks, its records and the acknowledgements on their way
   agree with each other, as long as the sender's serials stay within reach of
   the masks.                                                              *)
THEOREM ReceiverInvariant ==
    ASSUME MaxAhead <= MaxChannelBitMask
    PROVE  Spec => []ReceiverInv
<1>1. TypeOK /\ SenderInv /\ ReceiverInv /\ [Next]_vars => ReceiverInv'
  BY NextReceiverInv
<1> QED
  BY <1>1, TypeCorrect, SenderInvariant, InitReceiverInv, PTL DEF Spec

(* No message is handed to the user twice, whatever the network duplicates and
   the sender repeats.                                                     *)
THEOREM DeliveredOnce ==
    ASSUME MaxAhead <= MaxChannelBitMask
    PROVE  Spec => []ExactlyOnce
  BY ReceiverInvariant, PTL DEF ReceiverInv

(* A guaranteed message is handed over after the one it was ordered behind,
   unless the window has passed that one.                                  *)
THEOREM DeliveredInOrder ==
    ASSUME MaxAhead <= MaxChannelBitMask
    PROVE  Spec => []OrderedDelivery
  BY ReceiverInvariant, PTL DEF ReceiverInv

(* A message the sender takes out of 'revisited' is one the receiver has.   *)
THEOREM AcknowledgedIsReceived ==
    ASSUME MaxAhead <= MaxChannelBitMask
    PROVE  Spec => []AckSound
  BY ReceiverInvariant, PTL DEF ReceiverInv

(* No message stays deferred behind one that was processed.                 *)
THEOREM DeferredHaveHope ==
    ASSUME MaxAhead <= MaxChannelBitMask
    PROVE  Spec => []NothingStranded
  BY ReceiverInvariant, PTL DEF ReceiverInv

-----------------------------------------------------------------------------
(* The refinement.                                                         *)

(* The window only moves on, and has passed nothing that was not offered.   *)
LEMMA WaiveStep ==
    ASSUME TypeOK, SenderInv, [Next]_vars, NEW m \in Ids
    PROVE  /\ Passed(m) => Passed(m)'
           /\ Passed(m)' => where'[m] # "unborn"
<1>1. ackMaskMin \in Nat /\ ackMaskMin' \in Nat /\ serialOf[m] \in Nat
  <2>1. TypeOK'
    BY NextTypeOK
  <2> QED BY <2>1 DEF TypeOK
<1>2. ackMaskMin <= ackMaskMin'
  <2>1. ASSUME NEW n \in wire, Receive(n) PROVE ackMaskMin <= ackMaskMin'
    <3>1. CASE InputStatistics(serialOf[n])
      BY <3>1, StatisticsType, <1>1 DEF TypeOK
    <3>2. CASE UNCHANGED windowVars
      BY <1>1, <3>2 DEF windowVars
    <3> QED BY <2>1, <3>1, <3>2 DEF Receive
  <2>2. SenderNext \/ NetworkNext \/ UNCHANGED vars \/ ProcessVIM
        \/ (\E w \in AckWidths : EmitAck(w) \/ \E s \in ackMask : EmitDelayReply(s, w))
          => ackMaskMin' = ackMaskMin
    BY DEF SenderNext, Dispatch, Heartbeat, SetDelayMessage, Obsolete, Send, PostSend,
           AckTimeout, CancelAllMessages, ReceiveAck, NetworkNext, LosePacket, LoseAck,
           ProcessVIM, EmitAck, EmitDelayReply, PutAck, vars, windowVars
  <2> QED BY <1>1, <2>1, <2>2 DEF Next, ReceiverNext
<1>3. serialOf[m] # None => serialOf'[m] = serialOf[m]
  <2>1. ASSUME NEW n \in Ids, Send(n) PROVE serialOf[m] # None => serialOf'[m] = serialOf[m]
    BY <2>1 DEF Send, TypeOK
  <2>2. \/ UNCHANGED serialOf
        \/ \E n \in Ids : Send(n)
    BY DEF Next, SenderNext, Dispatch, Heartbeat, SetDelayMessage, Obsolete, PostSend,
           AckTimeout, CancelAllMessages, ReceiveAck, NetworkNext, LosePacket, LoseAck,
           ReceiverNext, Receive, ProcessVIM, EmitAck, EmitDelayReply, PutAck, vars, senderVars
  <2> QED BY <2>1, <2>2
<1>4. serialOf'[m] # None => where'[m] # "unborn"
  BY NextSenderInv DEF SenderInv, QueueInv
<1> QED BY <1>1, <1>2, <1>3, <1>4 DEF Passed

LEMMA PromiseInit == Init => Promise!Init
  BY DEF Init, Promise!Init, VIM, VIMKinds, Passed

(* Steps that neither offer nor hand over a message.                       *)
LEMMA StutterStep ==
    ASSUME TypeOK, SenderInv, [Next]_vars, UNCHANGED <<pred, delivered>>,
           \A n \in Ids : where'[n] = "unborn" <=> where[n] = "unborn",
           \A n \in Ids : VIM(n)' <=> VIM(n)
    PROVE  Promise!Next
<1>1. {m \in Ids : where[m] # "unborn"}' = {m \in Ids : where[m] # "unborn"}
  OBVIOUS
<1>2. {m \in Ids : VIM(m)}' = {m \in Ids : VIM(m)}
  OBVIOUS
<1>3. {m \in Ids : Passed(m)} \subseteq {m \in Ids : Passed(m)}'
      /\ {m \in Ids : Passed(m)}' \subseteq {m \in Ids : where[m] # "unborn"}
  BY WaiveStep
<1>4. Promise!Waive
  BY <1>1, <1>2, <1>3 DEF Promise!Waive
<1> QED BY <1>4 DEF Promise!Next

(* A step that offers message m.                                           *)
LEMMA OfferStep ==
    ASSUME TypeOK, SenderInv, UNCHANGED <<delivered, serialOf, ackMaskMin>>,
           NEW m \in Ids, where[m] = "unborn", where'[m] # "unborn",
           NEW p \in Ids \cup {None}, p # None => where[p] # "unborn",
           pred' = [pred EXCEPT ![m] = p],
           \A n \in Ids : n # m => where'[n] = where[n] /\ kind'[n] = kind[n]
    PROVE  Promise!Next
<1>1. {n \in Ids : where[n] # "unborn"}' = {n \in Ids : where[n] # "unborn"} \cup {m}
  OBVIOUS
<1>2. ~VIM(m) /\ \A n \in Ids : n # m => (VIM(n)' <=> VIM(n))
  BY DEF SenderInv, QueueInv, VIM, VIMKinds
<1>3. {n \in Ids : VIM(n)}' \in {{n \in Ids : VIM(n)}, {n \in Ids : VIM(n)} \cup {m}}
  BY <1>2
<1>4. {n \in Ids : Passed(n)}' = {n \in Ids : Passed(n)}
  BY DEF Passed
<1>5. Promise!Offer(m)
  BY <1>1, <1>3, <1>4 DEF Promise!Offer
<1> QED BY <1>5 DEF Promise!Next

(* A step that hands over message m.                                       *)
LEMMA DeliverStep ==
    ASSUME TypeOK, SenderInv, [Next]_vars, UNCHANGED <<pred, where, kind>>,
           NEW m \in Ids, where[m] # "unborn", delivered[m] = 0, ~Passed(m)',
           pred[m] # None => delivered[pred[m]] = 1 \/ Passed(pred[m])',
           delivered' = [delivered EXCEPT ![m] = @ + 1]
    PROVE  Promise!Next
<1>1. {n \in Ids : Passed(n)} \subseteq {n \in Ids : Passed(n)}'
      /\ {n \in Ids : Passed(n)}' \subseteq {n \in Ids : where[n] # "unborn"}
  BY WaiveStep
<1>2. {n \in Ids : VIM(n)}' = {n \in Ids : VIM(n)}
  BY DEF VIM
<1>3. pred[m] # None => pred[m] \in Ids /\ where[pred[m]] # "unborn"
  BY DEF TypeOK, SenderInv, OrderInv
<1>4. delivered' = [delivered EXCEPT ![m] = 1]
  OBVIOUS
<1>5. Promise!Deliver(m)
  BY <1>1, <1>2, <1>3, <1>4 DEF Promise!Deliver
<1> QED BY <1>5 DEF Promise!Next

LEMMA PromiseStep ==
    ASSUME MaxAhead <= MaxChannelBitMask, TypeOK, SenderInv, ReceiverInv, [Next]_vars
    PROVE  [Promise!Next]_(Promise!vars)
<1> DEFINE Silent == /\ UNCHANGED <<pred, delivered>>
                     /\ \A n \in Ids : where'[n] = "unborn" <=> where[n] = "unborn"
                     /\ \A n \in Ids : VIM(n)' <=> VIM(n)
<1>s. Silent => Promise!Next
  BY StutterStep
<1> HIDE DEF Silent
<1>a. \A n \in Ids : n # None
  BY DEF Ids
<1>b. \A n \in Ids : where[n] = "unborn" => pred[n] = None /\ kind[n] = "common"
  BY DEF SenderInv, QueueInv
<1>1. ASSUME NEW m \in Ids, NEW request \in Requests \cap SendRequests, Dispatch(m, request)
      PROVE  Promise!Next
  <2>1. /\ where[m] = "unborn" /\ where'[m] \in Queues
        /\ \A n \in Ids : n # m => where'[n] = where[n] /\ kind'[n] = kind[n]
        /\ UNCHANGED <<delivered, serialOf, ackMaskMin>>
    BY <1>1 DEF Dispatch, QueueFor, First, InQueue, Queues, TypeOK, userVars, windowVars
  <2>2. PICK p \in {lastVIM, lastUrgent, None} : pred' = [pred EXCEPT ![m] = p]
    BY <1>1 DEF Dispatch, Predecessor
  <2>3. p \in Ids \cup {None} /\ (p # None => where[p] # "unborn")
    BY DEF TypeOK, SenderInv, LastInv
  <2> QED BY <2>1, <2>2, <2>3, OfferStep DEF Queues
<1>2. ASSUME NEW m \in Ids, where[m] = "unborn", where' = [where EXCEPT ![m] = "urgentToSend"],
             \A n \in Ids : n # m => kind'[n] = kind[n],
             UNCHANGED <<pred, serialOf, ackMaskMin, delivered>>
      PROVE  Promise!Next
  <2>1. pred' = [pred EXCEPT ![m] = None]
    BY <1>2, <1>b DEF TypeOK
  <2>2. where'[m] # "unborn" /\ \A n \in Ids : n # m => where'[n] = where[n]
    BY <1>2 DEF TypeOK
  <2> QED BY <1>2, <2>1, <2>2, OfferStep
<1>3. ASSUME NEW m \in Ids, Heartbeat(m) PROVE Promise!Next
  BY <1>2, <1>3 DEF Heartbeat, First, InQueue, TypeOK, userVars, windowVars
<1>4. ASSUME NEW m \in Ids, SetDelayMessage(m) PROVE Promise!Next
  <2>1. CASE where[m] = "unborn"
    BY <1>2, <1>4, <2>1 DEF SetDelayMessage, TypeOK, userVars, windowVars
  <2>2. CASE where[m] = "commonToSend"
    <3>1. kind[m] = "common"
      BY <2>2 DEF SenderInv, QueueInv
    <3>2. Silent
      BY <1>4, <2>2, <3>1 DEF SetDelayMessage, TypeOK, userVars, VIM, Silent
    <3> QED BY <3>2, <1>s
  <2> QED BY <1>4, <2>1, <2>2 DEF SetDelayMessage, First, InQueue
<1>5. ASSUME NEW m \in Ids, Obsolete(m) \/ PostSend(m) \/ AckTimeout(m) \/ Send(m)
      PROVE  Promise!Next
  <2>1. UNCHANGED <<kind, pred, delivered>>
    BY <1>5 DEF Obsolete, PostSend, AckTimeout, Send, userVars
  <2>2. /\ where[m] # "unborn" /\ where'[m] # "unborn"
        /\ \A n \in Ids : n # m => where'[n] = where[n]
    BY <1>5 DEF Obsolete, PostSend, AckTimeout, Send, Sendable, First, NewIn, InQueue, TypeOK
  <2> QED BY <1>s, <2>1, <2>2 DEF Silent, VIM
<1>6. CancelAllMessages \/ (\E c \in acks : ReceiveAck(c)) => Promise!Next
  <2>1. ASSUME CancelAllMessages \/ \E c \in acks : ReceiveAck(c) PROVE Silent
    BY <2>1 DEF CancelAllMessages, ReceiveAck, userVars, TypeOK, Queues, VIM, Silent
  <2> QED BY <1>s, <2>1
<1>7. SenderNext => Promise!Next
  BY <1>1, <1>3, <1>4, <1>5, <1>6 DEF SenderNext
<1>8. NetworkNext \/ UNCHANGED vars
      \/ (\E w \in AckWidths : EmitAck(w) \/ \E s \in ackMask : EmitDelayReply(s, w))
        => Promise!Next
  <2>1. ASSUME \/ NetworkNext \/ UNCHANGED vars
               \/ \E w \in AckWidths : EmitAck(w) \/ \E s \in ackMask : EmitDelayReply(s, w)
        PROVE  UNCHANGED <<senderVars, userVars>>
    BY <2>1 DEF NetworkNext, LosePacket, LoseAck, EmitAck, EmitDelayReply, PutAck, vars,
                senderVars, userVars
  <2> QED BY <1>s, <2>1 DEF senderVars, userVars, VIM, Silent
<1>9. ASSUME NEW m \in wire, Receive(m) PROVE Promise!Next
  <2>1. UNCHANGED <<kind, pred, where, serialOf>> /\ m \in Ids
    BY <1>9 DEF Receive, senderVars, TypeOK
  <2>2. CASE UNCHANGED delivered
    BY <1>s, <2>1, <2>2 DEF VIM, Silent
  <2>3. CASE /\ ~Received(serialOf[m]) /\ kind[m] = "common" /\ InputStatistics(serialOf[m])
             /\ delivered' = [delivered EXCEPT ![m] = @ + 1]
    <3>1. serialOf[m] # None /\ serialOf[m] \in Nat \ {0} /\ serialOf[m] <= inputMax + MaxAhead
      BY <2>1 DEF TypeOK, ReceiverInv, WindowInv
    <3>2. ackMaskMin' <= serialOf[m]
      BY <2>3, <3>1, WindowStep DEF ReceiverInv
    <3>3. ~Passed(m)'
      BY <2>1, <3>1, <3>2, NextTypeOK DEF TypeOK, Passed
    <3>4. delivered[m] = 0
      BY <2>1, <2>3 DEF ReceiverInv, RecordInv, Accepted, TypeOK
    <3>5. where[m] # "unborn" /\ pred[m] = None
      BY <2>1, <2>3, <3>1 DEF SenderInv, QueueInv, OrderInv, TypeOK
    <3> QED BY <2>1, <2>3, <3>3, <3>4, <3>5, DeliverStep
  <2> QED BY <1>9, <2>2, <2>3 DEF Receive, userVars
<1>10. ProcessVIM => Promise!Next
  <2>1. SUFFICES ASSUME ProcessVIM PROVE Promise!Next
    OBVIOUS
  <2>2. /\ UNCHANGED <<kind, pred, where, serialOf, ackMaskMin>>
        /\ busy \in Ids
    BY <2>1 DEF ProcessVIM, senderVars, TypeOK
  <2>b. PICK b \in Ids : b = busy
    BY <2>2
  <2>a. b # None /\ Accepted(b)
    BY <2>1, <2>b DEF ProcessVIM, Accepted
  <2>3. CASE UNCHANGED delivered
    BY <1>s, <2>2, <2>3 DEF VIM, Silent
  <2>4. CASE serialOf[b] >= ackMaskMin /\ delivered' = [delivered EXCEPT ![b] = @ + 1]
    <3>1. ~Passed(b)'
      BY <2>2, <2>4 DEF Passed, TypeOK
    <3>2. delivered[b] = 0 /\ serialOf[b] # None
      BY <2>a, <2>b DEF ReceiverInv, ExactlyOnce, RecordInv
    <3>3. where[b] # "unborn"
      BY <3>2 DEF SenderInv, QueueInv
    <3>4. pred[b] # None => delivered[pred[b]] = 1 \/ Passed(pred[b])'
      <4>1. ASSUME pred[b] # None
            PROVE  pred[b] \in Ids /\ (delivered[pred[b]] > 0 \/ Passed(pred[b]))
        BY <2>b, <4>1 DEF TypeOK, ReceiverInv, OrderedDelivery
      <4>2. \A n \in Ids : delivered[n] \in Nat /\ delivered[n] <= 1
        BY DEF TypeOK, ReceiverInv, ExactlyOnce
      <4> QED BY <2>2, <4>1, <4>2 DEF Passed
    <3> QED BY <2>2, <2>4, <3>1, <3>2, <3>3, <3>4, DeliverStep
  <2> QED BY <2>1, <2>b, <2>3, <2>4 DEF ProcessVIM
<1> QED BY <1>7, <1>8, <1>9, <1>10 DEF Next, ReceiverNext

(* Whatever is sent, lost, duplicated, reordered, repeated or cancelled, the
   channel does nothing its promise does not allow: at most once, guaranteed
   messages in order.                                                      *)
THEOREM ChannelKeepsPromise ==
    ASSUME MaxAhead <= MaxChannelBitMask
    PROVE  Spec => KeepsPromise
<1>1. TypeOK /\ SenderInv /\ ReceiverInv /\ [Next]_vars => [Promise!Next]_(Promise!vars)
  BY PromiseStep
<1> QED
  BY <1>1, PromiseInit, TypeCorrect, SenderInvariant, ReceiverInvariant, PTL
  DEF Spec, KeepsPromise, Promise!Spec
=============================================================================
