-------------------------- MODULE ReliableDelivery --------------------------
(***************************************************************************)
(* What a channel of the transport promises its two users, without packets *)
(* and acknowledgements: a message offered is handed over at most once, a  *)
(* guaranteed one only after the message it follows, and, as long as the   *)
(* channel is not told to forget it, eventually.                           *)
(***************************************************************************)
EXTENDS Naturals

CONSTANT Messages, NoMessage

VARIABLES
    offered,      \* the messages given to the channel
    guaranteed,   \* those the channel must hand over
    after,        \* the message each one follows, or NoMessage
    waived,       \* the messages given up: nobody waits for them any more
    delivered     \* how often each one was handed over

vars == <<offered, guaranteed, after, waived, delivered>>

Init ==
    /\ offered = {} /\ guaranteed = {} /\ waived = {}
    /\ after = [m \in Messages |-> NoMessage]
    /\ delivered = [m \in Messages |-> 0]

Offer(m) ==
    /\ m \in Messages \ offered
    /\ offered' = offered \cup {m}
    /\ guaranteed' \in {guaranteed, guaranteed \cup {m}}
    /\ \E p \in offered \cup {NoMessage} : after' = [after EXCEPT ![m] = p]
    /\ UNCHANGED <<waived, delivered>>

Waive ==
    /\ waived \subseteq waived' /\ waived' \subseteq offered
    /\ UNCHANGED <<offered, guaranteed, after, delivered>>

(* Giving up old messages may be what makes m deliverable.                 *)
Deliver(m) ==
    /\ m \in offered /\ delivered[m] = 0
    /\ waived \subseteq waived' /\ waived' \subseteq offered
    /\ m \notin waived'
    /\ \/ after[m] = NoMessage
       \/ after[m] \in waived'
       \/ after[m] \in offered /\ delivered[after[m]] = 1
    /\ delivered' = [delivered EXCEPT ![m] = 1]
    /\ UNCHANGED <<offered, guaranteed, after>>

Next == Waive \/ \E m \in Messages : Offer(m) \/ Deliver(m)

Spec == Init /\ [][Next]_vars

(* While nothing is given up, every guaranteed message is handed over.      *)
AllDelivered ==
    \A m \in Messages : m \in guaranteed ~> delivered[m] = 1 \/ waived # {}
=============================================================================
