------------------------ MODULE MessageStreamProofs ------------------------
(***************************************************************************)
(* Proofs about MessageStream, for any number of streams, requests and     *)
(* fragments.                                                              *)
(***************************************************************************)
EXTENDS MessageStream, Integers, FiniteSetTheorems, SequenceTheorems,
        WellFoundedInduction, TLAPS

USE DEF None

-----------------------------------------------------------------------------
(* The list of received messages.                                          *)

(* A non-empty set of numbers up to n has a greatest one.                  *)
LEMMA Greatest ==
    ASSUME NEW n \in Nat, NEW S, S \subseteq 1 .. n, S # {}
    PROVE  \E k \in S : \A j \in S : j <= k
<1> DEFINE T == {n - k : k \in S}
<1>1. T \subseteq Nat /\ T # {}
  <2>1. \A k \in S : k \in 1 .. n
    OBVIOUS
  <2>2. \A k \in S : n - k \in Nat
    BY <2>1
  <2>3. \A x \in T : x \in Nat
    BY <2>2
  <2>4. PICK k \in S : TRUE
    OBVIOUS
  <2>5. n - k \in T
    OBVIOUS
  <2> QED BY <2>3, <2>5
<1>2. PICK x \in T : \A y \in T : ~ (<<y, x>> \in OpToRel(<, Nat))
  <2> HIDE DEF T
  <2> QED BY <1>1, NatLessThanWellFounded, WFMin
<1>3. PICK k \in S : x = n - k
  OBVIOUS
<1>4. ASSUME NEW j \in S PROVE j <= k
  <2>1. n - j \in T /\ n - j \in Nat /\ x \in Nat
    BY <1>1
  <2>2. ~ (<<n - j, x>> \in OpToRel(<, Nat))
    BY <1>2, <2>1
  <2>3. ~ (n - j < x)
    BY <2>1, <2>2 DEF OpToRel
  <2> QED BY <1>3, <2>3
<1> QED BY <1>4

(* A sequence cut in two, with a new element between the parts.            *)
LEMMA BetweenShape ==
    ASSUME NEW C, NEW a \in Seq(C), NEW b \in Seq(C), NEW m \in C,
           NEW x, x = a \o <<m>> \o b
    PROVE  /\ x \in Seq(C)
           /\ Len(x) = Len(a) + Len(b) + 1
           /\ \A k \in 1 .. Len(a) : x[k] = a[k]
           /\ x[Len(a) + 1] = m
           /\ \A k \in 1 .. Len(b) : x[Len(a) + k + 1] = b[k]
<1>0. Len(a) \in Nat /\ Len(b) \in Nat
  BY LenProperties
<1>1. <<m>> \in Seq(C) /\ Len(<<m>>) = 1 /\ <<m>>[1] = m
  OBVIOUS
<1> DEFINE am == a \o <<m>>
           r  == am \o b
<1>2. /\ am \in Seq(C) /\ Len(am) = Len(a) + 1
      /\ \A k \in 1 .. Len(a) + 1 : am[k] = IF k <= Len(a) THEN a[k] ELSE m
  <2>1. /\ a \o <<m>> \in Seq(C) /\ Len(a \o <<m>>) = Len(a) + Len(<<m>>)
        /\ \A k \in 1 .. Len(a) + Len(<<m>>) :
              (a \o <<m>>)[k] = IF k <= Len(a) THEN a[k] ELSE <<m>>[k - Len(a)]
    BY <1>1, ConcatProperties
  <2> QED BY <1>0, <1>1, <2>1
<1> HIDE DEF am
<1>3. /\ r \in Seq(C) /\ Len(r) = Len(am) + Len(b)
      /\ \A k \in 1 .. Len(am) + Len(b) : r[k] = IF k <= Len(am) THEN am[k] ELSE b[k - Len(am)]
  BY <1>2, ConcatProperties
<1> HIDE DEF r
<1>4. /\ \A k \in 1 .. Len(a) : r[k] = a[k]
      /\ r[Len(a) + 1] = m
      /\ Len(r) = Len(a) + Len(b) + 1
  BY <1>0, <1>2, <1>3
<1>5. ASSUME NEW k \in 1 .. Len(b) PROVE r[Len(a) + k + 1] = b[k]
  <2>1. /\ Len(a) + k + 1 \in 1 .. Len(am) + Len(b) /\ ~(Len(a) + k + 1 <= Len(am))
        /\ Len(a) + k + 1 - Len(am) = k
    BY <1>0, <1>2
  <2> QED BY <1>3, <2>1
<1>6. x = r
  BY DEF r, am
<1> QED BY <1>3, <1>4, <1>5, <1>6

(* insertReceived: the new element comes behind those with smaller serials, as
   long as the list was sorted; the others keep their order.               *)
LEMMA Inserted ==
    ASSUME NEW C, \A c \in C : c.serial \in Nat,
           NEW list \in Seq(C), NEW m \in C
    PROVE  \E n \in 0 .. Len(list) :
              /\ InsertReceived(list, m) \in Seq(C)
              /\ Len(InsertReceived(list, m)) = Len(list) + 1
              /\ \A k \in 1 .. n : InsertReceived(list, m)[k] = list[k]
              /\ InsertReceived(list, m)[n + 1] = m
              /\ \A k \in n + 1 .. Len(list) : InsertReceived(list, m)[k + 1] = list[k]
              /\ \A k \in 1 .. n : list[k].serial <= m.serial
              /\ n + 1 <= Len(list) => m.serial <= list[n + 1].serial
<1>0. /\ Len(list) \in Nat /\ \A k \in 1 .. Len(list) : list[k] \in C
      /\ list = <<>> => Len(list) = 0
      /\ list # <<>> => Len(list) # 0
  BY ElementOfSeq, LenProperties, EmptySeq
<1>h. list # <<>> => Head(list) = list[1]
  OBVIOUS
<1>1. CASE list = <<>> \/ m.serial < Head(list).serial
  <2>1. InsertReceived(list, m) = <<m>> \o list
    BY <1>1 DEF InsertReceived
  <2>2. /\ InsertReceived(list, m) \in Seq(C) /\ Len(InsertReceived(list, m)) = Len(list) + 1
        /\ InsertReceived(list, m)[1] = m
        /\ \A k \in 1 .. Len(list) : InsertReceived(list, m)[k + 1] = list[k]
    <3>1. <<m>> \in Seq(C) /\ Len(<<m>>) = 1 /\ <<m>>[1] = m
      OBVIOUS
    <3>2. /\ <<m>> \o list \in Seq(C) /\ Len(<<m>> \o list) = 1 + Len(list)
          /\ \A i \in 1 .. 1 + Len(list) :
                (<<m>> \o list)[i] = IF i <= 1 THEN <<m>>[i] ELSE list[i - 1]
      BY <3>1, ConcatProperties
    <3> QED BY <1>0, <2>1, <3>1, <3>2
  <2>3. Len(list) >= 1 => m.serial <= list[1].serial
    BY <1>0, <1>1, <1>h
  <2>4. \A k \in 1 .. 0 : FALSE
    OBVIOUS
  <2> WITNESS 0 \in 0 .. Len(list)
  <2> QED BY <1>0, <2>2, <2>3, <2>4
<1>2. CASE ~(list = <<>> \/ m.serial < Head(list).serial)
  <2> DEFINE ahead == {k \in 1 .. Len(list) : \A j \in 2 .. k : list[j].serial < m.serial}
  <2>1. 1 \in ahead /\ ahead \subseteq 1 .. Len(list)
    BY <1>0, <1>2
  <2>2. PICK n : n = CHOOSE k \in ahead : \A j \in ahead : j <= k
    OBVIOUS
  <2>i. PICK i : i = n + 1
    OBVIOUS
  <2>j. InsertReceived(list, m) = InsertAt(list, i, m)
    BY <1>2, <2>2, <2>i DEF InsertReceived
  <2>k. InsertReceived(list, m) = SubSeq(list, 1, i - 1) \o <<m>> \o SubSeq(list, i, Len(list))
    BY <2>j DEF InsertAt
  <2>4. n \in ahead /\ \A j \in ahead : j <= n
    <3> HIDE DEF ahead
    <3> QED BY <1>0, <2>1, <2>2, Greatest
  <2>5. /\ n \in 0 .. Len(list)
        /\ \A j \in 2 .. n : list[j].serial < m.serial
        /\ n + 1 \notin ahead
    <3>1. n + 1 \notin ahead
      <4> HIDE DEF ahead
      <4>1. n \in Int
        BY <2>1, <2>4
      <4> QED BY <2>4, <4>1
    <3> QED BY <2>4, <3>1
  <2>6. n + 1 <= Len(list) => m.serial <= list[n + 1].serial
    BY <1>0, <2>5
  <2>7. \A k \in 1 .. n : list[k].serial <= m.serial
    BY <1>0, <1>2, <1>h, <2>5
  <2>8. n \in 0 .. Len(list)
    BY <2>5
  <2> HIDE DEF ahead
  <2>3. InsertReceived(list, m) = SubSeq(list, 1, n) \o <<m>> \o SubSeq(list, n + 1, Len(list))
    <3>1. i - 1 = n
      BY <2>i, <2>8
    <3> QED BY <2>i, <2>k, <3>1
  <2> DEFINE a == SubSeq(list, 1, n)
             b == SubSeq(list, n + 1, Len(list))
  <2>a. /\ a \in Seq(C) /\ Len(a) = n
        /\ \A k \in 1 .. n : a[k] = list[k]
    <3>1. \A k \in 1 .. n : list[k] \in C
      BY <1>0, <2>8
    <3>2. /\ a \in Seq(C) /\ Len(a) = IF 1 <= n THEN n - 1 + 1 ELSE 0
          /\ \A k \in 1 .. n - 1 + 1 : a[k] = list[1 + k - 1]
      BY <1>0, <2>8, <3>1, SubSeqProperties
    <3>3. /\ n - 1 + 1 = n /\ (~(1 <= n) => n = 0)
          /\ \A k \in 1 .. n : 1 + k - 1 = k
      BY <1>0, <2>8
    <3> HIDE DEF a
    <3> QED BY <3>2, <3>3
  <2>b. /\ b \in Seq(C) /\ Len(b) = Len(list) - n
        /\ \A k \in n + 1 .. Len(list) : b[k - n] = list[k]
    <3>1. \A k \in n + 1 .. Len(list) : list[k] \in C
      BY <1>0, <2>8
    <3>2. /\ b \in Seq(C)
          /\ Len(b) = IF n + 1 <= Len(list) THEN Len(list) - (n + 1) + 1 ELSE 0
          /\ \A k \in 1 .. Len(list) - (n + 1) + 1 : b[k] = list[n + 1 + k - 1]
      BY <1>0, <2>8, <3>1, SubSeqProperties
    <3>3. /\ Len(list) - (n + 1) + 1 = Len(list) - n
          /\ ~(n + 1 <= Len(list)) => Len(list) - n = 0
          /\ \A k \in n + 1 .. Len(list) :
                k - n \in 1 .. Len(list) - (n + 1) + 1 /\ n + 1 + (k - n) - 1 = k
      BY <1>0, <2>8
    <3> HIDE DEF b
    <3> QED BY <3>2, <3>3
  <2> HIDE DEF a, b
  <2>c. InsertReceived(list, m) = a \o <<m>> \o b
    BY <2>3 DEF a, b
  <2>d. /\ InsertReceived(list, m) \in Seq(C)
        /\ Len(InsertReceived(list, m)) = Len(a) + Len(b) + 1
        /\ \A k \in 1 .. Len(a) : InsertReceived(list, m)[k] = a[k]
        /\ InsertReceived(list, m)[Len(a) + 1] = m
        /\ \A k \in 1 .. Len(b) : InsertReceived(list, m)[Len(a) + k + 1] = b[k]
    <3>1. a \in Seq(C) /\ b \in Seq(C)
      BY <2>a, <2>b
    <3>2. PICK x : x = InsertReceived(list, m)
      OBVIOUS
    <3>3. x = a \o <<m>> \o b
      BY <2>c, <3>2
    <3>4. /\ x \in Seq(C) /\ Len(x) = Len(a) + Len(b) + 1
          /\ \A k \in 1 .. Len(a) : x[k] = a[k]
          /\ x[Len(a) + 1] = m
          /\ \A k \in 1 .. Len(b) : x[Len(a) + k + 1] = b[k]
      BY <3>1, <3>3, BetweenShape
    <3> QED BY <3>2, <3>4, Zenon
  <2>e. ASSUME NEW k \in n + 1 .. Len(list)
        PROVE  InsertReceived(list, m)[k + 1] = list[k]
    <3>1. k - n \in 1 .. Len(list) - n /\ n + (k - n) + 1 = k + 1
      BY <1>0, <2>8
    <3> QED BY <2>a, <2>b, <2>d, <3>1
  <2>9. /\ InsertReceived(list, m) \in Seq(C)
        /\ Len(InsertReceived(list, m)) = Len(list) + 1
        /\ \A k \in 1 .. n : InsertReceived(list, m)[k] = list[k]
        /\ InsertReceived(list, m)[n + 1] = m
        /\ \A k \in n + 1 .. Len(list) : InsertReceived(list, m)[k + 1] = list[k]
    BY <1>0, <2>8, <2>a, <2>b, <2>d, <2>e
  <2> QED BY <2>6, <2>7, <2>8, <2>9
<1> QED BY <1>1, <1>2

-----------------------------------------------------------------------------
(* Types.                                                                  *)

Fragment == [on : Streams, msg : 1 .. N, part : BOOLEAN, closing : BOOLEAN,
             kind : Kinds, urgent : BOOLEAN, pred : 0 .. N]
Places   == {"queued", "flying", "arrived", "lost", "dropped"}
Cuts     == [left : 0 .. N, msg : 0 .. N, class : Classes]
Received == [parts : Seq(1 .. N), serial : 1 .. N]

(* What has been given a serial, of a stream.                              *)
Given(s) == {i \in Frags : frags[i].on = s /\ serialOf[i] # None}

Sizes ==
    /\ Len(frags) <= N /\ Len(where) = Len(frags) /\ Len(serialOf) = Len(frags)
    /\ \A i \in Frags : frags[i].msg <= i /\ frags[i].pred < i
    /\ \A s \in Streams : /\ lastVIM[s] <= Len(frags) /\ lastUrgent[s] <= Len(frags)
                          /\ sending[s] # Idle => sending[s].left # 0 /\ sending[s].msg \in Frags
    /\ before <= Len(frags)
Serials ==
    /\ \A i \in Frags : /\ where[i] \in {"flying", "arrived"} => serialOf[i] # None
                        /\ where[i] = "queued" => serialOf[i] = None
    /\ \A s \in Streams : Cardinality(Given(s)) + 1 = serial[s]

(* Every list is one of fragments, those of the composites are not empty.  *)
Listed(list) == \A k \in 1 .. Len(list) : list[k] \in Frags
Lists ==
    /\ \A s \in Streams, u \in BOOLEAN : Listed(split[s][u])
    /\ \A e \in Ends : /\ \A k \in 1 .. Len(received[e]) :
                             received[e][k].parts # <<>> /\ Listed(received[e][k].parts)
                       /\ \A k \in 1 .. Len(handed[e]) :
                             handed[e][k] # <<>> /\ Listed(handed[e][k])

TInv == TypeOK /\ Sizes /\ Serials /\ Lists

LEMMA TypesIn ==
    ASSUME TInv
    PROVE  /\ N \in Nat /\ Len(frags) \in Nat
           /\ frags \in Seq(Fragment) /\ where \in Seq(Places) /\ serialOf \in Seq(0 .. N)
           /\ \A i \in Frags : frags[i] \in Fragment /\ where[i] \in Places /\ serialOf[i] \in 0 .. N
           /\ DOMAIN frags = Frags /\ DOMAIN where = Frags /\ DOMAIN serialOf = Frags
           /\ received \in [Ends -> Seq(Received)]
           /\ serial \in [Streams -> 1 .. N + 1]
           /\ \A i \in Frags : frags[i].on \in Streams
<1>1. /\ frags \in Seq(Fragment) /\ where \in Seq(Places) /\ serialOf \in Seq(0 .. N)
      /\ N \in Nat /\ received \in [Ends -> Seq(Received)]
      /\ serial \in [Streams -> 1 .. N + 1]
  BY StreamsAssumption DEF TInv, TypeOK, Fragment, Places, Received
<1>2. Len(where) = Len(frags) /\ Len(serialOf) = Len(frags)
  BY DEF TInv, Sizes
<1>3. \A i \in Frags : frags[i] \in Fragment /\ where[i] \in Places /\ serialOf[i] \in 0 .. N
  BY <1>1, <1>2, ElementOfSeq, LenProperties DEF Frags
<1>4. \A i \in Frags : frags[i].on \in Streams
  BY <1>3 DEF Fragment
<1> QED BY <1>1, <1>2, <1>3, <1>4, LenProperties DEF Frags

-----------------------------------------------------------------------------
(* What a step does, point by point.                                       *)

NewFragment(s, class, msg, part, left) ==
    [on |-> s, msg |-> msg, part |-> part, closing |-> part /\ left = 0,
     kind |-> KindOf(s, class, part), urgent |-> Urgent(s, class),
     pred |-> Previous(s, KindOf(s, class, part))]

LEMMA DispatchFacts ==
    ASSUME TInv, NEW s \in Streams, NEW class \in Classes, NEW msg \in 1 .. Len(frags) + 1,
           NEW part \in BOOLEAN, NEW left \in 0 .. N, Dispatch(s, class, msg, part, left)
    PROVE  /\ Len(frags) + 1 <= N /\ Len(frags') = Len(frags) + 1
           /\ Frags' = Frags \cup {Len(frags) + 1} /\ Len(frags) + 1 \notin Frags
           /\ NewFragment(s, class, msg, part, left) \in Fragment
           /\ frags' \in Seq(Fragment) /\ where' \in Seq(Places) /\ serialOf' \in Seq(0 .. N)
           /\ Len(where') = Len(frags') /\ Len(serialOf') = Len(frags')
           /\ \A i \in Frags : /\ frags'[i] = frags[i] /\ where'[i] = where[i]
                               /\ serialOf'[i] = serialOf[i]
           /\ frags'[Len(frags) + 1] = NewFragment(s, class, msg, part, left)
           /\ where'[Len(frags) + 1] = "queued" /\ serialOf'[Len(frags) + 1] = None
           /\ UNCHANGED <<serial, receiverVars, cancelVars>>
<1> DEFINE f == NewFragment(s, class, msg, part, left)
<1>1. /\ Len(frags) + 1 <= N /\ frags' = Append(frags, f)
      /\ where' = Append(where, "queued") /\ serialOf' = Append(serialOf, None)
      /\ UNCHANGED <<serial, receiverVars, cancelVars>>
  BY DEF Dispatch, NewFragment
<1>2. f \in Fragment
  <2>1. KindOf(s, class, part) \in Kinds
    BY DEF KindOf, Kinds
  <2>2. Urgent(s, class) \in BOOLEAN /\ (part /\ left = 0) \in BOOLEAN
    BY DEF Urgent
  <2>3. Previous(s, KindOf(s, class, part)) \in 0 .. N
    BY StreamsAssumption DEF Previous, TInv, TypeOK
  <2>4. msg \in 1 .. N
    BY <1>1, TypesIn
  <2> QED BY <2>1, <2>2, <2>3, <2>4 DEF Fragment, NewFragment
<1> HIDE DEF f
<1>3. /\ frags' \in Seq(Fragment) /\ Len(frags') = Len(frags) + 1
      /\ \A i \in 1 .. Len(frags) : frags'[i] = frags[i]
      /\ frags'[Len(frags) + 1] = f
  BY <1>1, <1>2, TypesIn, AppendProperties
<1>4. /\ where' \in Seq(Places) /\ Len(where') = Len(where) + 1
      /\ \A i \in 1 .. Len(where) : where'[i] = where[i]
      /\ where'[Len(where) + 1] = "queued"
  <2>1. "queued" \in Places
    BY DEF Places
  <2> QED BY <1>1, <2>1, TypesIn, AppendProperties
<1>5. /\ serialOf' \in Seq(0 .. N) /\ Len(serialOf') = Len(serialOf) + 1
      /\ \A i \in 1 .. Len(serialOf) : serialOf'[i] = serialOf[i]
      /\ serialOf'[Len(serialOf) + 1] = None
  <2>1. None \in 0 .. N
    BY TypesIn
  <2> QED BY <1>1, <2>1, TypesIn, AppendProperties
<1>6. Frags' = Frags \cup {Len(frags) + 1} /\ Len(frags) + 1 \notin Frags
  BY <1>3, TypesIn DEF Frags
<1>7. Len(where) = Len(frags) /\ Len(serialOf) = Len(frags)
  BY DEF TInv, Sizes
<1> QED BY <1>1, <1>2, <1>3, <1>4, <1>5, <1>6, <1>7 DEF f, Frags

LEMMA LeaveFacts ==
    ASSUME TInv, NEW i \in Frags, Leave(i)
    PROVE  /\ where[i] = "queued" /\ where' \in Seq(Places) /\ Len(where') = Len(where)
           /\ \A j \in Frags : where'[j] = IF j = i THEN "flying" ELSE where[j]
           /\ Len(serialOf') = Len(serialOf)
           /\ \A j \in Frags : serialOf'[j] = IF j = i THEN serial[frags[i].on] ELSE serialOf[j]
           /\ frags[i].on \in Streams
           /\ serial' = [serial EXCEPT ![frags[i].on] = @ + 1]
           /\ UNCHANGED <<senderVars, receiverVars, cancelVars>>
<1>1. /\ where[i] = "queued" /\ where' = [where EXCEPT ![i] = "flying"]
      /\ serialOf' = [serialOf EXCEPT ![i] = serial[frags[i].on]]
      /\ serial' = [serial EXCEPT ![frags[i].on] = @ + 1]
      /\ UNCHANGED <<senderVars, receiverVars, cancelVars>>
  BY DEF Leave
<1>2. frags[i].on \in Streams /\ serial[frags[i].on] \in Nat /\ "flying" \in Places
  <2>1. frags[i].on \in Streams /\ serial \in [Streams -> 1 .. N + 1] /\ N \in Nat
    BY TypesIn
  <2> QED BY <2>1 DEF Places
<1>3. /\ where \in Seq(Places) /\ serialOf \in Seq(Nat) /\ Len(where) = Len(frags)
      /\ Len(serialOf) = Len(frags)
  <2>1. serialOf \in Seq(0 .. N) /\ 0 .. N \subseteq Nat
    BY TypesIn
  <2>2. serialOf \in Seq(Nat)
    BY <2>1, SeqMonotonic
  <2> QED BY <2>2, TypesIn DEF TInv, Sizes
<1>4. /\ where' \in Seq(Places) /\ Len(where') = Len(where)
      /\ \A j \in 1 .. Len(where) : where'[j] = IF j = i THEN "flying" ELSE where[j]
  BY <1>1, <1>2, <1>3, ExceptSeq DEF Frags
<1>5. /\ Len(serialOf') = Len(serialOf)
      /\ \A j \in 1 .. Len(serialOf) :
            serialOf'[j] = IF j = i THEN serial[frags[i].on] ELSE serialOf[j]
  BY <1>1, <1>2, <1>3, ExceptSeq DEF Frags
<1> QED BY <1>1, <1>2, <1>3, <1>4, <1>5 DEF Frags

(* A step that only changes where a fragment is.                           *)
LEMMA WhereFacts ==
    ASSUME TInv, NEW i \in Frags, NEW p \in Places, where' = [where EXCEPT ![i] = p]
    PROVE  /\ where' \in Seq(Places) /\ Len(where') = Len(where)
           /\ \A j \in Frags : where'[j] = IF j = i THEN p ELSE where[j]
<1>1. where \in Seq(Places) /\ Len(where) = Len(frags)
  BY TypesIn DEF TInv, Sizes
<1> QED BY <1>1, ExceptSeq DEF Frags

LEMMA CancelFacts ==
    ASSUME TInv, CancelAllMessages
    PROVE  /\ where' \in Seq(Places) /\ Len(where') = Len(where)
           /\ \A i \in Frags : \/ where'[i] = where[i] /\ ~(frags[i].on \in ServerSends /\ where[i] = "queued")
                               \/ /\ where'[i] = "dropped" /\ where[i] \in {"queued", "flying"}
                                  /\ frags[i].on \in ServerSends
           /\ \A s \in ServerSends : sending[s] = Idle
           /\ ForgetOrder /\ before' = Len(frags) /\ cancels' = cancels + 1 /\ cancels < MaxCancels
           /\ torn' = torn \cup {frags[m].on : m \in {i \in {i \in Frags : frags[i].on \in ServerSends} :
                                                         UnderWay(frags[i].msg)}}
           /\ UNCHANGED <<frags, sending, serial, serialOf, receiverVars>>
<1> DEFINE theirs == {i \in Frags : frags[i].on \in ServerSends}
<1>1. PICK repeats \in SUBSET {i \in theirs : where[i] = "flying"} :
         where' = [i \in Frags |-> IF i \in repeats \/ (i \in theirs /\ where[i] = "queued")
                                   THEN "dropped" ELSE where[i]]
  BY DEF CancelAllMessages
<1>2. \A i \in Frags : where'[i] = IF i \in repeats \/ (i \in theirs /\ where[i] = "queued")
                                   THEN "dropped" ELSE where[i]
  BY <1>1
<1>3. where' \in [1 .. Len(frags) -> Places] /\ Len(frags) \in Nat
  <2>1. \A i \in Frags : where[i] \in Places /\ "dropped" \in Places
    BY TypesIn DEF Places
  <2> QED BY <1>1, <2>1, TypesIn DEF Frags
<1>4. where' \in Seq(Places) /\ Len(where') = Len(frags)
  BY <1>3
<1>5. Len(where) = Len(frags)
  BY DEF TInv, Sizes
<1> QED BY <1>2, <1>4, <1>5 DEF CancelAllMessages

-----------------------------------------------------------------------------
(* The types are kept.                                                     *)

LEMMA ListsGrow ==
    ASSUME Lists, Frags \subseteq Frags', UNCHANGED receiverVars
    PROVE  Lists'
  BY DEF Lists, Listed, receiverVars

LEMMA DispatchTyped ==
    ASSUME TInv, NEW s \in Streams, NEW class \in Classes, NEW msg \in 1 .. Len(frags) + 1,
           NEW part \in BOOLEAN, NEW left \in 0 .. N, Dispatch(s, class, msg, part, left)
    PROVE  TInv'
<1> DEFINE id == Len(frags) + 1
           kind == KindOf(s, class, part)
           f  == NewFragment(s, class, msg, part, left)
<1>0. /\ id <= N /\ Len(frags') = id /\ Frags' = Frags \cup {id} /\ id \notin Frags
      /\ f \in Fragment
      /\ frags' \in Seq(Fragment) /\ where' \in Seq(Places) /\ serialOf' \in Seq(0 .. N)
      /\ Len(where') = Len(frags') /\ Len(serialOf') = Len(frags')
      /\ \A i \in Frags : /\ frags'[i] = frags[i] /\ where'[i] = where[i]
                          /\ serialOf'[i] = serialOf[i]
      /\ frags'[id] = f /\ where'[id] = "queued" /\ serialOf'[id] = None
      /\ UNCHANGED <<serial, receiverVars, cancelVars>>
  BY DispatchFacts
<1>1. /\ lastVIM' = IF kind = "vim" THEN [lastVIM EXCEPT ![s] = id] ELSE lastVIM
      /\ lastUrgent' = IF kind = "urgent" THEN [lastUrgent EXCEPT ![s] = id] ELSE lastUrgent
      /\ sending' = [sending EXCEPT ![s] = IF left = 0 THEN Idle
                                           ELSE [left |-> left, msg |-> msg, class |-> class]]
  BY DEF Dispatch
<1>2. /\ N \in Nat /\ Len(frags) \in Nat /\ msg \in 1 .. id
      /\ lastVIM \in [Streams -> 0 .. N] /\ lastUrgent \in [Streams -> 0 .. N]
      /\ sending \in [Streams -> Cuts]
  BY TypesIn DEF TInv, TypeOK, Cuts
<1>3. lastVIM' \in [Streams -> 0 .. N] /\ lastUrgent' \in [Streams -> 0 .. N]
  BY <1>0, <1>1, <1>2
<1>4. sending' \in [Streams -> Cuts]
  <2>1. Idle \in Cuts /\ [left |-> left, msg |-> msg, class |-> class] \in Cuts
    BY <1>0, <1>2 DEF Idle, Cuts, Classes
  <2> QED BY <1>1, <1>2, <2>1
<1>5. TypeOK'
  BY <1>0, <1>3, <1>4 DEF TInv, TypeOK, Fragment, Places, Cuts, receiverVars, cancelVars
<1>6. Sizes'
  <2>1. f.msg <= id /\ f.pred < id
    <3>1. f.msg = msg /\ f.pred = Previous(s, kind)
      BY DEF NewFragment
    <3>2. Previous(s, kind) <= Len(frags)
      BY <1>2 DEF Previous, TInv, Sizes
    <3>3. Previous(s, kind) \in Nat
      BY <1>2 DEF Previous
    <3> QED BY <1>2, <3>1, <3>2, <3>3
  <2>2. \A i \in Frags' : frags'[i].msg <= i /\ frags'[i].pred < i
    BY <1>0, <2>1 DEF TInv, Sizes
  <2>3. ASSUME NEW q \in Streams
        PROVE  /\ lastVIM'[q] <= Len(frags') /\ lastUrgent'[q] <= Len(frags')
               /\ sending'[q] # Idle => sending'[q].left # 0 /\ sending'[q].msg \in Frags'
    <3>1. /\ lastVIM[q] <= Len(frags) /\ lastUrgent[q] <= Len(frags)
          /\ sending[q] # Idle => sending[q].left # 0 /\ sending[q].msg \in Frags
      BY DEF TInv, Sizes
    <3>2. lastVIM'[q] <= Len(frags') /\ lastUrgent'[q] <= Len(frags')
      BY <1>0, <1>1, <1>2, <3>1
    <3>3. msg \in Frags'
      BY <1>0, <1>2 DEF Frags
    <3>4. CASE q = s
      <4>1. sending'[s] # Idle =>
               left # 0 /\ sending'[s] = [left |-> left, msg |-> msg, class |-> class]
        BY <1>1, <1>2
      <4> QED BY <3>2, <3>3, <3>4, <4>1
    <3>5. CASE q # s
      BY <1>0, <1>1, <1>2, <3>1, <3>2, <3>5
    <3> QED BY <3>4, <3>5
  <2>4. before' <= Len(frags')
    BY <1>0, <1>2 DEF TInv, Sizes, TypeOK, cancelVars
  <2> QED BY <1>0, <2>2, <2>3, <2>4 DEF Sizes
<1>7. Serials'
  <2>1. \A q \in Streams : Given(q)' = Given(q)
    BY <1>0 DEF Given
  <2>2. \A i \in Frags' : /\ where'[i] \in {"flying", "arrived"} => serialOf'[i] # None
                          /\ where'[i] = "queued" => serialOf'[i] = None
    BY <1>0 DEF TInv, Serials
  <2> QED BY <1>0, <2>1, <2>2 DEF TInv, Serials
<1>8. Lists'
  BY <1>0, ListsGrow DEF TInv
<1> QED BY <1>5, <1>6, <1>7, <1>8 DEF TInv

LEMMA SameSizes ==
    ASSUME Sizes, UNCHANGED senderVars, UNCHANGED cancelVars,
           Len(where') = Len(where), Len(serialOf') = Len(serialOf)
    PROVE  Sizes'
  BY DEF Sizes, Frags, senderVars, cancelVars

LEMMA LeaveTyped ==
    ASSUME TInv, NEW i \in Frags, Leave(i)
    PROVE  TInv'
<1> DEFINE s == frags[i].on
<1>0. /\ where[i] = "queued" /\ where' \in Seq(Places) /\ Len(where') = Len(where)
      /\ \A j \in Frags : where'[j] = IF j = i THEN "flying" ELSE where[j]
      /\ Len(serialOf') = Len(serialOf)
      /\ \A j \in Frags : serialOf'[j] = IF j = i THEN serial[s] ELSE serialOf[j]
      /\ s \in Streams
      /\ serial' = [serial EXCEPT ![s] = @ + 1]
      /\ UNCHANGED <<senderVars, receiverVars, cancelVars>>
  BY LeaveFacts
<1>1. /\ frags' = frags /\ Frags' = Frags
  BY <1>0 DEF senderVars, Frags
<1>2. /\ Given(s)' = Given(s) \cup {i} /\ i \notin Given(s)
      /\ \A q \in Streams \ {s} : Given(q)' = Given(q)
  <2>1. serialOf[i] = None /\ serial[s] # None
    BY <1>0, TypesIn DEF TInv, Serials
  <2> QED BY <1>0, <1>1, <2>1 DEF Given
<1>3. /\ IsFiniteSet(Given(s)) /\ Cardinality(Given(s)) \in Nat
      /\ Cardinality(Given(s)') = Cardinality(Given(s)) + 1
      /\ Cardinality(Given(s)') <= N
  <2>1. Given(s) \subseteq 1 .. Len(frags) /\ Given(s)' \subseteq 1 .. Len(frags)
    BY <1>1 DEF Given, Frags
  <2>2. IsFiniteSet(1 .. Len(frags)) /\ Cardinality(1 .. Len(frags)) <= N
    <3>1. Len(frags) \in Nat /\ Len(frags) <= N
      BY TypesIn DEF TInv, Sizes
    <3> QED BY <3>1, FS_Interval
  <2>3. IsFiniteSet(Given(s)) /\ IsFiniteSet(Given(s)')
        /\ Cardinality(Given(s)') <= Cardinality(1 .. Len(frags))
    BY <2>1, <2>2, FS_Subset
  <2>4. /\ Cardinality(Given(s)) \in Nat /\ Cardinality(Given(s)') \in Nat
        /\ Cardinality(1 .. Len(frags)) \in Nat
    BY <2>2, <2>3, FS_CardinalityType
  <2>5. Cardinality(Given(s) \cup {i}) = Cardinality(Given(s)) + 1
    BY <1>2, <2>3, FS_AddElement
  <2> QED BY <1>2, <2>2, <2>3, <2>4, <2>5, TypesIn
<1>4. serial[s] \in 1 .. N /\ Cardinality(Given(s)) + 1 = serial[s]
  <2>1. Cardinality(Given(s)) + 1 = serial[s]
    BY <1>0 DEF TInv, Serials
  <2> QED BY <1>3, <2>1, TypesIn
<1>5. TypeOK'
  <2>1. serial' \in [Streams -> 1 .. N + 1]
    BY <1>0, <1>4, TypesIn
  <2>2. serialOf' \in Seq(0 .. N)
    <3>1. serialOf \in Seq(0 .. N) /\ serial[s] \in 0 .. N /\ Len(serialOf) = Len(frags)
      BY <1>4, TypesIn DEF TInv, Sizes
    <3>2. serialOf' = [serialOf EXCEPT ![i] = serial[s]]
      BY DEF Leave
    <3> QED BY <3>1, <3>2, ExceptSeq DEF Frags
  <2> QED BY <1>0, <2>1, <2>2 DEF TInv, TypeOK, Places, senderVars, receiverVars, cancelVars
<1>6. Serials'
  <2>1. \A j \in Frags' : /\ where'[j] \in {"flying", "arrived"} => serialOf'[j] # None
                          /\ where'[j] = "queued" => serialOf'[j] = None
    BY <1>0, <1>1, <1>4 DEF TInv, Serials
  <2>2. \A q \in Streams : Cardinality(Given(q)') + 1 = serial'[q]
    <3>1. \A q \in Streams : q # s => Cardinality(Given(q)') + 1 = serial'[q]
      BY <1>0, <1>2, TypesIn DEF TInv, Serials
    <3>2. \A q \in Streams : q = s => Cardinality(Given(q)') + 1 = serial'[q]
      <4>1. Cardinality(Given(s)') + 1 = serial'[s]
        BY <1>0, <1>3, <1>4, TypesIn
      <4> QED BY <1>1, <4>1 DEF Given
    <3> QED BY <3>1, <3>2
  <2> QED BY <2>1, <2>2 DEF Serials
<1>7. Sizes' /\ Lists'
  BY <1>0, <1>1, SameSizes, ListsGrow DEF TInv
<1> QED BY <1>5, <1>6, <1>7 DEF TInv

LEMMA GivenKept ==
    ASSUME UNCHANGED <<frags, serialOf>>
    PROVE  \A q \in Streams : Given(q)' = Given(q)
  BY DEF Given, Frags

LEMMA LoseTyped ==
    ASSUME TInv, NEW i \in Frags, Lose(i)
    PROVE  TInv'
<1>1. /\ where' = [where EXCEPT ![i] = "lost"] /\ "lost" \in Places
      /\ UNCHANGED <<senderVars, serial, serialOf, receiverVars, cancelVars>>
  BY DEF Lose, Places
<1>2. /\ where' \in Seq(Places) /\ Len(where') = Len(where)
      /\ \A j \in Frags : where'[j] = IF j = i THEN "lost" ELSE where[j]
  BY <1>1, WhereFacts
<1>3. frags' = frags /\ Frags' = Frags /\ \A q \in Streams : Given(q)' = Given(q)
  BY <1>1, GivenKept DEF senderVars, Frags
<1>4. TypeOK'
  BY <1>1, <1>2 DEF TInv, TypeOK, Places, senderVars, receiverVars, cancelVars
<1>5. Serials'
  BY <1>1, <1>2, <1>3 DEF TInv, Serials
<1>6. Sizes' /\ Lists'
  BY <1>1, <1>2, <1>3, SameSizes, ListsGrow DEF TInv
<1> QED BY <1>4, <1>5, <1>6 DEF TInv

LEMMA CancelTyped ==
    ASSUME TInv, CancelAllMessages
    PROVE  TInv'
<1>1. /\ where' \in Seq(Places) /\ Len(where') = Len(where)
      /\ \A i \in Frags : \/ where'[i] = where[i]
                          \/ where'[i] = "dropped"
      /\ ForgetOrder /\ before' = Len(frags) /\ cancels' = cancels + 1 /\ cancels < MaxCancels
      /\ torn' = torn \cup {frags[m].on : m \in {i \in {i \in Frags : frags[i].on \in ServerSends} :
                                                    UnderWay(frags[i].msg)}}
      /\ UNCHANGED <<frags, sending, serial, serialOf, receiverVars>>
  BY CancelFacts
<1>2. Frags' = Frags /\ \A q \in Streams : Given(q)' = Given(q)
  BY <1>1, GivenKept DEF Frags
<1>3. torn' \subseteq ServerSends
  BY <1>1 DEF TInv, TypeOK
<1>4. /\ lastVIM' \in [Streams -> 0 .. N] /\ lastUrgent' \in [Streams -> 0 .. N]
      /\ \A q \in Streams : lastVIM'[q] \in {0, lastVIM[q]} /\ lastUrgent'[q] \in {0, lastUrgent[q]}
  <2>1. lastVIM \in [Streams -> 0 .. N] /\ lastUrgent \in [Streams -> 0 .. N] /\ 0 \in 0 .. N
    BY StreamsAssumption DEF TInv, TypeOK
  <2> QED BY <1>1, <2>1 DEF ForgetOrder
<1>5. TypeOK'
  <2>1. Len(frags) \in 0 .. N /\ cancels + 1 \in 0 .. MaxCancels
    BY <1>1, TypesIn, StreamsAssumption DEF TInv, TypeOK, Sizes
  <2> QED BY <1>1, <1>3, <1>4, <2>1 DEF TInv, TypeOK, Places, receiverVars
<1>6. Sizes'
  <2>1. \A q \in Streams : lastVIM'[q] <= Len(frags) /\ lastUrgent'[q] <= Len(frags)
    <3>1. /\ 0 <= Len(frags)
          /\ \A q \in Streams : lastVIM[q] <= Len(frags) /\ lastUrgent[q] <= Len(frags)
      BY TypesIn DEF TInv, Sizes
    <3> QED BY <1>4, <3>1
  <2>2. Len(frags) <= Len(frags)
    BY TypesIn
  <2> QED BY <1>1, <1>2, <2>1, <2>2 DEF TInv, Sizes
<1>7. Serials'
  BY <1>1, <1>2 DEF TInv, Serials
<1>8. Lists'
  BY <1>1, <1>2, ListsGrow DEF TInv
<1> QED BY <1>5, <1>6, <1>7, <1>8 DEF TInv

LEMMA EndsOf ==
    ASSUME NEW s \in Streams
    PROVE  End(s) \in Ends
  BY DEF End, Ends

(* What a fragment that completes a message brings into the list.          *)
Brought(i) == IF frags[i].part THEN Append(split[frags[i].on][frags[i].urgent], i) ELSE <<i>>

(* The composite of parts is entered behind the first n of list.           *)
Entered(list, new, parts, n) ==
    /\ Len(new) = Len(list) + 1
    /\ \A k \in 1 .. n : new[k] = list[k]
    /\ new[n + 1] = [parts |-> parts, serial |-> serialOf[Last(parts)]]
    /\ \A k \in n + 1 .. Len(list) : new[k + 1] = list[k]
    /\ \A k \in 1 .. n : list[k].serial <= serialOf[Last(parts)]
    /\ n + 1 <= Len(list) => serialOf[Last(parts)] <= list[n + 1].serial

LEMMA BroughtFacts ==
    ASSUME TInv, NEW i \in Frags
    PROVE  /\ Brought(i) \in Seq(1 .. N) /\ Brought(i) # <<>> /\ Last(Brought(i)) = i
           /\ Listed(Brought(i)) /\ Len(Brought(i)) \in Nat /\ Len(Brought(i)) # 0
           /\ Brought(i)[Len(Brought(i))] = i
<1> DEFINE s == frags[i].on
           u == frags[i].urgent
<1>1. /\ s \in Streams /\ u \in BOOLEAN /\ i \in 1 .. N
      /\ split[s][u] \in Seq(1 .. N) /\ Listed(split[s][u])
  <2>1. frags[i] \in Fragment /\ N \in Nat /\ Len(frags) \in Nat /\ Len(frags) <= N
    BY TypesIn DEF TInv, Sizes
  <2>2. s \in Streams /\ u \in BOOLEAN /\ i \in 1 .. N
    BY <2>1 DEF Fragment, Frags
  <2>3. split \in [Streams -> [BOOLEAN -> Seq(1 .. N)]]
    BY DEF TInv, TypeOK
  <2>4. Listed(split[s][u])
    BY <2>2 DEF TInv, Lists
  <2> QED BY <2>2, <2>3, <2>4
<1>2. CASE frags[i].part
  <2> DEFINE q == split[s][u]
  <2>1. Brought(i) = Append(q, i)
    BY <1>2 DEF Brought
  <2>2. q \in Seq(1 .. N) /\ Listed(q) /\ Len(q) \in Nat
    BY <1>1, LenProperties
  <2> HIDE DEF q
  <2>3. /\ Append(q, i) \in Seq(1 .. N) /\ Len(Append(q, i)) = Len(q) + 1
        /\ \A k \in 1 .. Len(q) : Append(q, i)[k] = q[k]
        /\ Append(q, i)[Len(q) + 1] = i
    BY <1>1, <2>2, AppendProperties
  <2>4. Append(q, i) # <<>>
    BY <2>2, <2>3
  <2>5. Listed(Append(q, i))
    BY <2>2, <2>3 DEF Listed
  <2>6. Last(Append(q, i)) = i
    BY <2>2, <2>3 DEF Last
  <2>7. Len(Append(q, i)) \in Nat /\ Len(Append(q, i)) # 0 /\ Append(q, i)[Len(Append(q, i))] = i
    BY <2>2, <2>3
  <2> QED BY <2>1, <2>3, <2>4, <2>5, <2>6, <2>7
<1>3. CASE ~frags[i].part
  <2>1. Brought(i) = <<i>>
    BY <1>3 DEF Brought
  <2> QED BY <1>1, <2>1 DEF Listed, Last
<1> QED BY <1>2, <1>3

LEMMA InsertFacts ==
    ASSUME TInv, NEW e \in Ends, NEW parts \in Seq(1 .. N), serialOf[Last(parts)] \in 1 .. N,
           received' = [received EXCEPT ![e] = InsertReceived(@, Composite(parts))]
    PROVE  /\ received' \in [Ends -> Seq(Received)]
           /\ \A d \in Ends : d # e => received'[d] = received[d]
           /\ \E n \in 0 .. Len(received[e]) : Entered(received[e], received'[e], parts, n)
<1> DEFINE list == received[e]
           m    == Composite(parts)
           new  == InsertReceived(list, m)
<1>1. /\ m = [parts |-> parts, serial |-> serialOf[Last(parts)]]
      /\ m \in Received /\ m.serial = serialOf[Last(parts)]
  BY DEF Composite, Received
<1>2. list \in Seq(Received) /\ received \in [Ends -> Seq(Received)]
  BY TypesIn
<1>3. received' = [received EXCEPT ![e] = new]
  OBVIOUS
<1> HIDE DEF list, m
<1>4. \A c \in Received : c.serial \in Nat
  BY TypesIn DEF Received
<1>a. m \in Received
  BY <1>1
<1>5. PICK n \in 0 .. Len(list) :
         /\ new \in Seq(Received) /\ Len(new) = Len(list) + 1
         /\ \A k \in 1 .. n : new[k] = list[k]
         /\ new[n + 1] = m
         /\ \A k \in n + 1 .. Len(list) : new[k + 1] = list[k]
         /\ \A k \in 1 .. n : list[k].serial <= m.serial
         /\ n + 1 <= Len(list) => m.serial <= list[n + 1].serial
  BY <1>a, <1>2, <1>4, Inserted
<1> HIDE DEF new
<1>6. Entered(list, new, parts, n)
  BY <1>1, <1>5 DEF Entered
<1>7. received'[e] = new /\ \A d \in Ends : d # e => received'[d] = received[d]
  BY <1>2, <1>3
<1>8. received' \in [Ends -> Seq(Received)]
  BY <1>2, <1>3, <1>5
<1> QED BY <1>5, <1>6, <1>7, <1>8 DEF list

(* A fragment arrives: it is thrown away, collected, or completes a message. *)
Collected(i) ==
    /\ frags[i].part /\ ~frags[i].closing
    /\ split' = [split EXCEPT ![frags[i].on][frags[i].urgent] = Append(@, i)]
    /\ UNCHANGED received
Completes(i) ==
    LET s == frags[i].on
    IN /\ frags[i].part => frags[i].closing /\ split[s][frags[i].urgent] # <<>>
       /\ split' = IF frags[i].part THEN [split EXCEPT ![s][frags[i].urgent] = <<>>] ELSE split
       /\ received' \in [Ends -> Seq(Received)]
       /\ \A d \in Ends : d # End(s) => received'[d] = received[d]
       /\ \E n \in 0 .. Len(received[End(s)]) :
             Entered(received[End(s)], received'[End(s)], Brought(i), n)
Discarded(i) ==
    /\ frags[i].part /\ Headless(i) /\ frags[i].on \notin ServerSends
    /\ UNCHANGED <<split, received>>

LEMMA ArriveFacts ==
    ASSUME TInv, NEW i \in Frags, Arrive(i)
    PROVE  /\ where[i] = "flying" /\ InTurn(i)
           /\ where' \in Seq(Places) /\ Len(where') = Len(where)
           /\ \A j \in Frags : where'[j] = IF j = i THEN "arrived" ELSE where[j]
           /\ serialOf[i] \in 1 .. N
           /\ UNCHANGED <<senderVars, serial, serialOf, handed, cancelVars>>
           /\ frags' = frags /\ Frags' = Frags
           /\ Collected(i) \/ Completes(i) \/ Discarded(i)
<1> DEFINE s == frags[i].on
           u == frags[i].urgent
<1>1. /\ where[i] = "flying" /\ InTurn(i) /\ "arrived" \in Places
      /\ where' = [where EXCEPT ![i] = "arrived"]
      /\ UNCHANGED <<senderVars, serial, serialOf, handed, cancelVars>>
  BY DEF Arrive, Places
<1>2. /\ where' \in Seq(Places) /\ Len(where') = Len(where)
      /\ \A j \in Frags : where'[j] = IF j = i THEN "arrived" ELSE where[j]
  BY <1>1, WhereFacts
<1>3. serialOf[i] \in 1 .. N
  BY <1>1, TypesIn DEF TInv, Serials
<1>4. frags' = frags /\ Frags' = Frags
  BY <1>1 DEF senderVars, Frags
<1>5. s \in Streams /\ End(s) \in Ends
  BY TypesIn, EndsOf
<1>9. frags[i].part \in BOOLEAN
  BY TypesIn DEF Fragment
<1>10. Collected(i) \/ Completes(i) \/ Discarded(i)
  <2>6. CASE frags[i].part /\ Headless(i)
    BY <2>6 DEF Arrive, Discarded
  <2>7. CASE frags[i].part /\ ~Headless(i) /\ ~frags[i].closing
    BY <2>7 DEF Arrive, Collect, Collected
  <2>8. CASE \/ ~frags[i].part
             \/ frags[i].part /\ ~Headless(i) /\ frags[i].closing
    <3>1. frags[i].part => frags[i].closing /\ split[s][u] # <<>>
      BY <2>8 DEF Headless
    <3>2. split' = IF frags[i].part THEN [split EXCEPT ![s][u] = <<>>] ELSE split
      BY <2>8 DEF Arrive, Collect
    <3>3. received' = [received EXCEPT ![End(s)] = InsertReceived(@, Composite(Brought(i)))]
      BY <2>8 DEF Arrive, Collect, Insert, Brought
    <3>4. Brought(i) \in Seq(1 .. N) /\ serialOf[Last(Brought(i))] \in 1 .. N
      BY <1>3, BroughtFacts
    <3>5. /\ received' \in [Ends -> Seq(Received)]
          /\ \A d \in Ends : d # End(s) => received'[d] = received[d]
          /\ \E n \in 0 .. Len(received[End(s)]) :
                Entered(received[End(s)], received'[End(s)], Brought(i), n)
      <4> DEFINE e == End(s)
                 parts == Brought(i)
      <4>1. /\ e \in Ends /\ parts \in Seq(1 .. N) /\ serialOf[Last(parts)] \in 1 .. N
            /\ received' = [received EXCEPT ![e] = InsertReceived(@, Composite(parts))]
        BY <1>5, <3>3, <3>4
      <4> HIDE DEF e, parts
      <4>2. /\ received' \in [Ends -> Seq(Received)]
            /\ \A d \in Ends : d # e => received'[d] = received[d]
            /\ \E n \in 0 .. Len(received[e]) : Entered(received[e], received'[e], parts, n)
        BY <4>1, InsertFacts
      <4> QED BY <4>2 DEF e, parts
    <3> QED BY <3>1, <3>2, <3>5 DEF Completes
  <2> QED BY <1>9, <2>6, <2>7, <2>8
<1> QED BY <1>1, <1>2, <1>3, <1>4, <1>10

LEMMA ArriveTyped ==
    ASSUME TInv, NEW i \in Frags, Arrive(i)
    PROVE  TInv'
<1> DEFINE s == frags[i].on
           u == frags[i].urgent
<1>0. /\ where[i] = "flying"
      /\ where' \in Seq(Places) /\ Len(where') = Len(where)
      /\ \A j \in Frags : where'[j] = IF j = i THEN "arrived" ELSE where[j]
      /\ serialOf[i] \in 1 .. N
      /\ UNCHANGED <<senderVars, serial, serialOf, handed, cancelVars>>
      /\ frags' = frags /\ Frags' = Frags
      /\ Collected(i) \/ Completes(i) \/ Discarded(i)
  BY ArriveFacts
<1>1. /\ split \in [Streams -> [BOOLEAN -> Seq(1 .. N)]]
      /\ \A q \in Streams, v \in BOOLEAN : Listed(split[q][v])
      /\ s \in Streams /\ u \in BOOLEAN /\ End(s) \in Ends
  <2>1. frags[i] \in Fragment
    BY TypesIn
  <2>2. s \in Streams /\ u \in BOOLEAN
    BY <2>1 DEF Fragment
  <2> QED BY <2>2, EndsOf DEF TInv, TypeOK, Lists
<1>2. /\ Brought(i) # <<>> /\ Listed(Brought(i))
      /\ frags[i].part => Brought(i) = Append(split[s][u], i) /\ Brought(i) \in Seq(1 .. N)
  BY BroughtFacts DEF Brought
<1>3. /\ split' \in [Streams -> [BOOLEAN -> Seq(1 .. N)]]
      /\ \A q \in Streams, v \in BOOLEAN : Listed(split'[q][v])
  <2>1. CASE split' = split
    BY <1>1, <2>1
  <2>2. CASE split' = [split EXCEPT ![s][u] = <<>>]
    BY <1>1, <2>2 DEF Listed
  <2>3. CASE Collected(i)
    BY <1>1, <1>2, <2>3 DEF Collected
  <2> QED BY <1>0, <2>1, <2>2, <2>3 DEF Completes, Discarded
<1>4. /\ received' \in [Ends -> Seq(Received)]
      /\ \A e \in Ends : \A k \in 1 .. Len(received'[e]) :
            received'[e][k].parts # <<>> /\ Listed(received'[e][k].parts)
  <2>1. /\ received \in [Ends -> Seq(Received)]
        /\ \A e \in Ends : \A k \in 1 .. Len(received[e]) :
              received[e][k].parts # <<>> /\ Listed(received[e][k].parts)
        /\ \A e \in Ends : Len(received[e]) \in Nat
    BY TypesIn, LenProperties DEF TInv, Lists
  <2>2. CASE received' = received
    BY <2>1, <2>2
  <2>3. CASE Completes(i)
    <3>1. /\ received' \in [Ends -> Seq(Received)]
          /\ \A d \in Ends : d # End(s) => received'[d] = received[d]
          /\ \E n \in 0 .. Len(received[End(s)]) :
                Entered(received[End(s)], received'[End(s)], Brought(i), n)
      BY <2>3 DEF Completes
    <3>2. PICK n \in 0 .. Len(received[End(s)]) :
             Entered(received[End(s)], received'[End(s)], Brought(i), n)
      BY <3>1
    <3> DEFINE list == received[End(s)]
               new  == received'[End(s)]
               b    == Brought(i)
    <3>3. /\ Len(new) = Len(list) + 1
          /\ \A k \in 1 .. n : new[k] = list[k]
          /\ new[n + 1].parts = b
          /\ \A k \in n + 1 .. Len(list) : new[k + 1] = list[k]
      BY <3>2 DEF Entered
    <3>4. /\ \A k \in 1 .. Len(list) : list[k].parts # <<>> /\ Listed(list[k].parts)
          /\ Len(list) \in Nat /\ n \in 0 .. Len(list) /\ b # <<>> /\ Listed(b)
      BY <1>1, <1>2, <2>1
    <3>5. \A k \in 1 .. Len(new) : new[k].parts # <<>> /\ Listed(new[k].parts)
      <4> HIDE DEF list, new, b
      <4> TAKE k \in 1 .. Len(new)
      <4>1. CASE k <= n
        BY <3>3, <3>4, <4>1
      <4>2. CASE k = n + 1
        BY <3>3, <3>4, <4>2
      <4>3. CASE k > n + 1
        <5>1. k - 1 \in n + 1 .. Len(list) /\ (k - 1) + 1 = k
          BY <3>3, <3>4, <4>3
        <5>2. new[(k - 1) + 1] = list[k - 1] /\ k - 1 \in 1 .. Len(list)
          BY <3>3, <3>4, <5>1
        <5>3. new[k] = list[k - 1]
          BY <5>1, <5>2
        <5> QED BY <3>4, <5>2, <5>3
      <4> QED BY <3>4, <4>1, <4>2, <4>3
    <3> QED BY <2>1, <3>1, <3>5
  <2> QED BY <1>0, <2>2, <2>3 DEF Collected, Discarded
<1>5. TypeOK'
  BY <1>0, <1>3, <1>4 DEF TInv, TypeOK, Places, Received, senderVars, cancelVars
<1>6. Sizes'
  BY <1>0, SameSizes DEF TInv
<1>7. Serials'
  <2>1. \A q \in Streams : Given(q)' = Given(q)
    BY <1>0, GivenKept
  <2> QED BY <1>0, <2>1 DEF TInv, Serials
<1>8. Lists'
  <2>1. \A e \in Ends : \A k \in 1 .. Len(handed[e]) : handed[e][k] # <<>> /\ Listed(handed[e][k])
    BY DEF TInv, Lists
  <2> QED BY <1>0, <1>3, <1>4, <2>1 DEF Lists, Listed
<1> QED BY <1>5, <1>6, <1>7, <1>8 DEF TInv

LEMMA ProcessFacts ==
    ASSUME TInv, NEW e \in Ends, ProcessUserMessages(e)
    PROVE  /\ Len(received[e]) # 0 /\ Len(received[e]) \in Nat /\ Len(handed[e]) \in Nat
           /\ received' \in [Ends -> Seq(Received)] /\ handed' \in [Ends -> Seq(Seq(1 .. N))]
           /\ \A d \in Ends : d # e => received'[d] = received[d] /\ handed'[d] = handed[d]
           /\ Len(received'[e]) = Len(received[e]) - 1
           /\ \A k \in 1 .. Len(received[e]) - 1 : received'[e][k] = received[e][k + 1]
           /\ Len(handed'[e]) = Len(handed[e]) + 1
           /\ \A k \in 1 .. Len(handed[e]) : handed'[e][k] = handed[e][k]
           /\ handed'[e][Len(handed[e]) + 1] = received[e][1].parts
           /\ UNCHANGED <<senderVars, channelVars, split, cancelVars>>
           /\ frags' = frags /\ Frags' = Frags /\ where' = where
<1> DEFINE list == received[e]
           past == handed[e]
<1>1. /\ list # <<>>
      /\ handed' = [handed EXCEPT ![e] = Append(past, Head(list).parts)]
      /\ received' = [received EXCEPT ![e] = Tail(list)]
      /\ UNCHANGED <<senderVars, channelVars, split, cancelVars>>
  BY DEF ProcessUserMessages
<1>2. /\ list \in Seq(Received) /\ past \in Seq(Seq(1 .. N))
      /\ received \in [Ends -> Seq(Received)] /\ handed \in [Ends -> Seq(Seq(1 .. N))]
  BY TypesIn DEF TInv, TypeOK
<1> HIDE DEF list, past
<1>3. /\ Len(list) \in Nat /\ Len(list) # 0 /\ Head(list) = list[1] /\ list[1] \in Received
      /\ Tail(list) \in Seq(Received) /\ Len(Tail(list)) = Len(list) - 1
      /\ \A k \in 1 .. Len(list) - 1 : Tail(list)[k] = list[k + 1]
  BY <1>1, <1>2, HeadTailProperties, LenProperties, ElementOfSeq, EmptySeq
<1>4. list[1].parts \in Seq(1 .. N)
  BY <1>3 DEF Received
<1>5. /\ Len(past) \in Nat /\ Append(past, list[1].parts) \in Seq(Seq(1 .. N))
      /\ Len(Append(past, list[1].parts)) = Len(past) + 1
      /\ \A k \in 1 .. Len(past) : Append(past, list[1].parts)[k] = past[k]
      /\ Append(past, list[1].parts)[Len(past) + 1] = list[1].parts
  BY <1>2, <1>4, AppendProperties, LenProperties
<1> DEFINE x == Append(past, list[1].parts)
           y == Tail(list)
<1>6. handed' = [handed EXCEPT ![e] = x] /\ received' = [received EXCEPT ![e] = y]
  BY <1>1, <1>3
<1>7. /\ x \in Seq(Seq(1 .. N)) /\ y \in Seq(Received)
  BY <1>3, <1>5
<1> HIDE DEF x, y
<1>8. /\ received' \in [Ends -> Seq(Received)] /\ handed' \in [Ends -> Seq(Seq(1 .. N))]
      /\ \A d \in Ends : d # e => received'[d] = received[d] /\ handed'[d] = handed[d]
      /\ received'[e] = y /\ handed'[e] = x
  BY <1>2, <1>6, <1>7
<1>9. frags' = frags /\ Frags' = Frags /\ where' = where
  BY <1>1 DEF senderVars, channelVars, Frags
<1> QED BY <1>1, <1>3, <1>5, <1>8, <1>9 DEF list, past, x, y

LEMMA ProcessTyped ==
    ASSUME TInv, NEW e \in Ends, ProcessUserMessages(e)
    PROVE  TInv'
<1>1. /\ Len(received[e]) # 0 /\ Len(received[e]) \in Nat /\ Len(handed[e]) \in Nat
      /\ received' \in [Ends -> Seq(Received)] /\ handed' \in [Ends -> Seq(Seq(1 .. N))]
      /\ \A d \in Ends : d # e => received'[d] = received[d] /\ handed'[d] = handed[d]
      /\ Len(received'[e]) = Len(received[e]) - 1
      /\ \A k \in 1 .. Len(received[e]) - 1 : received'[e][k] = received[e][k + 1]
      /\ Len(handed'[e]) = Len(handed[e]) + 1
      /\ \A k \in 1 .. Len(handed[e]) : handed'[e][k] = handed[e][k]
      /\ handed'[e][Len(handed[e]) + 1] = received[e][1].parts
      /\ UNCHANGED <<senderVars, channelVars, split, cancelVars>>
      /\ frags' = frags /\ Frags' = Frags /\ where' = where
  BY ProcessFacts
<1>2. TypeOK'
  BY <1>1 DEF TInv, TypeOK, Received, senderVars, channelVars, cancelVars
<1>3. Sizes'
  BY <1>1, SameSizes DEF TInv, channelVars
<1>4. Serials'
  <2>1. \A q \in Streams : Given(q)' = Given(q)
    BY <1>1, GivenKept DEF channelVars
  <2> QED BY <1>1, <2>1 DEF TInv, Serials, channelVars
<1>5. Lists'
  <2>1. /\ \A d \in Ends : /\ \A k \in 1 .. Len(received[d]) :
                                received[d][k].parts # <<>> /\ Listed(received[d][k].parts)
                           /\ \A k \in 1 .. Len(handed[d]) :
                                handed[d][k] # <<>> /\ Listed(handed[d][k])
        /\ \A s \in Streams, u \in BOOLEAN : Listed(split[s][u])
    BY DEF TInv, Lists
  <2>2. \A k \in 1 .. Len(received'[e]) :
           received'[e][k].parts # <<>> /\ Listed(received'[e][k].parts)
    <3> DEFINE list == received[e]
               new  == received'[e]
    <3>1. /\ \A k \in 1 .. Len(list) : list[k].parts # <<>> /\ Listed(list[k].parts)
          /\ Len(list) \in Nat /\ Len(new) = Len(list) - 1
          /\ \A k \in 1 .. Len(list) - 1 : new[k] = list[k + 1]
      BY <1>1, <2>1
    <3> HIDE DEF list, new
    <3>2. ASSUME NEW k \in 1 .. Len(new) PROVE new[k].parts # <<>> /\ Listed(new[k].parts)
      <4>1. k + 1 \in 1 .. Len(list) /\ new[k] = list[k + 1]
        BY <3>1
      <4> QED BY <3>1, <4>1
    <3> QED BY <3>2 DEF new
  <2>3. \A k \in 1 .. Len(handed'[e]) : handed'[e][k] # <<>> /\ Listed(handed'[e][k])
    <3> DEFINE past == handed[e]
               new  == handed'[e]
               b    == received[e][1].parts
    <3>1. /\ \A k \in 1 .. Len(past) : past[k] # <<>> /\ Listed(past[k])
          /\ Len(past) \in Nat /\ Len(new) = Len(past) + 1
          /\ \A k \in 1 .. Len(past) : new[k] = past[k]
          /\ new[Len(past) + 1] = b /\ b # <<>> /\ Listed(b)
      BY <1>1, <2>1
    <3> HIDE DEF past, new, b
    <3>2. ASSUME NEW k \in 1 .. Len(new) PROVE new[k] # <<>> /\ Listed(new[k])
      BY <3>1
    <3> QED BY <3>2 DEF new
  <2>4. \A d \in Ends : d # e => /\ \A k \in 1 .. Len(received'[d]) :
                                       received'[d][k].parts # <<>> /\ Listed(received'[d][k].parts)
                                 /\ \A k \in 1 .. Len(handed'[d]) :
                                       handed'[d][k] # <<>> /\ Listed(handed'[d][k])
    <3>1. \A d \in Ends : d # e => received'[d] = received[d] /\ handed'[d] = handed[d]
      BY <1>1
    <3> TAKE d \in Ends
    <3> HAVE d # e
    <3>2. received'[d] = received[d] /\ handed'[d] = handed[d]
      BY <3>1
    <3> QED BY <2>1, <3>2
  <2> QED BY <1>1, <2>1, <2>2, <2>3, <2>4 DEF Lists, Listed
<1> QED BY <1>2, <1>3, <1>4, <1>5 DEF TInv

(* What SendMsg and its loop dispatch is a fragment of a message that has them. *)
LEMMA SendMsgFacts ==
    ASSUME TInv, NEW r \in Requests, SendMsg(r)
    PROVE  /\ r.on \in Streams /\ r.class \in Classes /\ Pieces(r) \in Nat \ {0}
           /\ Len(frags) + 1 \in 1 .. Len(frags) + 1 /\ (Pieces(r) > 1) \in BOOLEAN
           /\ Pieces(r) - 1 \in 0 .. N
           /\ Dispatch(r.on, r.class, Len(frags) + 1, Pieces(r) > 1, Pieces(r) - 1)
           /\ \A s \in Streams : sending[s] = Idle
<1>1. r.on \in Streams /\ r.class \in Classes /\ r.size \in Nat \ {0}
  BY StreamsAssumption
<1>2. Pieces(r) \in Nat \ {0}
  BY <1>1 DEF Pieces
<1>3. Len(frags) + Pieces(r) <= N
  BY DEF SendMsg
<1>4. Len(frags) \in Nat /\ N \in Nat
  BY TypesIn
<1> QED BY <1>1, <1>2, <1>3, <1>4 DEF SendMsg

LEMMA SendNextFacts ==
    ASSUME TInv, NEW s \in Streams, SendNext(s)
    PROVE  /\ sending[s] # Idle /\ sending[s].class \in Classes
           /\ sending[s].msg \in Frags /\ sending[s].msg \in 1 .. Len(frags) + 1
           /\ sending[s].left \in 1 .. N /\ sending[s].left - 1 \in 0 .. N /\ TRUE \in BOOLEAN
           /\ Dispatch(s, sending[s].class, sending[s].msg, TRUE, sending[s].left - 1)
<1>1. sending[s] \in Cuts
  BY DEF TInv, TypeOK, Cuts
<1>2. sending[s] # Idle /\ sending[s].left # 0 /\ sending[s].msg \in Frags
  BY DEF SendNext, TInv, Sizes
<1>3. N \in Nat /\ Len(frags) \in Nat
  BY TypesIn
<1>4. sending[s].class \in Classes /\ sending[s].left \in 0 .. N
  BY <1>1 DEF Cuts
<1>5. sending[s].left \in 1 .. N /\ sending[s].left - 1 \in 0 .. N
  BY <1>2, <1>3, <1>4
<1>6. sending[s].msg \in 1 .. Len(frags) + 1
  BY <1>2, <1>3 DEF Frags
<1> QED BY <1>2, <1>4, <1>5, <1>6 DEF SendNext

LEMMA TypedInit ==
    ASSUME Init
    PROVE  TInv
<1>0. N \in Nat /\ MaxCancels \in Nat
  BY StreamsAssumption
<1>1. /\ frags = <<>> /\ where = <<>> /\ serialOf = <<>>
      /\ lastVIM = [s \in Streams |-> 0] /\ lastUrgent = [s \in Streams |-> 0]
      /\ sending = [s \in Streams |-> Idle] /\ serial = [s \in Streams |-> 1]
      /\ split = [s \in Streams |-> [u \in BOOLEAN |-> <<>>]]
      /\ received = [e \in Ends |-> <<>>] /\ handed = [e \in Ends |-> <<>>]
      /\ cancels = 0 /\ torn = {} /\ before = 0
  BY DEF Init
<1>2. Len(frags) = 0 /\ Len(where) = 0 /\ Len(serialOf) = 0 /\ Frags = {}
  BY <1>1 DEF Frags
<1>3. Idle \in Cuts
  BY <1>0 DEF Idle, Cuts, Classes
<1>4. TypeOK
  BY <1>0, <1>1, <1>3 DEF TypeOK, Cuts
<1>5. Sizes
  BY <1>0, <1>1, <1>2 DEF Sizes
<1>6. Serials
  <2>1. \A s \in Streams : Given(s) = {}
    BY <1>2 DEF Given
  <2>2. \A s \in Streams : Cardinality(Given(s)) = 0
    BY <2>1, FS_EmptySet
  <2> QED BY <1>1, <1>2, <2>2 DEF Serials
<1>7. Lists
  BY <1>1 DEF Lists, Listed
<1> QED BY <1>4, <1>5, <1>6, <1>7 DEF TInv

LEMMA TypedStep ==
    ASSUME TInv, [Next]_vars
    PROVE  TInv'
<1>1. ASSUME NEW r \in Requests, SendMsg(r) PROVE TInv'
  <2>1. /\ r.on \in Streams /\ r.class \in Classes
        /\ Len(frags) + 1 \in 1 .. Len(frags) + 1 /\ (Pieces(r) > 1) \in BOOLEAN
        /\ Pieces(r) - 1 \in 0 .. N
        /\ Dispatch(r.on, r.class, Len(frags) + 1, Pieces(r) > 1, Pieces(r) - 1)
    BY <1>1, SendMsgFacts
  <2> DEFINE msg == Len(frags) + 1  part == Pieces(r) > 1  left == Pieces(r) - 1
  <2> HIDE DEF msg, part, left
  <2> QED BY <2>1, DispatchTyped DEF msg, part, left
<1>2. ASSUME NEW s \in Streams, SendNext(s) PROVE TInv'
  BY <1>2, SendNextFacts, DispatchTyped
<1>3. ASSUME NEW i \in Frags, Leave(i) \/ Lose(i) \/ Arrive(i) PROVE TInv'
  BY <1>3, LeaveTyped, LoseTyped, ArriveTyped
<1>4. ASSUME NEW e \in Ends, ProcessUserMessages(e) PROVE TInv'
  BY <1>4, ProcessTyped
<1>5. CASE CancelAllMessages
  BY <1>5, CancelTyped
<1>6. CASE UNCHANGED vars
  BY <1>6 DEF TInv, TypeOK, Sizes, Serials, Lists, Listed, Given, Frags,
              vars, senderVars, channelVars, receiverVars, cancelVars
<1> QED BY <1>1, <1>2, <1>3, <1>4, <1>5, <1>6 DEF Next

(* The state of a stream is always what its declarations say: no list refers to
   a fragment that was not sent, and no serial exceeds what the stream gave out. *)
THEOREM TypeCorrect == Spec => []TypeOK
<1>1. Spec => []TInv
  <2>1. Init => TInv
    BY TypedInit
  <2>2. TInv /\ [Next]_vars => TInv'
    BY TypedStep
  <2> QED BY <2>1, <2>2, PTL DEF Spec
<1>2. TInv => TypeOK
  BY DEF TInv
<1> QED BY <1>1, <1>2, PTL

-----------------------------------------------------------------------------
(* The channels: what a fragment is ordered behind was sent before it on the same
   stream.                                                                 *)

Chains ==
    /\ \A i \in Frags : frags[i].pred # None => frags[frags[i].pred].on = frags[i].on
    /\ \A s \in Streams : /\ lastVIM[s] # None => frags[lastVIM[s]].on = s
                          /\ lastUrgent[s] # None => frags[lastUrgent[s]].on = s

LEMMA LastsIn ==
    ASSUME TInv, NEW s \in Streams
    PROVE  /\ lastVIM[s] # None => lastVIM[s] \in Frags
           /\ lastUrgent[s] # None => lastUrgent[s] \in Frags
<1>1. /\ lastVIM[s] \in 0 .. N /\ lastUrgent[s] \in 0 .. N /\ N \in Nat /\ Len(frags) \in Nat
  BY TypesIn DEF TInv, TypeOK
<1>2. lastVIM[s] <= Len(frags) /\ lastUrgent[s] <= Len(frags)
  BY DEF TInv, Sizes
<1> QED BY <1>1, <1>2 DEF Frags

LEMMA PredsIn ==
    ASSUME TInv, NEW i \in Frags
    PROVE  /\ frags[i].pred \in Nat /\ frags[i].pred < i
           /\ frags[i].pred # None => frags[i].pred \in Frags
           /\ frags[i].msg \in Frags /\ frags[i].msg <= i
<1>1. frags[i] \in Fragment /\ N \in Nat /\ Len(frags) \in Nat
  BY TypesIn
<1>2. frags[i].pred < i /\ frags[i].msg <= i
  BY DEF TInv, Sizes
<1> QED BY <1>1, <1>2 DEF Fragment, Frags

(* What is dispatched is the first fragment of a message, or the next one of the
   message that is being cut.                                              *)
FirstOne(s, class, msg, part, left) ==
    /\ \A q \in Streams : sending[q] = Idle
    /\ msg = Len(frags) + 1 /\ part = (left # 0)
    /\ s \notin ServerSends /\ part => class \in {"vim", "urgent"}
NextOne(s, class, msg, part, left) ==
    /\ sending[s] # Idle /\ class = sending[s].class /\ msg = sending[s].msg /\ part

LEMMA SentStep ==
    ASSUME TInv, Next
    PROVE  \/ \E s \in Streams, class \in Classes, msg \in 1 .. Len(frags) + 1, part \in BOOLEAN,
                 left \in 0 .. N : /\ Dispatch(s, class, msg, part, left)
                                   /\ \/ FirstOne(s, class, msg, part, left)
                                      \/ NextOne(s, class, msg, part, left)
           \/ \E i \in Frags : Leave(i) \/ Lose(i) \/ Arrive(i)
           \/ \E e \in Ends : ProcessUserMessages(e)
           \/ CancelAllMessages
<1>1. ASSUME NEW r \in Requests, SendMsg(r)
      PROVE  \E s \in Streams, class \in Classes, msg \in 1 .. Len(frags) + 1, part \in BOOLEAN,
                left \in 0 .. N : /\ Dispatch(s, class, msg, part, left)
                                  /\ FirstOne(s, class, msg, part, left)
  <2> DEFINE on == r.on  cl == r.class
             m == Len(frags) + 1  p == Pieces(r) > 1  l == Pieces(r) - 1
  <2>1. /\ on \in Streams /\ cl \in Classes /\ m \in 1 .. Len(frags) + 1 /\ p \in BOOLEAN
        /\ l \in 0 .. N /\ Dispatch(on, cl, m, p, l) /\ Pieces(r) \in Nat \ {0}
        /\ \A q \in Streams : sending[q] = Idle
    BY <1>1, SendMsgFacts
  <2>2. p = (l # 0)
    BY <2>1
  <2>3. on \notin ServerSends /\ p => cl \in {"vim", "urgent"}
    BY DEF Pieces
  <2>4. FirstOne(on, cl, m, p, l)
    BY <2>1, <2>2, <2>3 DEF FirstOne
  <2> HIDE DEF on, cl, m, p, l
  <2> QED BY <2>1, <2>4
<1>2. ASSUME NEW q \in Streams, SendNext(q)
      PROVE  \E s \in Streams, class \in Classes, msg \in 1 .. Len(frags) + 1, part \in BOOLEAN,
                left \in 0 .. N : /\ Dispatch(s, class, msg, part, left)
                                  /\ NextOne(s, class, msg, part, left)
  <2> DEFINE cl == sending[q].class  m == sending[q].msg  l == sending[q].left - 1
  <2>1. /\ cl \in Classes /\ m \in 1 .. Len(frags) + 1 /\ TRUE \in BOOLEAN
        /\ l \in 0 .. N /\ Dispatch(q, cl, m, TRUE, l)
    BY <1>2, SendNextFacts
  <2>2. NextOne(q, cl, m, TRUE, l)
    BY <1>2, SendNextFacts DEF NextOne
  <2> HIDE DEF cl, m, l
  <2> QED BY <2>1, <2>2
<1> QED BY <1>1, <1>2 DEF Next

LEMMA DispatchOrder ==
    ASSUME TInv, Chains, NEW s \in Streams, NEW class \in Classes, NEW part \in BOOLEAN,
           NEW msg, NEW left, Dispatch(s, class, msg, part, left)
    PROVE  LET kind == KindOf(s, class, part)
               p == Previous(s, kind)
           IN /\ p \in {0} \cup {i \in Frags : frags[i].on = s}
              /\ \A q \in Streams : q # s => lastVIM'[q] = lastVIM[q] /\ lastUrgent'[q] = lastUrgent[q]
              /\ lastVIM'[s] \in {lastVIM[s], Len(frags) + 1}
              /\ lastUrgent'[s] \in {lastUrgent[s], Len(frags) + 1}
<1> DEFINE kind == KindOf(s, class, part)
<1>1. /\ lastVIM \in [Streams -> 0 .. N] /\ lastUrgent \in [Streams -> 0 .. N]
      /\ lastVIM' = IF kind = "vim" THEN [lastVIM EXCEPT ![s] = Len(frags) + 1] ELSE lastVIM
      /\ lastUrgent' = IF kind = "urgent" THEN [lastUrgent EXCEPT ![s] = Len(frags) + 1] ELSE lastUrgent
  BY DEF Dispatch, TInv, TypeOK
<1>2. /\ lastVIM[s] \in {0} \cup {i \in Frags : frags[i].on = s}
      /\ lastUrgent[s] \in {0} \cup {i \in Frags : frags[i].on = s}
  BY LastsIn DEF Chains
<1>3. Previous(s, kind) \in {0, lastVIM[s], lastUrgent[s]}
  BY DEF Previous
<1> QED BY <1>1, <1>2, <1>3

LEMMA ChainsStep ==
    ASSUME TInv, Chains, [Next]_vars
    PROVE  Chains'
<1>1. ASSUME NEW s \in Streams, NEW class \in Classes, NEW msg \in 1 .. Len(frags) + 1,
             NEW part \in BOOLEAN, NEW left \in 0 .. N, Dispatch(s, class, msg, part, left)
      PROVE  Chains'
  <2> DEFINE id == Len(frags) + 1
             p  == Previous(s, KindOf(s, class, part))
  <2>1. /\ Frags' = Frags \cup {id} /\ id \notin Frags
        /\ \A i \in Frags : frags'[i] = frags[i]
        /\ frags'[id] = NewFragment(s, class, msg, part, left)
    BY <1>1, DispatchFacts
  <2>2. frags'[id].on = s /\ frags'[id].pred = p
    BY <2>1 DEF NewFragment
  <2>3. /\ p \in {0} \cup {i \in Frags : frags[i].on = s}
        /\ \A q \in Streams : q # s => lastVIM'[q] = lastVIM[q] /\ lastUrgent'[q] = lastUrgent[q]
        /\ lastVIM'[s] \in {lastVIM[s], id} /\ lastUrgent'[s] \in {lastUrgent[s], id}
    BY <1>1, DispatchOrder
  <2> HIDE DEF id, p
  <2>4. ASSUME NEW i \in Frags', frags'[i].pred # None
        PROVE  frags'[frags'[i].pred].on = frags'[i].on
    <3>1. CASE i = id
      BY <2>1, <2>2, <2>3, <2>4, <3>1
    <3>2. CASE i \in Frags
      BY <2>1, <2>4, <3>2, PredsIn DEF Chains
    <3> QED BY <2>1, <3>1, <3>2
  <2>5. ASSUME NEW q \in Streams
        PROVE  /\ lastVIM'[q] # None => frags'[lastVIM'[q]].on = q
               /\ lastUrgent'[q] # None => frags'[lastUrgent'[q]].on = q
    <3>1. /\ lastVIM[q] # None => frags'[lastVIM[q]].on = q
          /\ lastUrgent[q] # None => frags'[lastUrgent[q]].on = q
      BY <2>1, LastsIn DEF Chains
    <3>2. CASE q # s
      BY <2>3, <3>1, <3>2
    <3>3. CASE q = s
      BY <2>2, <2>3, <3>1, <3>3
    <3> QED BY <3>2, <3>3
  <2> QED BY <2>4, <2>5 DEF Chains
<1>2. ASSUME NEW i \in Frags, Leave(i) \/ Lose(i) \/ Arrive(i) PROVE Chains'
  BY <1>2 DEF Leave, Lose, Arrive, senderVars, Chains, Frags
<1>3. ASSUME NEW e \in Ends, ProcessUserMessages(e) PROVE Chains'
  BY <1>3 DEF ProcessUserMessages, senderVars, Chains, Frags
<1>4. CASE CancelAllMessages
  BY <1>4 DEF CancelAllMessages, ForgetOrder, Chains, Frags
<1>5. CASE UNCHANGED vars
  BY <1>5 DEF vars, senderVars, Chains, Frags
<1> QED BY <1>1, <1>2, <1>3, <1>4, <1>5, SentStep

LEMMA ChainsInit ==
    ASSUME Init
    PROVE  Chains
<1>1. /\ frags = <<>> /\ Frags = {} /\ lastVIM = [s \in Streams |-> 0]
      /\ lastUrgent = [s \in Streams |-> 0]
  BY DEF Init, Frags
<1> QED BY <1>1 DEF Chains

-----------------------------------------------------------------------------
(* Messages are cut into fragments that follow each other.                 *)

Closes(i) == ~frags[i].part \/ frags[i].closing

(* A fragment says the same as the first of its message.                   *)
Heads ==
    \A i \in Frags : LET m == frags[i].msg
                     IN /\ frags[m].msg = m /\ frags[m].on = frags[i].on
                        /\ frags[m].part = frags[i].part /\ frags[m].kind = frags[i].kind
                        /\ frags[m].urgent = frags[i].urgent
(* It follows the one before it, and is ordered behind it.                 *)
Tails ==
    \A i \in Frags : /\ frags[i].closing => frags[i].part /\ i # frags[i].msg
                     /\ i # frags[i].msg =>
                           /\ frags[i].part /\ frags[i - 1].msg = frags[i].msg
                           /\ ~frags[i - 1].closing
                           /\ frags[i].kind # "common" => frags[i].pred = i - 1
Follows ==
    \A i \in Frags : i + 1 \in Frags /\ ~Closes(i) => frags[i + 1].msg = frags[i].msg
(* The first one is ordered behind the end of another message.             *)
Starts ==
    \A i \in Frags : i = frags[i].msg /\ frags[i].pred # None => Closes(frags[i].pred)
Spans ==
    \A i \in Frags : \A x \in frags[i].msg .. i : frags[x].msg = frags[i].msg
Stops ==
    \A i, x \in Frags : Closes(i) /\ frags[x].msg = frags[i].msg => x <= i
Classed ==
    \A i \in Frags : /\ frags[i].on \notin ServerSends /\ frags[i].part => frags[i].kind # "common"
                     /\ frags[i].kind # "common" => frags[i].urgent = (frags[i].kind = "urgent")
                     /\ frags[i].pred # None => /\ frags[frags[i].pred].kind = frags[i].kind
                                                /\ frags[i].kind # "common"

Messages == Heads /\ Tails /\ Follows /\ Starts /\ Spans /\ Stops /\ Classed

(* The message SendMsg is cutting is the last one.                         *)
Cutting ==
    \A s \in Streams : sending[s] # Idle =>
        LET l == Len(frags)
            c == sending[s].class
        IN /\ frags[l].on = s /\ frags[l].part /\ ~frags[l].closing
           /\ frags[l].msg = sending[s].msg
           /\ frags[l].kind = KindOf(s, c, TRUE) /\ frags[l].urgent = Urgent(s, c)
           /\ frags[l].kind = "vim" => lastVIM[s] = l
           /\ frags[l].kind = "urgent" => lastUrgent[s] = l
LastIsCut ==
    Len(frags) # 0 /\ ~Closes(Len(frags)) => sending[frags[Len(frags)].on] # Idle
Lasts ==
    \A s \in Streams :
        /\ lastVIM[s] # None =>
              /\ frags[lastVIM[s]].kind = "vim"
              /\ Closes(lastVIM[s]) \/ (sending[s] # Idle /\ lastVIM[s] = Len(frags))
        /\ lastUrgent[s] # None =>
              /\ frags[lastUrgent[s]].kind = "urgent"
              /\ Closes(lastUrgent[s]) \/ (sending[s] # Idle /\ lastUrgent[s] = Len(frags))
(* A cancellation finds no message of the server half sent.                *)
BeforeWhole ==
    \A j \in 1 .. before : frags[j].on \in ServerSends /\ ~Closes(j) => j < before

Loop == Cutting /\ LastIsCut /\ Lasts /\ BeforeWhole

(* Of a kind, each is behind all since the last cancellation.              *)
Base(s)   == IF s \in ServerSends THEN before ELSE 0
Behind(i, j) == /\ i < j /\ frags[i].on = frags[j].on /\ frags[i].kind = frags[j].kind
                /\ frags[i].kind # "common" /\ Base(frags[i].on) < i
Ordered ==
    /\ \A i, j \in Frags : Behind(i, j) => i <= frags[j].pred
    /\ \A i \in Frags : Base(frags[i].on) < i =>
          /\ frags[i].kind = "vim" => i <= lastVIM[frags[i].on]
          /\ frags[i].kind = "urgent" => i <= lastUrgent[frags[i].on]

SInv == TInv /\ Chains /\ Messages /\ Loop /\ Ordered

(* The new fragment and what it is compared with.                          *)
NewOnes(s, class, msg, part, left) ==
    LET l  == Len(frags)
        id == l + 1
        k  == KindOf(s, class, part)
    IN /\ l \in Nat /\ Frags' = Frags \cup {id} /\ id \notin Frags /\ Len(frags') = id
       /\ \A i \in Frags : i \in 1 .. l /\ frags'[i] = frags[i]
       /\ frags'[id].on = s /\ frags'[id].msg = msg /\ frags'[id].part = part
       /\ frags'[id].closing = (part /\ left = 0) /\ frags'[id].kind = k
       /\ frags'[id].urgent = Urgent(s, class)
       /\ frags'[id].pred = (CASE k = "vim" -> lastVIM[s] [] k = "urgent" -> lastUrgent[s]
                               [] OTHER -> None)
       /\ k \in Kinds
       /\ \A q \in Streams : /\ lastVIM'[q] = (IF q = s /\ k = "vim" THEN id ELSE lastVIM[q])
                             /\ lastUrgent'[q] = (IF q = s /\ k = "urgent" THEN id ELSE lastUrgent[q])
                             /\ q # s => sending'[q] = sending[q]
       /\ left = 0 => sending'[s] = Idle
       /\ left # 0 => /\ sending'[s] # Idle
                      /\ sending'[s].msg = msg /\ sending'[s].class = class
       /\ before' = before /\ torn' = torn

LEMMA NewOnesFacts ==
    ASSUME TInv, NEW s \in Streams, NEW class \in Classes, NEW msg \in 1 .. Len(frags) + 1,
           NEW part \in BOOLEAN, NEW left \in 0 .. N, Dispatch(s, class, msg, part, left)
    PROVE  NewOnes(s, class, msg, part, left)
<1>1. /\ Frags' = Frags \cup {Len(frags) + 1} /\ Len(frags) + 1 \notin Frags
      /\ \A i \in Frags : frags'[i] = frags[i]
      /\ frags'[Len(frags) + 1] = NewFragment(s, class, msg, part, left)
      /\ Len(frags') = Len(frags) + 1 /\ Len(frags) \in Nat
      /\ UNCHANGED cancelVars
  BY DispatchFacts, TypesIn
<1>2. /\ lastVIM \in [Streams -> 0 .. N] /\ lastUrgent \in [Streams -> 0 .. N]
      /\ sending \in [Streams -> Cuts]
      /\ lastVIM' = IF KindOf(s, class, part) = "vim" THEN [lastVIM EXCEPT ![s] = Len(frags) + 1]
                    ELSE lastVIM
      /\ lastUrgent' = IF KindOf(s, class, part) = "urgent"
                       THEN [lastUrgent EXCEPT ![s] = Len(frags) + 1] ELSE lastUrgent
      /\ sending' = [sending EXCEPT ![s] = IF left = 0 THEN Idle
                                           ELSE [left |-> left, msg |-> msg, class |-> class]]
  BY DEF Dispatch, TInv, TypeOK, Cuts
<1>3. KindOf(s, class, part) \in Kinds
  BY DEF KindOf, Kinds
<1>4. left # 0 => [left |-> left, msg |-> msg, class |-> class] # Idle
  BY DEF Idle
<1>5. \A q \in Streams :
         /\ lastVIM'[q] = (IF q = s /\ KindOf(s, class, part) = "vim" THEN Len(frags) + 1 ELSE lastVIM[q])
         /\ lastUrgent'[q] = (IF q = s /\ KindOf(s, class, part) = "urgent" THEN Len(frags) + 1
                              ELSE lastUrgent[q])
         /\ q # s => sending'[q] = sending[q]
  BY <1>2
<1>6. /\ left = 0 => sending'[s] = Idle
      /\ left # 0 => sending'[s] = [left |-> left, msg |-> msg, class |-> class]
  BY <1>2
<1>7. /\ \A i \in Frags : i \in 1 .. Len(frags)
      /\ before' = before /\ torn' = torn
  BY <1>1 DEF Frags, cancelVars
<1> QED BY <1>1, <1>3, <1>4, <1>5, <1>6, <1>7 DEF NewOnes, NewFragment, Previous

LEMMA DispatchCases ==
    ASSUME TInv, Chains, Messages, Loop, NEW s \in Streams, NEW class \in Classes,
           NEW msg \in 1 .. Len(frags) + 1, NEW part \in BOOLEAN, NEW left \in 0 .. N,
           Dispatch(s, class, msg, part, left),
           FirstOne(s, class, msg, part, left) \/ NextOne(s, class, msg, part, left)
    PROVE  LET l  == Len(frags)
               id == l + 1
               f  == frags'[id]
           IN \/ /\ FirstOne(s, class, msg, part, left) /\ msg = id
                 /\ l # 0 => Closes(l)
                 /\ ~f.closing
                 /\ f.pred # None => /\ f.pred \in Frags /\ Closes(f.pred)
                                     /\ frags[f.pred].kind = f.kind
              \/ /\ NextOne(s, class, msg, part, left) /\ l \in Frags /\ msg \in Frags
                 /\ frags[l].on = s /\ ~Closes(l) /\ frags[l].msg = msg /\ f.part
                 /\ frags[l].part /\ ~frags[l].closing
                 /\ frags[l].kind = f.kind /\ frags[l].urgent = f.urgent
                 /\ f.kind # "common" => f.pred = l
<1> DEFINE l  == Len(frags)
           id == l + 1
           f  == frags'[id]
           k  == KindOf(s, class, part)
<1>1. NewOnes(s, class, msg, part, left)
  BY NewOnesFacts
<1>2. /\ l \in Nat /\ f.part = part /\ f.closing = (part /\ left = 0) /\ f.kind = k
      /\ f.urgent = Urgent(s, class)
      /\ f.pred = (CASE k = "vim" -> lastVIM[s] [] k = "urgent" -> lastUrgent[s]
                     [] OTHER -> None)
      /\ k \in Kinds
  BY <1>1 DEF NewOnes
<1>3. ASSUME FirstOne(s, class, msg, part, left)
      PROVE  /\ msg = id
             /\ l # 0 => Closes(l)
             /\ ~f.closing
             /\ f.pred # None => /\ f.pred \in Frags /\ Closes(f.pred)
                                 /\ frags[f.pred].kind = f.kind
  <2>1. l # 0 => Closes(l)
    <3>1. l # 0 => frags[l].on \in Streams
      BY <1>2, TypesIn DEF Frags
    <3> QED BY <1>3, <3>1 DEF FirstOne, Loop, LastIsCut
  <2>2. ~f.closing
    BY <1>2, <1>3 DEF FirstOne
  <2>3. f.pred # None => /\ f.pred \in Frags /\ Closes(f.pred)
                         /\ frags[f.pred].kind = f.kind
    <3>1. sending[s] = Idle
      BY <1>3 DEF FirstOne
    <3>2. /\ lastVIM[s] # None => /\ lastVIM[s] \in Frags /\ frags[lastVIM[s]].kind = "vim"
                                  /\ Closes(lastVIM[s])
          /\ lastUrgent[s] # None => /\ lastUrgent[s] \in Frags /\ frags[lastUrgent[s]].kind = "urgent"
                                     /\ Closes(lastUrgent[s])
      BY <3>1, LastsIn DEF Loop, Lasts
    <3> HIDE DEF f, k
    <3> QED BY <1>2, <3>2
  <2> QED BY <1>3, <2>1, <2>2, <2>3 DEF FirstOne
<1>4. ASSUME NextOne(s, class, msg, part, left)
      PROVE  /\ l \in Frags /\ msg \in Frags
             /\ frags[l].on = s /\ ~Closes(l) /\ frags[l].msg = msg /\ f.part
             /\ frags[l].part /\ ~frags[l].closing
             /\ frags[l].kind = f.kind /\ frags[l].urgent = f.urgent
             /\ f.kind # "common" => f.pred = l
  <2>1. sending[s] # Idle /\ class = sending[s].class /\ msg = sending[s].msg /\ part
    BY <1>4 DEF NextOne
  <2>2. /\ frags[l].on = s /\ frags[l].part /\ ~frags[l].closing /\ frags[l].msg = msg
        /\ frags[l].kind = k /\ frags[l].urgent = Urgent(s, class)
        /\ frags[l].kind = "vim" => lastVIM[s] = l
        /\ frags[l].kind = "urgent" => lastUrgent[s] = l
    BY <2>1 DEF Loop, Cutting
  <2>3. msg \in Frags /\ l \in Frags
    BY <1>2, <2>1 DEF TInv, Sizes, Frags
  <2>4. f.kind # "common" => f.pred = l
    <3> HIDE DEF f, k
    <3> QED BY <1>2, <2>2 DEF Kinds
  <2> QED BY <1>2, <2>1, <2>2, <2>3, <2>4 DEF Closes
<1> QED BY <1>3, <1>4

LEMMA MessagesDispatch ==
    ASSUME TInv, Chains, Messages, Loop, NEW s \in Streams, NEW class \in Classes,
           NEW msg \in 1 .. Len(frags) + 1, NEW part \in BOOLEAN, NEW left \in 0 .. N,
           Dispatch(s, class, msg, part, left),
           FirstOne(s, class, msg, part, left) \/ NextOne(s, class, msg, part, left)
    PROVE  Messages'
<1> DEFINE l  == Len(frags)
           id == l + 1
           f  == frags'[id]
<1>1. NewOnes(s, class, msg, part, left)
  BY NewOnesFacts
<1>2. /\ l \in Nat /\ Frags' = Frags \cup {id} /\ id \notin Frags /\ Frags = 1 .. l
      /\ \A i \in Frags : frags'[i] = frags[i]
      /\ f.on = s /\ f.part = part /\ f.msg = msg
  BY <1>1 DEF NewOnes, Frags
<1>3. \A i \in Frags : /\ frags[i].msg \in Frags /\ frags[i].msg <= i
                       /\ frags[i].pred # None => frags[i].pred \in Frags
  BY PredsIn
<1>4. \A i \in Frags : Closes(i)' = Closes(i)
  BY <1>2 DEF Closes
<1>h. \A i \in Frags : (LET m == frags'[i].msg
                        IN /\ frags'[m].msg = m /\ frags'[m].on = frags'[i].on
                           /\ frags'[m].part = frags'[i].part /\ frags'[m].kind = frags'[i].kind
                           /\ frags'[m].urgent = frags'[i].urgent)
  BY <1>2, <1>3 DEF Messages, Heads
<1>t. ASSUME NEW i \in Frags
      PROVE  /\ frags'[i].closing => frags'[i].part /\ i # frags'[i].msg
             /\ i # frags'[i].msg =>
                   /\ frags'[i].part /\ frags'[i - 1].msg = frags'[i].msg
                   /\ ~frags'[i - 1].closing
                   /\ frags'[i].kind # "common" => frags'[i].pred = i - 1
  <2>1. i # frags[i].msg => i - 1 \in Frags /\ frags'[i - 1] = frags[i - 1]
    BY <1>2, <1>3
  <2>2. frags'[i] = frags[i]
    BY <1>2
  <2> QED BY <2>1, <2>2 DEF Messages, Tails
<1>s. ASSUME NEW i \in Frags, i = frags'[i].msg, frags'[i].pred # None
      PROVE  ~frags'[frags'[i].pred].part \/ frags'[frags'[i].pred].closing
  <2>1. /\ frags'[i] = frags[i] /\ frags[i].pred \in Frags
        /\ frags'[frags[i].pred] = frags[frags[i].pred]
    BY <1>2, <1>3, <1>s
  <2> QED BY <1>s, <2>1 DEF Messages, Starts, Closes
<1>p. ASSUME NEW i \in Frags, NEW x \in frags'[i].msg .. i
      PROVE  frags'[x].msg = frags'[i].msg
  <2>1. x \in frags[i].msg .. i /\ x \in Frags
    BY <1>2, <1>3
  <2> QED BY <1>2, <2>1 DEF Messages, Spans
<1>e. ASSUME NEW i \in Frags, NEW x \in Frags, Closes(i), frags'[x].msg = frags'[i].msg
      PROVE  x <= i
  BY <1>2, <1>e DEF Messages, Stops
<1>c. ASSUME NEW i \in Frags
      PROVE  /\ frags'[i].on \notin ServerSends /\ frags'[i].part => frags'[i].kind # "common"
             /\ frags'[i].kind # "common" => frags'[i].urgent = (frags'[i].kind = "urgent")
             /\ frags'[i].pred # None => /\ frags'[frags'[i].pred].kind = frags'[i].kind
                                         /\ frags'[i].kind # "common"
  BY <1>2, <1>3 DEF Messages, Classed
<1>f. /\ f.kind # "common" => f.urgent = (f.kind = "urgent")
      /\ f.pred # None => f.kind # "common"
  BY <1>1 DEF NewOnes, KindOf, Urgent
<1>5. CASE /\ FirstOne(s, class, msg, part, left) /\ msg = id
           /\ l # 0 => Closes(l)
           /\ ~f.closing
           /\ f.pred # None => /\ f.pred \in Frags /\ Closes(f.pred)
                               /\ frags[f.pred].kind = f.kind
  <2>0. f.msg = id /\ ~f.closing
    BY <1>2, <1>5
  <2>1. Heads'
    BY <1>2, <1>h, <2>0 DEF Heads
  <2>2. Tails'
    BY <1>2, <1>t, <2>0 DEF Tails
  <2>3. Follows'
    <3>1. ASSUME NEW i \in Frags, i + 1 \in Frags', ~Closes(i)
          PROVE  frags'[i + 1].msg = frags'[i].msg
      <4>1. i # l
        BY <1>2, <1>5, <3>1
      <4>2. i + 1 \in Frags
        BY <1>2, <4>1
      <4> QED BY <1>2, <3>1, <4>2 DEF Messages, Follows
    <3>2. id + 1 \notin Frags'
      BY <1>2
    <3> QED BY <1>2, <1>4, <3>1, <3>2 DEF Follows
  <2>4. Starts'
    <3>1. f.pred # None => ~frags'[f.pred].part \/ frags'[f.pred].closing
      <4>1. f.pred # None => f.pred \in Frags /\ frags'[f.pred] = frags[f.pred]
        BY <1>2, <1>5
      <4> QED BY <1>5, <4>1 DEF Closes
    <3> QED BY <1>2, <1>s, <3>1 DEF Starts, Closes
  <2>5. Spans'
    <3>1. \A x \in f.msg .. id : x = id
      BY <1>2, <2>0
    <3> QED BY <1>2, <1>p, <3>1 DEF Spans
  <2>6. Stops'
    <3>1. \A i \in Frags : frags'[id].msg # frags'[i].msg
      BY <1>2, <1>3, <2>0
    <3>2. \A x \in Frags' : x <= id
      BY <1>2
    <3> QED BY <1>2, <1>4, <1>e, <3>1, <3>2 DEF Stops
  <2>7. Classed'
    <3>1. s \notin ServerSends /\ part => f.kind # "common"
      BY <1>1, <1>5 DEF NewOnes, FirstOne, KindOf
    <3>2. f.pred # None => frags'[f.pred].kind = f.kind
      BY <1>2, <1>5
    <3> QED BY <1>2, <1>c, <1>f, <3>1, <3>2 DEF Classed
  <2> QED BY <2>1, <2>2, <2>3, <2>4, <2>5, <2>6, <2>7 DEF Messages
<1>6. CASE /\ NextOne(s, class, msg, part, left) /\ l \in Frags /\ msg \in Frags
           /\ frags[l].on = s /\ ~Closes(l) /\ frags[l].msg = msg /\ f.part
           /\ frags[l].part /\ ~frags[l].closing
           /\ frags[l].kind = f.kind /\ frags[l].urgent = f.urgent
           /\ f.kind # "common" => f.pred = l
  <2>0. /\ f.msg = msg /\ msg # id /\ frags'[l] = frags[l] /\ frags'[msg] = frags[msg]
        /\ msg <= l
    BY <1>2, <1>6
  <2>1. Heads'
    <3>1. /\ frags[msg].msg = msg /\ frags[msg].on = frags[l].on /\ frags[msg].part = frags[l].part
          /\ frags[msg].kind = frags[l].kind /\ frags[msg].urgent = frags[l].urgent
      BY <1>6 DEF Messages, Heads
    <3>2. /\ frags'[f.msg].msg = f.msg /\ frags'[f.msg].on = f.on /\ frags'[f.msg].part = f.part
          /\ frags'[f.msg].kind = f.kind /\ frags'[f.msg].urgent = f.urgent
      <4>1. frags'[f.msg] = frags[msg]
        BY <2>0
      <4> HIDE DEF f
      <4> QED BY <1>2, <1>6, <2>0, <3>1, <4>1
    <3> QED BY <1>2, <1>h, <3>2 DEF Heads
  <2>2. Tails'
    <3>1. id - 1 = l
      BY <1>2
    <3>2. frags'[id - 1] = frags[l]
      BY <2>0, <3>1
    <3>3. /\ f.part /\ frags'[id - 1].msg = f.msg /\ ~frags'[id - 1].closing
          /\ f.kind # "common" => f.pred = id - 1
      BY <1>6, <2>0, <3>1, <3>2
    <3> QED BY <1>2, <1>t, <2>0, <3>3 DEF Tails
  <2>3. Follows'
    <3>1. ASSUME NEW i \in Frags, i + 1 \in Frags', ~Closes(i)
          PROVE  frags'[i + 1].msg = frags'[i].msg
      <4>1. CASE i = l
        BY <1>2, <1>6, <2>0, <4>1
      <4>2. CASE i # l
        <5>1. i + 1 \in Frags
          BY <1>2, <4>2
        <5> QED BY <1>2, <3>1, <5>1 DEF Messages, Follows
      <4> QED BY <4>1, <4>2
    <3>2. id + 1 \notin Frags'
      BY <1>2
    <3> QED BY <1>2, <1>4, <3>1, <3>2 DEF Follows
  <2>4. Starts'
    BY <1>2, <1>s, <2>0 DEF Starts, Closes
  <2>5. Spans'
    <3>1. ASSUME NEW x \in f.msg .. id
          PROVE  frags'[x].msg = f.msg
      <4>1. CASE x = id
        BY <4>1
      <4>2. CASE x # id
        <5>1. x \in frags[l].msg .. l /\ x \in Frags
          BY <1>2, <1>3, <1>6, <2>0, <4>2
        <5> QED BY <1>2, <1>6, <2>0, <5>1 DEF Messages, Spans
      <4> QED BY <4>1, <4>2
    <3> QED BY <1>2, <1>p, <3>1 DEF Spans
  <2>6. Stops'
    <3>1. ASSUME NEW i \in Frags, Closes(i), frags'[id].msg = frags'[i].msg
          PROVE  FALSE
      <4>1. frags[l].msg = frags[i].msg
        BY <1>2, <1>6, <2>0, <3>1
      <4>2. l <= i
        BY <1>6, <3>1, <4>1 DEF Messages, Stops
      <4>3. i = l
        BY <1>2, <4>2
      <4> QED BY <1>6, <3>1, <4>3
    <3>2. \A x \in Frags' : x <= id
      BY <1>2
    <3> QED BY <1>2, <1>4, <1>e, <3>1, <3>2 DEF Stops
  <2>7. Classed'
    <3>1. s \notin ServerSends /\ part => f.kind # "common"
      BY <1>6 DEF Messages, Classed
    <3>2. f.pred # None => frags'[f.pred].kind = f.kind
      BY <1>6, <1>f, <2>0
    <3> QED BY <1>2, <1>c, <1>f, <3>1, <3>2 DEF Classed
  <2> QED BY <2>1, <2>2, <2>3, <2>4, <2>5, <2>6, <2>7 DEF Messages
<1> HIDE DEF l, id, f
<1> QED BY <1>5, <1>6, DispatchCases DEF l, id, f

LEMMA LoopDispatch ==
    ASSUME TInv, Chains, Messages, Loop, NEW s \in Streams, NEW class \in Classes,
           NEW msg \in 1 .. Len(frags) + 1, NEW part \in BOOLEAN, NEW left \in 0 .. N,
           Dispatch(s, class, msg, part, left),
           FirstOne(s, class, msg, part, left) \/ NextOne(s, class, msg, part, left)
    PROVE  Loop'
<1> DEFINE l  == Len(frags)
           id == l + 1
           f  == frags'[id]
           k  == KindOf(s, class, part)
<1>1. /\ l \in Nat /\ Frags' = Frags \cup {id} /\ id \notin Frags /\ Len(frags') = id
      /\ \A i \in Frags : i \in 1 .. l /\ frags'[i] = frags[i]
      /\ f.on = s /\ f.msg = msg /\ f.part = part
      /\ f.closing = (part /\ left = 0) /\ f.kind = k
      /\ f.urgent = Urgent(s, class)
      /\ k \in Kinds
      /\ \A q \in Streams : /\ lastVIM'[q] = (IF q = s /\ k = "vim" THEN id ELSE lastVIM[q])
                            /\ lastUrgent'[q] = (IF q = s /\ k = "urgent" THEN id ELSE lastUrgent[q])
                            /\ q # s => sending'[q] = sending[q]
      /\ left = 0 => sending'[s] = Idle
      /\ left # 0 => /\ sending'[s] # Idle
                     /\ sending'[s].msg = msg /\ sending'[s].class = class
      /\ before' = before
  BY NewOnesFacts DEF NewOnes
<1>2. \/ FirstOne(s, class, msg, part, left)
      \/ /\ NextOne(s, class, msg, part, left)
         /\ l \in Frags /\ frags[l].on = s /\ ~Closes(l) /\ frags[l].kind = k
  <2>1. \/ FirstOne(s, class, msg, part, left)
        \/ /\ NextOne(s, class, msg, part, left)
           /\ l \in Frags /\ frags[l].on = s /\ ~Closes(l) /\ frags[l].kind = f.kind
    BY DispatchCases
  <2> HIDE DEF f, k
  <2> QED BY <1>1, <2>1
<1>3. left # 0 => part
  BY <1>2 DEF FirstOne, NextOne
<1>4. \A q \in Streams : q # s => sending'[q] = Idle
  <2>1. CASE FirstOne(s, class, msg, part, left)
    BY <1>1, <2>1 DEF FirstOne
  <2>2. CASE l \in Frags /\ frags[l].on = s
    <3>1. \A q \in Streams : sending[q] # Idle => frags[l].on = q
      BY DEF Loop, Cutting
    <3>2. \A q \in Streams : q # s => sending'[q] = sending[q]
      BY <1>1
    <3> QED BY <2>2, <3>1, <3>2
  <2> QED BY <1>2, <2>1, <2>2
<1>5. Cutting'
  <2>1. ASSUME left # 0
        PROVE  /\ f.on = s /\ f.part /\ ~f.closing /\ f.msg = sending'[s].msg
               /\ f.kind = KindOf(s, sending[s].class, TRUE)'
               /\ f.urgent = Urgent(s, sending'[s].class)
               /\ f.kind = "vim" => lastVIM'[s] = id
               /\ f.kind = "urgent" => lastUrgent'[s] = id
    <3>1. part /\ ~f.closing
      BY <1>1, <1>3, <2>1
    <3>2. f.kind = KindOf(s, class, TRUE)
      BY <1>1, <3>1
    <3>4. sending'[s].class = class /\ sending'[s].msg = msg
      BY <1>1, <2>1
    <3>3. KindOf(s, class, TRUE) = KindOf(s, sending[s].class, TRUE)'
      <4>1. CASE k = "vim"
        BY <1>1, <3>1, <3>4, <4>1 DEF KindOf
      <4>2. CASE k = "urgent"
        BY <1>1, <3>1, <3>4, <4>2 DEF KindOf
      <4>3. CASE k = "common"
        BY <1>1, <3>1, <3>4, <4>3 DEF KindOf
      <4> QED BY <1>1, <4>1, <4>2, <4>3 DEF Kinds
    <3>5. f.kind = "vim" => lastVIM'[s] = id
      BY <1>1
    <3>6. f.kind = "urgent" => lastUrgent'[s] = id
      BY <1>1
    <3> QED BY <1>1, <3>1, <3>2, <3>3, <3>4, <3>5, <3>6
  <2>2. \A q \in Streams : sending'[q] # Idle => q = s /\ left # 0
    BY <1>1, <1>4
  <2> QED BY <1>1, <2>1, <2>2 DEF Cutting
<1>6. LastIsCut'
  <2>1. ~f.part \/ f.closing \/ left # 0
    BY <1>1
  <2> QED BY <1>1, <2>1 DEF LastIsCut, Closes
<1>7. Lasts'
  <2>1. ASSUME NEW q \in Streams, lastVIM'[q] # None
        PROVE  /\ frags'[lastVIM'[q]].kind = "vim"
               /\ \/ ~frags'[lastVIM'[q]].part \/ frags'[lastVIM'[q]].closing
                  \/ sending'[q] # Idle /\ lastVIM'[q] = id
    <3>1. CASE q = s /\ k = "vim"
      BY <1>1, <3>1
    <3>2. CASE ~(q = s /\ k = "vim")
      <4>1. /\ lastVIM'[q] = lastVIM[q] /\ lastVIM[q] \in Frags
            /\ frags'[lastVIM[q]] = frags[lastVIM[q]]
        BY <1>1, <2>1, <3>2, LastsIn
      <4>2. /\ frags[lastVIM[q]].kind = "vim"
            /\ Closes(lastVIM[q]) \/ (sending[q] # Idle /\ lastVIM[q] = l)
        BY <2>1, <4>1 DEF Loop, Lasts
      <4>3. Closes(lastVIM[q])
        <5>1. CASE q # s
          BY <1>2, <2>1, <4>1, <4>2, <5>1 DEF FirstOne, Chains
        <5>2. CASE q = s
          BY <1>2, <3>2, <4>2, <5>2 DEF FirstOne
        <5> QED BY <5>1, <5>2
      <4> QED BY <4>1, <4>2, <4>3 DEF Closes
    <3> QED BY <3>1, <3>2
  <2>2. ASSUME NEW q \in Streams, lastUrgent'[q] # None
        PROVE  /\ frags'[lastUrgent'[q]].kind = "urgent"
               /\ \/ ~frags'[lastUrgent'[q]].part \/ frags'[lastUrgent'[q]].closing
                  \/ sending'[q] # Idle /\ lastUrgent'[q] = id
    <3>1. CASE q = s /\ k = "urgent"
      BY <1>1, <3>1
    <3>2. CASE ~(q = s /\ k = "urgent")
      <4>1. /\ lastUrgent'[q] = lastUrgent[q] /\ lastUrgent[q] \in Frags
            /\ frags'[lastUrgent[q]] = frags[lastUrgent[q]]
        BY <1>1, <2>2, <3>2, LastsIn
      <4>2. /\ frags[lastUrgent[q]].kind = "urgent"
            /\ Closes(lastUrgent[q]) \/ (sending[q] # Idle /\ lastUrgent[q] = l)
        BY <2>2, <4>1 DEF Loop, Lasts
      <4>3. Closes(lastUrgent[q])
        <5>1. CASE q # s
          BY <1>2, <2>2, <4>1, <4>2, <5>1 DEF FirstOne, Chains
        <5>2. CASE q = s
          BY <1>2, <3>2, <4>2, <5>2 DEF FirstOne
        <5> QED BY <5>1, <5>2
      <4> QED BY <4>1, <4>2, <4>3 DEF Closes
    <3> QED BY <3>1, <3>2
  <2> QED BY <1>1, <2>1, <2>2 DEF Lasts, Closes
<1>8. BeforeWhole'
  <2>1. \A j \in 1 .. before : j \in Frags
    BY <1>1 DEF TInv, Sizes, TypeOK, Frags
  <2> QED BY <1>1, <2>1 DEF Loop, BeforeWhole, Closes
<1> QED BY <1>5, <1>6, <1>7, <1>8 DEF Loop

LEMMA OrderedDispatch ==
    ASSUME TInv, Chains, Loop, Ordered, NEW s \in Streams, NEW class \in Classes,
           NEW msg \in 1 .. Len(frags) + 1, NEW part \in BOOLEAN, NEW left \in 0 .. N,
           Dispatch(s, class, msg, part, left)
    PROVE  Ordered'
<1> DEFINE l  == Len(frags)
           id == l + 1
           f  == frags'[id]
           k  == KindOf(s, class, part)
<1>1. /\ l \in Nat /\ Frags' = Frags \cup {id} /\ id \notin Frags
      /\ \A i \in Frags : i \in 1 .. l /\ frags'[i] = frags[i]
      /\ f.on = s /\ f.kind = k
      /\ f.pred = (CASE k = "vim" -> lastVIM[s] [] k = "urgent" -> lastUrgent[s]
                     [] OTHER -> None)
      /\ k \in Kinds
      /\ \A q \in Streams : /\ lastVIM'[q] = (IF q = s /\ k = "vim" THEN id ELSE lastVIM[q])
                            /\ lastUrgent'[q] = (IF q = s /\ k = "urgent" THEN id ELSE lastUrgent[q])
      /\ before' = before
  BY NewOnesFacts DEF NewOnes
<1>2. \A i \in Frags : frags[i].on \in Streams
  BY TypesIn
<1> HIDE DEF f, k
<1>3. ASSUME NEW i \in Frags', NEW j \in Frags', Behind(i, j)'
      PROVE  i <= frags'[j].pred
  <2>1. /\ i < j /\ frags'[i].on = frags'[j].on /\ frags'[i].kind = frags'[j].kind
        /\ frags'[i].kind # "common" /\ Base(frags'[i].on) < i
    BY <1>1, <1>3 DEF Behind, Base
  <2>2. i \in Frags /\ frags'[i] = frags[i]
    BY <1>1, <2>1
  <2>3. CASE j = id
    BY <1>1, <2>1, <2>2, <2>3 DEF Ordered, f, Kinds
  <2>4. CASE j \in Frags
    BY <1>1, <2>1, <2>2, <2>4 DEF Ordered, Behind
  <2> QED BY <1>1, <2>3, <2>4
<1>4. ASSUME NEW i \in Frags', Base(frags'[i].on) < i
      PROVE  /\ frags'[i].kind = "vim" => i <= lastVIM'[frags'[i].on]
             /\ frags'[i].kind = "urgent" => i <= lastUrgent'[frags'[i].on]
  <2>1. CASE i = id
    BY <1>1, <2>1 DEF f
  <2>2. CASE i \in Frags
    BY <1>1, <1>2, <1>4, <2>2 DEF Ordered
  <2> QED BY <1>1, <2>1, <2>2
<1>5. \A q : Base(q)' = Base(q)
  BY <1>1 DEF Base
<1> QED BY <1>3, <1>4, <1>5 DEF Ordered, Base

LEMMA SentCancel ==
    ASSUME TInv, Chains, Messages, Loop, Ordered, CancelAllMessages
    PROVE  Messages' /\ Loop' /\ Ordered'
<1>1. /\ frags' = frags /\ Frags' = Frags /\ sending' = sending /\ before' = Len(frags)
      /\ \A s \in ServerSends : sending[s] = Idle
      /\ ForgetOrder
  BY CancelFacts DEF Frags
<1>2. \A s \in Streams : /\ s \in ServerSends => lastVIM'[s] = None /\ lastUrgent'[s] = None
                         /\ s \notin ServerSends => /\ lastVIM'[s] = lastVIM[s]
                                                    /\ lastUrgent'[s] = lastUrgent[s]
  BY <1>1 DEF ForgetOrder
<1>3. /\ Len(frags) \in Nat /\ \A i \in Frags : frags[i].on \in Streams /\ i <= Len(frags)
      /\ Len(frags) # 0 => Len(frags) \in Frags
  BY TypesIn DEF Frags
<1>4. Messages'
  BY <1>1 DEF Messages, Heads, Tails, Follows, Starts, Spans, Stops, Classed, Closes
<1>5. Cutting'
  <2>1. ASSUME NEW s \in Streams, sending[s] # Idle PROVE s \notin ServerSends
    BY <1>1, <2>1
  <2>2. ASSUME NEW s \in Streams, sending[s] # Idle
        PROVE  /\ frags[Len(frags)].on = s /\ frags[Len(frags)].part
               /\ ~frags[Len(frags)].closing /\ frags[Len(frags)].msg = sending[s].msg
               /\ frags[Len(frags)].kind = KindOf(s, sending[s].class, TRUE)
               /\ frags[Len(frags)].urgent = Urgent(s, sending[s].class)
               /\ frags[Len(frags)].kind = "vim" => lastVIM'[s] = Len(frags)
               /\ frags[Len(frags)].kind = "urgent" => lastUrgent'[s] = Len(frags)
    BY <1>2, <2>1, <2>2 DEF Loop, Cutting
  <2>3. ASSUME NEW s \in Streams, sending[s] # Idle
        PROVE  KindOf(s, sending[s].class, TRUE)' = KindOf(s, sending[s].class, TRUE)
    BY <1>1, <2>1, <2>3 DEF KindOf
  <2> QED BY <1>1, <2>2, <2>3 DEF Cutting
<1>6. LastIsCut' /\ Lasts'
  BY <1>1, <1>2 DEF Loop, LastIsCut, Lasts, Closes
<1>7. BeforeWhole'
  BY <1>1, <1>3 DEF Loop, LastIsCut, BeforeWhole, Closes
<1>8. Ordered'
  <2>1. \A i \in Frags : Base(frags[i].on)' < i =>
           frags[i].on \notin ServerSends /\ Base(frags[i].on)' = Base(frags[i].on)
    <3>1. \A i \in Frags : ~(Len(frags) < i)
      BY <1>3 DEF Frags
    <3> QED BY <1>1, <3>1 DEF Base
  <2>2. \A i, j \in Frags : Behind(i, j)' => Behind(i, j)
    BY <1>1, <2>1 DEF Behind
  <2> QED BY <1>1, <1>2, <1>3, <2>1, <2>2 DEF Ordered
<1> QED BY <1>4, <1>5, <1>6, <1>7, <1>8 DEF Loop

LEMMA SentInit ==
    ASSUME Init
    PROVE  SInv
<1>1. /\ frags = <<>> /\ Len(frags) = 0 /\ Frags = {} /\ before = 0
      /\ \A s \in Streams : sending[s] = Idle /\ lastVIM[s] = None /\ lastUrgent[s] = None
  BY DEF Init, Frags
<1>2. Messages
  BY <1>1 DEF Messages, Heads, Tails, Follows, Starts, Spans, Stops, Classed
<1>3. Loop
  <2>1. Cutting
    BY <1>1 DEF Cutting
  <2>2. LastIsCut
    BY <1>1 DEF LastIsCut
  <2>3. Lasts
    BY <1>1 DEF Lasts
  <2>4. BeforeWhole
    BY <1>1 DEF BeforeWhole
  <2> QED BY <2>1, <2>2, <2>3, <2>4 DEF Loop
<1>4. Ordered
  BY <1>1 DEF Ordered
<1> QED BY <1>2, <1>3, <1>4, TypedInit, ChainsInit DEF SInv

LEMMA SentKept ==
    ASSUME SInv, UNCHANGED <<senderVars, before>>
    PROVE  Messages' /\ Loop' /\ Ordered'
  BY DEF SInv, Messages, Heads, Tails, Follows, Starts, Spans, Stops, Classed, Closes,
         Loop, Cutting, LastIsCut, Lasts, BeforeWhole, Ordered, Behind, Base, KindOf, Frags, senderVars

LEMMA SentNext ==
    ASSUME SInv, [Next]_vars
    PROVE  SInv'
<1>1. TInv' /\ Chains'
  BY TypedStep, ChainsStep DEF SInv
<1>2. ASSUME NEW s \in Streams, NEW class \in Classes, NEW msg \in 1 .. Len(frags) + 1,
             NEW part \in BOOLEAN, NEW left \in 0 .. N, Dispatch(s, class, msg, part, left),
             FirstOne(s, class, msg, part, left) \/ NextOne(s, class, msg, part, left)
      PROVE  Messages' /\ Loop' /\ Ordered'
  BY <1>2, MessagesDispatch, LoopDispatch, OrderedDispatch DEF SInv
<1>3. ASSUME NEW i \in Frags, Leave(i) \/ Lose(i) \/ Arrive(i)
      PROVE  Messages' /\ Loop' /\ Ordered'
  BY <1>3, SentKept DEF Leave, Lose, Arrive, cancelVars
<1>4. ASSUME NEW e \in Ends, ProcessUserMessages(e)
      PROVE  Messages' /\ Loop' /\ Ordered'
  BY <1>4, SentKept DEF ProcessUserMessages, cancelVars
<1>5. CASE CancelAllMessages
  BY <1>1, <1>5, SentCancel DEF SInv
<1>6. CASE UNCHANGED vars
  BY <1>1, <1>6, SentKept DEF SInv, vars, cancelVars
<1>7. ASSUME Next PROVE Messages' /\ Loop' /\ Ordered'
  BY <1>2, <1>3, <1>4, <1>5, <1>7, SentStep DEF SInv
<1> QED BY <1>1, <1>5, <1>6, <1>7 DEF SInv

-----------------------------------------------------------------------------
(* The way of the fragments through the channel.                           *)

Arrived(i) == where[i] = "arrived"

GivenOut == \A i \in Frags : serialOf[i] < serial[frags[i].on]
(* A queue is taken in its order.                                          *)
QueueOrder ==
    \A i, j \in Frags : i < j /\ SameQueue(i, j) /\ serialOf[j] # None =>
        where[i] # "queued" /\ (serialOf[i] # None => serialOf[i] < serialOf[j])
Arrivals ==
    \A i \in Frags : Arrived(i) => /\ frags[i].pred # None => Arrived(frags[i].pred)
                                   /\ frags[i].kind # "common" => Arrived(frags[i].msg)
Closed == \A i, j \in Frags : Behind(i, j) /\ Arrived(j) => Arrived(i)
(* What was sent before the last cancellation of a stream that was not torn by one
   has arrived in whole messages, and nothing more of it will.             *)
Settled ==
    \A i \in 1 .. before : frags[i].on \in ServerSends \ torn /\ frags[i].part =>
        /\ where[i] \in {"arrived", "lost", "dropped"}
        /\ i + 1 \in 1 .. before /\ frags[i + 1].msg = frags[i].msg
              => (Arrived(i) <=> Arrived(i + 1))

Flow == GivenOut /\ QueueOrder /\ Arrivals /\ Closed /\ Settled
FInv == SInv /\ Flow

LEMMA BeforeIn ==
    ASSUME TInv
    PROVE  \A i \in 1 .. before : i \in Frags
<1>1. before \in 0 .. N /\ before <= Len(frags) /\ Len(frags) \in Nat /\ N \in Nat
  BY TypesIn DEF TInv, TypeOK, Sizes
<1> QED BY <1>1 DEF Frags

LEMMA FlowDispatch ==
    ASSUME FInv, NEW s \in Streams, NEW class \in Classes,
           NEW msg \in 1 .. Len(frags) + 1, NEW part \in BOOLEAN, NEW left \in 0 .. N,
           Dispatch(s, class, msg, part, left)
    PROVE  Flow'
<1> DEFINE id == Len(frags) + 1
<1>0. TInv /\ Flow
  BY DEF FInv, SInv
<1>1. /\ Frags' = Frags \cup {id} /\ id \notin Frags /\ Len(frags) \in Nat
      /\ \A i \in Frags : /\ frags'[i] = frags[i] /\ where'[i] = where[i]
                          /\ serialOf'[i] = serialOf[i] /\ i < id
      /\ where'[id] = "queued" /\ serialOf'[id] = None
      /\ serial' = serial /\ before' = before /\ torn' = torn
      /\ frags'[id].on = s
  <2>1. /\ Frags' = Frags \cup {id} /\ id \notin Frags /\ Len(frags) \in Nat
        /\ \A i \in Frags : /\ frags'[i] = frags[i] /\ where'[i] = where[i]
                            /\ serialOf'[i] = serialOf[i]
        /\ where'[id] = "queued" /\ serialOf'[id] = None
        /\ serial' = serial /\ before' = before /\ torn' = torn
    BY <1>0, DispatchFacts, TypesIn DEF cancelVars
  <2>2. \A i \in Frags : i < id
    BY <2>1 DEF Frags
  <2>3. frags'[id].on = s
    BY <1>0, NewOnesFacts DEF NewOnes
  <2> QED BY <2>1, <2>2, <2>3
<1>2. \A i \in Frags : /\ frags[i].pred # None => frags[i].pred \in Frags
                       /\ frags[i].msg \in Frags
  BY <1>0, PredsIn
<1>3. \A i \in Frags' : i \in Frags \/ i = id
  BY <1>1
<1> HIDE DEF id
<1>4. GivenOut'
  <2>1. 0 < serial[s]
    BY <1>0, TypesIn
  <2> QED BY <1>0, <1>1, <2>1 DEF Flow, GivenOut
<1>5. QueueOrder'
  <2>1. ASSUME NEW i \in Frags', NEW j \in Frags', i < j, SameQueue(i, j)', serialOf'[j] # None
        PROVE  where'[i] # "queued" /\ (serialOf'[i] # None => serialOf'[i] < serialOf'[j])
    <3>1. j \in Frags /\ i \in Frags
      <4>1. j \in Frags
        BY <1>1, <1>3, <2>1
      <4>2. id \in Nat /\ j \in Nat
        BY <1>1, <4>1 DEF id, Frags
      <4> QED BY <1>1, <1>3, <2>1, <4>1, <4>2
    <3>2. SameQueue(i, j)
      BY <1>1, <2>1, <3>1 DEF SameQueue
    <3> QED BY <1>0, <1>1, <2>1, <3>1, <3>2 DEF Flow, QueueOrder
  <2> QED BY <2>1 DEF QueueOrder
<1>6. Arrivals'
  BY <1>0, <1>1, <1>2, <1>3 DEF Flow, Arrivals, Arrived
<1>7. Closed'
  <2>1. ASSUME NEW i \in Frags', NEW j \in Frags', Behind(i, j)', where'[j] = "arrived"
        PROVE  where'[i] = "arrived"
    <3>1. j \in Frags /\ i < j
      BY <1>1, <1>3, <2>1 DEF Behind
    <3>2. i \in Frags
      <4>1. id \in Nat /\ j \in Nat
        BY <1>1, <3>1 DEF id, Frags
      <4> QED BY <1>1, <1>3, <3>1, <4>1
    <3>3. Behind(i, j)
      BY <1>1, <2>1, <3>1, <3>2 DEF Behind, Base
    <3> QED BY <1>0, <1>1, <2>1, <3>1, <3>2, <3>3 DEF Flow, Closed, Arrived
  <2> QED BY <2>1 DEF Closed, Arrived
<1>8. Settled'
  BY <1>0, <1>1, BeforeIn DEF Flow, Settled, Arrived
<1> QED BY <1>4, <1>5, <1>6, <1>7, <1>8 DEF Flow

LEMMA FlowLeave ==
    ASSUME FInv, NEW i \in Frags, Leave(i)
    PROVE  Flow'
<1> DEFINE s == frags[i].on
<1>0. TInv /\ Flow
  BY DEF FInv, SInv
<1>1. /\ where[i] = "queued" /\ s \in Streams
      /\ \A j \in Frags : where'[j] = IF j = i THEN "flying" ELSE where[j]
      /\ \A j \in Frags : serialOf'[j] = IF j = i THEN serial[s] ELSE serialOf[j]
      /\ serial' = [serial EXCEPT ![s] = @ + 1]
      /\ frags' = frags /\ Frags' = Frags /\ before' = before /\ torn' = torn
  BY <1>0, LeaveFacts DEF senderVars, cancelVars, Frags
<1>2. /\ serial \in [Streams -> 1 .. N + 1] /\ N \in Nat
      /\ \A j \in Frags : serialOf[j] \in 0 .. N /\ frags[j].on \in Streams /\ j \in Nat
  BY <1>0, TypesIn DEF Frags
<1>3. \A j \in Frags : j < i /\ SameQueue(j, i) => where[j] # "queued"
  BY <1>2 DEF Leave, SameQueue, Frags
<1>4. \A j \in Frags : (where'[j] = "arrived") = (where[j] = "arrived")
  BY <1>1
<1>5. GivenOut'
  <2>1. ASSUME NEW j \in Frags PROVE serialOf'[j] < serial'[frags[j].on]
    <3>1. CASE j = i
      BY <1>1, <1>2, <3>1
    <3>2. CASE j # i
      BY <1>0, <1>1, <1>2, <3>2 DEF Flow, GivenOut
    <3> QED BY <3>1, <3>2
  <2> QED BY <1>1, <2>1 DEF GivenOut
<1>6. QueueOrder'
  <2>1. ASSUME NEW a \in Frags, NEW b \in Frags, a < b, SameQueue(a, b), serialOf'[b] # None
        PROVE  where'[a] # "queued" /\ (serialOf'[a] # None => serialOf'[a] < serialOf'[b])
    <3>1. CASE b = i
      <4>1. /\ a # i /\ where[a] # "queued" /\ frags[a].on = s
            /\ serialOf[a] < serial[s]
        BY <1>0, <1>2, <1>3, <2>1, <3>1 DEF SameQueue, Flow, GivenOut
      <4> QED BY <1>1, <3>1, <4>1
    <3>2. CASE b # i
      <4>1. /\ where[a] # "queued" /\ serialOf[a] # None => serialOf[a] < serialOf[b]
        BY <1>0, <1>1, <2>1, <3>2 DEF Flow, QueueOrder
      <4>2. /\ where[a] # "queued"
            /\ serialOf[a] # None => serialOf[a] < serialOf[b]
        BY <1>0, <1>1, <2>1, <3>2 DEF Flow, QueueOrder
      <4> QED BY <1>1, <3>2, <4>2
    <3> QED BY <3>1, <3>2
  <2> QED BY <1>1, <2>1 DEF QueueOrder, SameQueue
<1>7. Arrivals' /\ Closed'
  BY <1>0, <1>1, <1>4, PredsIn DEF Flow, Arrivals, Closed, Arrived, Behind, Base
<1>8. Settled'
  BY <1>0, <1>1, <1>4, BeforeIn DEF Flow, Settled, Arrived
<1> QED BY <1>5, <1>6, <1>7, <1>8 DEF Flow

LEMMA FlowLose ==
    ASSUME FInv, NEW i \in Frags, Lose(i)
    PROVE  Flow'
<1>0. TInv /\ Flow
  BY DEF FInv, SInv
<1>1. /\ where[i] \in {"queued", "flying"} /\ where' = [where EXCEPT ![i] = "lost"]
      /\ "lost" \in Places /\ frags' = frags /\ Frags' = Frags /\ before' = before /\ torn' = torn
      /\ serial' = serial /\ serialOf' = serialOf
  BY DEF Lose, Places, senderVars, cancelVars, Frags
<1>2. \A j \in Frags : where'[j] = IF j = i THEN "lost" ELSE where[j]
  BY <1>0, <1>1, WhereFacts
<1>3. \A j \in Frags : (where'[j] = "arrived") = (where[j] = "arrived")
  BY <1>1, <1>2
<1>4. GivenOut' /\ QueueOrder'
  BY <1>0, <1>1, <1>2 DEF Flow, GivenOut, QueueOrder, SameQueue
<1>5. Arrivals' /\ Closed'
  BY <1>0, <1>1, <1>3, PredsIn DEF Flow, Arrivals, Closed, Arrived, Behind, Base
<1>6. Settled'
  BY <1>0, <1>1, <1>2, <1>3, BeforeIn DEF Flow, Settled, Arrived
<1> QED BY <1>4, <1>5, <1>6 DEF Flow

LEMMA FlowArrive ==
    ASSUME FInv, NEW i \in Frags, Arrive(i)
    PROVE  Flow'
<1>0. TInv /\ Flow /\ Messages /\ Chains /\ Ordered
  BY DEF FInv, SInv
<1>1. /\ where[i] = "flying" /\ InTurn(i)
      /\ \A j \in Frags : where'[j] = IF j = i THEN "arrived" ELSE where[j]
      /\ frags' = frags /\ Frags' = Frags /\ before' = before /\ torn' = torn
      /\ serial' = serial /\ serialOf' = serialOf
  BY <1>0, ArriveFacts DEF cancelVars
<1>2. GivenOut' /\ QueueOrder'
  BY <1>0, <1>1 DEF Flow, GivenOut, QueueOrder, SameQueue
<1>p. \A j \in Frags : /\ frags[j].pred # None => frags[j].pred \in Frags
                       /\ frags[j].msg \in Frags /\ frags[j].msg <= j /\ j \in Nat
                       /\ frags[j].pred < j /\ frags[j].pred \in Nat
  BY <1>0, PredsIn DEF Frags
<1>3. Arrivals'
  <2>1. frags[i].pred # None => where'[frags[i].pred] = "arrived"
    BY <1>1, <1>p DEF InTurn
  <2>2. frags[i].kind # "common" => where'[frags[i].msg] = "arrived"
    <3>1. CASE i = frags[i].msg
      BY <1>1, <3>1
    <3>2. CASE i # frags[i].msg /\ frags[i].kind # "common"
      <4>1. /\ frags[i - 1].msg = frags[i].msg /\ frags[i].pred = i - 1
        BY <1>0, <3>2 DEF Messages, Tails
      <4>2. i - 1 \in Frags /\ i - 1 # None
        BY <1>p, <3>2 DEF Frags
      <4>3. where[i - 1] = "arrived" /\ frags[i - 1].kind = frags[i].kind
        BY <1>0, <1>1, <4>1, <4>2 DEF InTurn, Messages, Heads
      <4>4. where[frags[i].msg] = "arrived"
        BY <1>0, <3>2, <4>1, <4>2, <4>3 DEF Flow, Arrivals, Arrived
      <4> QED BY <1>1, <1>p, <4>4
    <3> QED BY <3>1, <3>2
  <2>3. ASSUME NEW j \in Frags, j # i, where[j] = "arrived"
        PROVE  /\ frags[j].pred # None => where'[frags[j].pred] = "arrived"
               /\ frags[j].kind # "common" => where'[frags[j].msg] = "arrived"
    BY <1>0, <1>1, <1>p, <2>3 DEF Flow, Arrivals, Arrived
  <2> QED BY <1>1, <2>1, <2>2, <2>3 DEF Arrivals, Arrived
<1>4. Closed'
  <2>1. ASSUME NEW a \in Frags, Behind(a, i) PROVE where[a] = "arrived"
    <3> DEFINE p == frags[i].pred
    <3>1. a <= p
      BY <1>0, <2>1 DEF Ordered
    <3>2. p \in Frags /\ p # None /\ where[p] = "arrived"
      BY <1>1, <1>p, <3>1 DEF InTurn, Frags
    <3>3. frags[p].on = frags[i].on /\ frags[p].kind = frags[i].kind
      BY <1>0, <3>2 DEF Chains, Messages, Classed
    <3>4. a # p => Behind(a, p)
      <4>1. a \in Nat /\ p \in Nat
        BY <1>p, <3>2
      <4> HIDE DEF p
      <4> QED BY <2>1, <3>1, <3>3, <4>1 DEF Behind
    <3> QED BY <1>0, <3>2, <3>4 DEF Flow, Closed, Arrived
  <2>2. \A a, b \in Frags : Behind(a, b)' = Behind(a, b)
    BY <1>1 DEF Behind, Base
  <2>3. \A a, b \in Frags : Behind(a, b) /\ where[b] = "arrived" => where[a] = "arrived"
    BY <1>0 DEF Flow, Closed, Arrived
  <2>4. ASSUME NEW a \in Frags, NEW b \in Frags, Behind(a, b), where'[b] = "arrived"
        PROVE  where'[a] = "arrived"
    BY <1>1, <2>1, <2>3, <2>4
  <2> QED BY <1>1, <2>2, <2>4 DEF Closed, Arrived
<1>5. Settled'
  <2>1. ~(i \in 1 .. before /\ frags[i].on \in ServerSends \ torn /\ frags[i].part)
    BY <1>0, <1>1 DEF Flow, Settled
  <2>2. ASSUME NEW j \in 1 .. before, frags[j].on \in ServerSends \ torn, frags[j].part,
               j + 1 \in 1 .. before, frags[j + 1].msg = frags[j].msg
        PROVE  j # i /\ j + 1 # i
    <3>1. j \in Frags /\ j + 1 \in Frags
      BY <1>0, <2>2, BeforeIn
    <3> DEFINE k == j + 1
    <3>2. k \in Frags /\ frags[k].msg = frags[j].msg
      BY <2>2, <3>1
    <3> HIDE DEF k
    <3>3. frags[k].on = frags[j].on /\ frags[k].part
      BY <1>0, <2>2, <3>1, <3>2 DEF Messages, Heads
    <3> QED BY <2>1, <2>2, <3>3 DEF k
  <2>3. ASSUME NEW j \in 1 .. before, frags[j].on \in ServerSends \ torn, frags[j].part
        PROVE  /\ where'[j] \in {"arrived", "lost", "dropped"}
               /\ j + 1 \in 1 .. before /\ frags[j + 1].msg = frags[j].msg
                     => (where'[j] = "arrived" <=> where'[j + 1] = "arrived")
    <3>1. j \in Frags /\ j # i
      BY <1>0, <2>1, <2>3, BeforeIn
    <3>2. where'[j] = where[j]
      BY <1>1, <3>1
    <3>3. /\ where[j] \in {"arrived", "lost", "dropped"}
          /\ j + 1 \in 1 .. before /\ frags[j + 1].msg = frags[j].msg
                => (where[j] = "arrived" <=> where[j + 1] = "arrived")
      BY <1>0, <2>3 DEF Flow, Settled, Arrived
    <3>4. ASSUME j + 1 \in 1 .. before, frags[j + 1].msg = frags[j].msg
          PROVE  where'[j + 1] = where[j + 1]
      <4>1. j + 1 # i /\ j + 1 \in Frags
        BY <1>0, <2>2, <2>3, <3>4, BeforeIn
      <4> QED BY <1>1, <4>1
    <3> QED BY <3>2, <3>3, <3>4
  <2> QED BY <1>1, <2>3 DEF Settled, Arrived
<1> QED BY <1>2, <1>3, <1>4, <1>5 DEF Flow

LEMMA FlowCancel ==
    ASSUME FInv, CancelAllMessages
    PROVE  Flow'
<1>0. TInv /\ Flow /\ Messages
  BY DEF FInv, SInv
<1>1. /\ \A i \in Frags : \/ where'[i] = where[i] /\ ~(frags[i].on \in ServerSends /\ where[i] = "queued")
                          \/ /\ where'[i] = "dropped" /\ where[i] \in {"queued", "flying"}
                             /\ frags[i].on \in ServerSends
      /\ before' = Len(frags)
      /\ torn' = torn \cup {frags[m].on : m \in {i \in {i \in Frags : frags[i].on \in ServerSends} :
                                                    UnderWay(frags[i].msg)}}
      /\ frags' = frags /\ Frags' = Frags /\ serial' = serial /\ serialOf' = serialOf
  BY <1>0, CancelFacts DEF Frags
<1>2. \A j \in Frags : (where'[j] = "arrived") = (where[j] = "arrived")
  BY <1>1
<1>3. /\ Len(frags) \in Nat /\ \A i \in Frags : i \in Nat /\ i <= Len(frags) /\ where[i] \in Places
  BY <1>0, TypesIn DEF Frags
<1>4. GivenOut' /\ QueueOrder'
  BY <1>0, <1>1 DEF Flow, GivenOut, QueueOrder, SameQueue
<1>5. Arrivals'
  BY <1>0, <1>1, <1>2, PredsIn DEF Flow, Arrivals, Arrived
<1>6. Closed'
  <2>1. \A i, j \in Frags : Behind(i, j)' => Behind(i, j)
    <3>1. \A i \in Frags : ~(Len(frags) < i)
      BY <1>3
    <3> QED BY <1>1, <3>1 DEF Behind, Base
  <2> QED BY <1>0, <1>1, <1>2, <2>1 DEF Flow, Closed, Arrived
<1>7. Settled'
  <2>1. ASSUME NEW i \in Frags, frags[i].on \in ServerSends \ torn', frags[i].part
        PROVE  /\ where'[i] \in {"arrived", "lost", "dropped"}
               /\ i + 1 \in Frags /\ frags[i + 1].msg = frags[i].msg =>
                     (where'[i] = "arrived" <=> where'[i + 1] = "arrived")
    <3>1. ~UnderWay(frags[i].msg)
      BY <1>1, <2>1
    <3>2. frags[frags[i].msg].part
      BY <1>0, <2>1 DEF Messages, Heads
    <3>3. \/ \A x \in Frags : frags[x].msg = frags[i].msg => where[x] \notin {"flying", "arrived"}
          \/ \A x \in Frags : frags[x].msg = frags[i].msg => where[x] = "arrived"
      BY <3>1, <3>2 DEF UnderWay
    <3>4. where'[i] \in {"arrived", "lost", "dropped"}
      <4>1. where[i] \notin {"flying", "arrived"} \/ where[i] = "arrived"
        BY <3>3
      <4> QED BY <1>1, <1>3, <2>1, <4>1 DEF Places
    <3> QED BY <1>2, <3>3, <3>4
  <2>2. 1 .. before' = Frags
    BY <1>1 DEF Frags
  <2> QED BY <1>1, <2>1, <2>2 DEF Settled, Arrived
<1> QED BY <1>4, <1>5, <1>6, <1>7 DEF Flow

LEMMA FlowKept ==
    ASSUME FInv, UNCHANGED <<senderVars, channelVars, cancelVars>>
    PROVE  Flow'
  BY DEF FInv, Flow, GivenOut, QueueOrder, SameQueue, Arrivals, Closed, Behind, Base, Settled,
         Arrived, Frags, senderVars, channelVars, cancelVars

LEMMA FlowInit ==
    ASSUME Init
    PROVE  FInv
<1>1. Frags = {} /\ before = 0
  BY DEF Init, Frags
<1>2. Flow
  <2>1. GivenOut /\ QueueOrder
    BY <1>1 DEF GivenOut, QueueOrder
  <2>2. Arrivals /\ Closed
    BY <1>1 DEF Arrivals, Closed
  <2>3. Settled
    BY <1>1 DEF Settled
  <2> QED BY <2>1, <2>2, <2>3 DEF Flow
<1> QED BY <1>2, SentInit DEF FInv

LEMMA FlowNext ==
    ASSUME FInv, [Next]_vars
    PROVE  FInv'
<1>1. SInv' /\ TInv
  BY SentNext DEF FInv, SInv
<1>2. ASSUME NEW e \in Ends, ProcessUserMessages(e) PROVE Flow'
  BY <1>2, FlowKept DEF ProcessUserMessages
<1>3. CASE UNCHANGED vars
  BY <1>1, <1>3, FlowKept DEF FInv, vars
<1>4. ASSUME Next PROVE Flow'
  BY <1>1, <1>2, <1>4, SentStep, FlowDispatch, FlowLeave, FlowLose, FlowArrive, FlowCancel
<1> QED BY <1>1, <1>3, <1>4 DEF FInv

-----------------------------------------------------------------------------
(* The line of an end: what the game was given, and behind it the list of what it
   will be given.  Handing over does not change it.                        *)

LineLen(e) == Len(handed[e]) + Len(received[e])
Line(e, k) == IF k <= Len(handed[e]) THEN handed[e][k] ELSE received[e][k - Len(handed[e])].parts

(* A line that grows by c at p.                                            *)
Grown(e, p, c) ==
    /\ p \in 1 .. LineLen(e) + 1 /\ LineLen(e)' = LineLen(e) + 1
    /\ Line(e, p)' = c
    /\ \A k \in 1 .. LineLen(e) + 1 :
          k # p => \E j \in 1 .. LineLen(e) : /\ j = (IF k < p THEN k ELSE k - 1)
                                              /\ Line(e, k)' = Line(e, j)
    /\ \A j \in 1 .. LineLen(e) :
          \E k \in 1 .. LineLen(e) + 1 : /\ k = (IF j < p THEN j ELSE j + 1)
                                         /\ Line(e, k)' = Line(e, j)

LEMMA LineIn ==
    ASSUME TInv, NEW e \in Ends
    PROVE  /\ Len(handed[e]) \in Nat /\ Len(received[e]) \in Nat /\ LineLen(e) \in Nat
           /\ \A k \in 1 .. LineLen(e) :
                 /\ Line(e, k) \in Seq(1 .. N) /\ Line(e, k) # <<>> /\ Listed(Line(e, k))
                 /\ Len(Line(e, k)) \in Nat /\ Len(Line(e, k)) # 0
                 /\ Last(Line(e, k)) = Line(e, k)[Len(Line(e, k))]
                 /\ Last(Line(e, k)) \in Frags
<1>1. handed[e] \in Seq(Seq(1 .. N)) /\ received[e] \in Seq(Received)
  BY TypesIn DEF TInv, TypeOK
<1> DEFINE h == Len(handed[e])
           r == Len(received[e])
<1>2. h \in Nat /\ r \in Nat /\ LineLen(e) = h + r
  BY <1>1, LenProperties DEF LineLen
<1>3. ASSUME NEW k \in 1 .. LineLen(e)
      PROVE  /\ Line(e, k) \in Seq(1 .. N) /\ Line(e, k) # <<>> /\ Listed(Line(e, k))
  <2>1. CASE k <= Len(handed[e])
    <3>1. k \in 1 .. Len(handed[e]) /\ Line(e, k) = handed[e][k]
      BY <1>2, <2>1 DEF LineLen, Line
    <3>2. handed[e][k] \in Seq(1 .. N)
      BY <1>1, <3>1, ElementOfSeq
    <3> QED BY <3>1, <3>2 DEF TInv, Lists
  <2>2. CASE ~(k <= Len(handed[e]))
    <3>1. PICK q \in 1 .. r : q = k - h
      <4>1. k \in 1 .. h + r /\ ~(k <= h)
        BY <1>2, <2>2
      <4> HIDE DEF h, r
      <4> QED BY <1>2, <4>1
    <3>q. Line(e, k) = received[e][q].parts
      BY <2>2, <3>1 DEF Line
    <3>2. received[e][q] \in Received
      BY <1>1, <3>1, ElementOfSeq
    <3> QED BY <3>1, <3>q, <3>2 DEF TInv, Lists, Received
  <2> QED BY <2>1, <2>2
<1>4. ASSUME NEW k \in 1 .. LineLen(e)
      PROVE  /\ Len(Line(e, k)) \in Nat /\ Len(Line(e, k)) # 0
             /\ Last(Line(e, k)) = Line(e, k)[Len(Line(e, k))]
             /\ Last(Line(e, k)) \in Frags
  <2> DEFINE c == Line(e, k)
  <2>1. c \in Seq(1 .. N) /\ c # <<>> /\ Listed(c)
    BY <1>3
  <2> HIDE DEF c
  <2>2. Len(c) \in Nat /\ Len(c) # 0 /\ Last(c) = c[Len(c)]
    BY <2>1, LenProperties, EmptySeq DEF Last
  <2>3. Last(c) \in Frags
    BY <2>1, <2>2 DEF Listed
  <2> QED BY <2>2, <2>3 DEF c
<1>5. LineLen(e) \in Nat
  <2> HIDE DEF h, r
  <2> QED BY <1>2
<1> QED BY <1>2, <1>3, <1>4, <1>5

LEMMA LineKept ==
    ASSUME NEW e \in Ends, handed'[e] = handed[e], received'[e] = received[e]
    PROVE  LineLen(e)' = LineLen(e) /\ \A k : Line(e, k)' = Line(e, k)
  BY DEF LineLen, Line

LEMMA LineProcess ==
    ASSUME TInv, NEW e \in Ends, ProcessUserMessages(e), NEW d \in Ends
    PROVE  LineLen(d)' = LineLen(d) /\ \A k \in 1 .. LineLen(d) : Line(d, k)' = Line(d, k)
<1>1. /\ Len(received[e]) # 0 /\ Len(received[e]) \in Nat /\ Len(handed[e]) \in Nat
      /\ d # e => received'[d] = received[d] /\ handed'[d] = handed[d]
      /\ Len(received'[e]) = Len(received[e]) - 1
      /\ \A k \in 1 .. Len(received[e]) - 1 : received'[e][k] = received[e][k + 1]
      /\ Len(handed'[e]) = Len(handed[e]) + 1
      /\ \A k \in 1 .. Len(handed[e]) : handed'[e][k] = handed[e][k]
      /\ handed'[e][Len(handed[e]) + 1] = received[e][1].parts
  BY ProcessFacts
<1>2. CASE d # e
  BY <1>1, <1>2, LineKept
<1>3. CASE d = e
  <2> DEFINE h == Len(handed[e])
             r == Len(received[e])
  <2>1. LineLen(e)' = LineLen(e) /\ LineLen(e) = h + r /\ h \in Nat /\ r \in Nat \ {0}
    <3>1. LineLen(e) = h + r /\ LineLen(e)' = Len(handed'[e]) + Len(received'[e])
      BY DEF LineLen
    <3>2. /\ Len(handed'[e]) = h + 1 /\ Len(received'[e]) = r - 1
          /\ h \in Nat /\ r \in Nat \ {0}
      BY <1>1
    <3> HIDE DEF h, r
    <3> QED BY <3>1, <3>2
  <2>2. ASSUME NEW k \in 1 .. LineLen(e) PROVE Line(e, k)' = Line(e, k)
    <3>1. CASE k <= h
      BY <1>1, <2>1, <3>1 DEF Line
    <3>2. CASE k = h + 1
      <4>1. Line(e, k)' = received[e][1].parts
        BY <1>1, <2>1, <3>2 DEF Line
      <4>2. k - h = 1 /\ ~(k <= h)
        BY <2>1, <3>2
      <4>3. Line(e, k) = received[e][1].parts
        BY <4>2 DEF Line
      <4> QED BY <4>1, <4>3
    <3>3. CASE k > h + 1
      <4> DEFINE q == k - (h + 1)
      <4>1. q \in 1 .. r - 1 /\ q + 1 = k - h /\ ~(k <= h) /\ ~(k <= h + 1)
        <5> HIDE DEF h, r
        <5> QED BY <2>1, <3>3
      <4>2. Line(e, k)' = received'[e][q].parts
        BY <1>1, <4>1 DEF Line
      <4>3. received'[e][q] = received[e][q + 1]
        BY <1>1, <4>1
      <4>4. Line(e, k) = received[e][q + 1].parts
        BY <4>1 DEF Line
      <4> QED BY <4>2, <4>3, <4>4
    <3> QED BY <2>1, <3>1, <3>2, <3>3
  <2> QED BY <1>3, <2>1, <2>2
<1> QED BY <1>2, <1>3

LEMMA LineGrown ==
    ASSUME TInv, NEW e \in Ends, handed'[e] = handed[e], NEW parts,
           NEW n \in 0 .. Len(received[e]), Entered(received[e], received'[e], parts, n)
    PROVE  \E p : p = Len(handed[e]) + n + 1 /\ Grown(e, p, parts)
<1> DEFINE h    == Len(handed[e])
           list == received[e]
           new  == received'[e]
           r    == Len(list)
<1>1. /\ h \in Nat /\ r \in Nat /\ n \in 0 .. r
      /\ Len(new) = r + 1
      /\ \A k \in 1 .. n : new[k] = list[k]
      /\ new[n + 1].parts = parts
      /\ \A k \in n + 1 .. r : new[k + 1] = list[k]
  BY LineIn DEF Entered
<1>2. /\ LineLen(e) = h + r /\ LineLen(e)' = h + (r + 1)
      /\ \A k : Line(e, k) = IF k <= h THEN handed[e][k] ELSE list[k - h].parts
      /\ \A k : Line(e, k)' = IF k <= h THEN handed[e][k] ELSE new[k - h].parts
  BY <1>1 DEF LineLen, Line
<1> HIDE DEF h, list, new, r
<1>3. PICK p \in 1 .. LineLen(e) + 1 : p = h + n + 1
  BY <1>1, <1>2
<1>l. LineLen(e)' = LineLen(e) + 1
  BY <1>1, <1>2
<1>4. Line(e, p)' = parts
  <2>1. ~(p <= h) /\ p - h = n + 1
    BY <1>1, <1>3
  <2> QED BY <1>1, <1>2, <2>1
<1>5. ASSUME NEW k \in 1 .. LineLen(e), k < p PROVE Line(e, k)' = Line(e, k)
  <2>1. CASE k <= h
    BY <1>2, <2>1
  <2>2. CASE ~(k <= h)
    <3>1. k - h \in 1 .. n
      BY <1>1, <1>2, <1>3, <1>5, <2>2
    <3>2. new[k - h] = list[k - h]
      BY <1>1, <3>1
    <3> QED BY <1>2, <2>2, <3>2
  <2> QED BY <2>1, <2>2
<1>6. ASSUME NEW j \in 1 .. LineLen(e), NEW k, k = j + 1, ~(j < p)
      PROVE  Line(e, k)' = Line(e, j)
  <2>1. PICK q : q = j - h
    OBVIOUS
  <2>2. q \in n + 1 .. r /\ q + 1 = k - h /\ ~(j <= h) /\ ~(k <= h)
    <3>1. /\ h \in Nat /\ r \in Nat /\ n \in 0 .. r /\ p = h + n + 1
          /\ j \in 1 .. h + r
      BY <1>1, <1>2, <1>3
    <3> QED BY <1>6, <2>1, <3>1
  <2>3. new[q + 1] = list[q]
    BY <1>1, <2>2
  <2>4. Line(e, k)' = new[q + 1].parts
    BY <1>2, <2>2
  <2>5. Line(e, j) = list[q].parts
    BY <1>2, <2>1, <2>2
  <2> QED BY <2>3, <2>4, <2>5
<1>7. ASSUME NEW k \in 1 .. LineLen(e) + 1, k # p
      PROVE  \E j \in 1 .. LineLen(e) : j = (IF k < p THEN k ELSE k - 1) /\ Line(e, k)' = Line(e, j)
  <2>1. CASE k < p
    <3>1. k \in 1 .. LineLen(e)
      BY <1>1, <1>2, <2>1
    <3> QED BY <1>5, <2>1, <3>1
  <2>2. CASE ~(k < p)
    <3>1. PICK q \in 1 .. LineLen(e) : q = k - 1 /\ ~(q < p) /\ k = q + 1
      BY <1>1, <1>2, <1>3, <1>7, <2>2
    <3>2. Line(e, k)' = Line(e, q)
      BY <1>6, <3>1
    <3> QED BY <2>2, <3>1, <3>2
  <2> QED BY <2>1, <2>2
<1>8. ASSUME NEW j \in 1 .. LineLen(e)
      PROVE  \E k \in 1 .. LineLen(e) + 1 : k = (IF j < p THEN j ELSE j + 1) /\ Line(e, k)' = Line(e, j)
  <2>1. CASE j < p
    <3>1. j \in 1 .. LineLen(e) + 1
      BY <1>1, <1>2
    <3> QED BY <1>5, <2>1, <3>1
  <2>2. CASE ~(j < p)
    <3>1. PICK k \in 1 .. LineLen(e) + 1 : k = j + 1
      BY <1>1, <1>2
    <3>2. Line(e, k)' = Line(e, j)
      BY <1>6, <2>2, <3>1
    <3> QED BY <2>2, <3>1, <3>2
  <2> QED BY <2>1, <2>2
<1>9. Grown(e, p, parts)
  BY <1>3, <1>l, <1>4, <1>7, <1>8 DEF Grown
<1> QED BY <1>3, <1>9 DEF h

-----------------------------------------------------------------------------
(* The fragments that are collected.                                       *)

(* The streams that were not torn by a cancellation and cut only what is guaranteed. *)
Clean(s) == /\ s \notin torn
            /\ \A i \in Frags : frags[i].on = s /\ frags[i].part => frags[i].kind # "common"
Run(c, m, l) == Len(c) = l - m + 1 /\ \A k \in 1 .. Len(c) : c[k] = m + k - 1

(* A fragment that arrived while the next of its message has not.          *)
Open(j) == /\ frags[j].part /\ ~frags[j].closing /\ Arrived(j)
           /\ j + 1 \in Frags => ~Arrived(j + 1)

Splits ==
    \A s \in Streams : Clean(s) =>
        /\ \A j \in Frags : frags[j].on = s /\ Open(j) =>
              Run(split[s][frags[j].urgent], frags[j].msg, j)
        /\ \A u \in BOOLEAN : split[s][u] # <<>> =>
              \E j \in Frags : frags[j].on = s /\ frags[j].urgent = u /\ Open(j)

LEMMA CleanBefore ==
    ASSUME Frags \subseteq Frags', \A i \in Frags : frags'[i] = frags[i], torn \subseteq torn',
           NEW s, Clean(s)'
    PROVE  Clean(s)
  BY DEF Clean

LEMMA UpIsClean ==
    ASSUME TInv, Messages, NEW s, s \notin ServerSends
    PROVE  Clean(s)
  BY DEF TInv, TypeOK, Messages, Classed, Clean

LEMMA FragmentIn ==
    ASSUME TInv, NEW i \in Frags
    PROVE  /\ frags[i].on \in Streams /\ frags[i].msg \in Nat /\ frags[i].part \in BOOLEAN
           /\ frags[i].closing \in BOOLEAN /\ frags[i].kind \in Kinds
           /\ frags[i].urgent \in BOOLEAN /\ frags[i].pred \in Nat
           /\ i \in Nat \ {0} /\ i <= Len(frags) /\ Len(frags) \in Nat
<1>1. frags[i] \in Fragment /\ N \in Nat /\ Len(frags) \in Nat
  BY TypesIn
<1> QED BY <1>1 DEF Fragment, Frags

(* Fragments of one stream and list that are guaranteed are of one kind.   *)
LEMMA SameKind ==
    ASSUME TInv, Messages, NEW i \in Frags, NEW j \in Frags,
           frags[i].urgent = frags[j].urgent, frags[i].kind # "common", frags[j].kind # "common"
    PROVE  frags[i].kind = frags[j].kind
  BY FragmentIn DEF Messages, Classed, Kinds

(* The fragment that arrives is the next one after the one that waits, on a clean
   stream.                                                                 *)
LEMMA ArriveOpen ==
    ASSUME FInv, NEW i \in Frags, where[i] = "flying", InTurn(i),
           Clean(frags[i].on), frags[i].part
    PROVE  /\ i # frags[i].msg => i - 1 \in Frags /\ frags[i - 1].msg = frags[i].msg /\ Open(i - 1)
           /\ \A j \in Frags : /\ frags[j].on = frags[i].on /\ frags[j].urgent = frags[i].urgent
                               /\ Open(j)
                               => j + 1 = i /\ frags[j].msg = frags[i].msg
           /\ i + 1 \in Frags /\ ~frags[i].closing => ~Arrived(i + 1)
<1> DEFINE s == frags[i].on
<1>0. TInv /\ Chains /\ Messages /\ Loop /\ Ordered /\ Flow
  BY DEF FInv, SInv
<1>1. where[i] = "flying" /\ InTurn(i) /\ frags[i].kind # "common"
  BY DEF Clean
<1>2. \A j \in Frags : /\ frags[j].pred \in Nat /\ frags[j].pred < j
                       /\ frags[j].pred # None => frags[j].pred \in Frags
                       /\ frags[j].msg \in Frags /\ frags[j].msg <= j
                       /\ j \in Nat \ {0} /\ j <= Len(frags)
  BY <1>0, PredsIn, FragmentIn
<1>s. ~(s \in ServerSends /\ i \in 1 .. before)
  BY <1>0, <1>1 DEF Flow, Settled, Clean
<1>n. before \in Nat /\ Len(frags) \in Nat /\ i \in Nat \ {0}
  BY <1>0, <1>2, TypesIn DEF TInv, TypeOK
<1>3. ASSUME i # frags[i].msg
      PROVE  i - 1 \in Frags /\ frags[i - 1].msg = frags[i].msg /\ Open(i - 1)
  <2> DEFINE j == i - 1
  <2>1. j \in Frags /\ j + 1 = i /\ j # None
    BY <1>2, <1>3 DEF Frags
  <2>2. frags[j].msg = frags[i].msg /\ ~frags[j].closing /\ frags[i].pred = j
    BY <1>0, <1>1, <1>3 DEF Messages, Tails
  <2> HIDE DEF j
  <2>3. frags[j].part /\ Arrived(j)
    BY <1>0, <1>1, <2>1, <2>2 DEF Messages, Heads, InTurn, Arrived
  <2>4. ~Arrived(j + 1)
    BY <1>1, <2>1 DEF Arrived
  <2> QED BY <2>1, <2>2, <2>3, <2>4 DEF Open, j
<1>4. ASSUME NEW j \in Frags, frags[j].on = frags[i].on, frags[j].urgent = frags[i].urgent, Open(j)
      PROVE  j + 1 = i /\ frags[j].msg = frags[i].msg
  <2>1. frags[j].part /\ ~frags[j].closing /\ Arrived(j) /\ ~Closes(j) /\ frags[j].kind # "common"
    BY <1>4 DEF Open, Clean, Closes
  <2>2. frags[j].kind = frags[i].kind
    BY <1>0, <1>1, <1>4, <2>1, SameKind
  <2>3. j # i
    BY <1>1, <2>1 DEF Arrived
  <2>4. ~(i < j)
    <3>1. SUFFICES ASSUME i < j PROVE FALSE
      OBVIOUS
    <3>2. Base(s) < i
      BY <1>n, <1>s DEF Base
    <3>3. Behind(i, j)
      BY <1>1, <1>4, <2>2, <3>1, <3>2 DEF Behind
    <3> QED BY <1>0, <1>1, <2>1, <3>3 DEF Flow, Closed, Arrived
  <2>5. j < i
    <3>1. i \in Nat /\ j \in Nat
      BY <1>2
    <3> QED BY <2>3, <2>4, <3>1
  <2>6. PICK n \in Frags : n = j + 1
    BY <1>2, <2>5 DEF Frags
  <2>7. /\ frags[n].msg = frags[j].msg /\ ~Arrived(n)
        /\ frags[n].on = s /\ frags[n].kind = frags[i].kind
    <3>1. frags[n].msg = frags[j].msg
      BY <1>0, <2>1, <2>6 DEF Messages, Follows
    <3>2. ~Arrived(n)
      BY <1>4, <2>6 DEF Open
    <3>3. frags[n].on = frags[j].on /\ frags[n].kind = frags[j].kind
      BY <1>0, <3>1 DEF Messages, Heads
    <3> QED BY <1>4, <2>2, <3>1, <3>2, <3>3
  <2>8. ~(s \in ServerSends /\ j \in 1 .. before)
    <3>1. SUFFICES ASSUME s \in ServerSends, j \in 1 .. before PROVE FALSE
      OBVIOUS
    <3>2. j < before
      BY <1>0, <1>4, <2>1, <3>1 DEF Loop, BeforeWhole
    <3>3. n \in 1 .. before
      <4>1. j \in Nat \ {0} /\ before \in Nat
        BY <1>2, <1>n
      <4> QED BY <2>6, <3>2, <4>1
    <3>4. s \notin torn
      BY DEF Clean
    <3>5. Arrived(j) <=> Arrived(n)
      BY <1>0, <1>4, <2>1, <2>6, <2>7, <3>1, <3>3, <3>4 DEF Flow, Settled
    <3> QED BY <2>1, <2>7, <3>5
  <2>9. Base(s) < n
    <3>1. j \in Nat \ {0}
      BY <1>2
    <3> QED BY <1>n, <2>6, <2>8, <3>1 DEF Base
  <2>10. n = i
    <3>1. SUFFICES ASSUME n # i PROVE FALSE
      OBVIOUS
    <3>2. n < i
      BY <1>2, <2>5, <2>6, <3>1
    <3>3. Behind(n, i)
      BY <1>1, <2>7, <2>9, <3>2 DEF Behind
    <3> DEFINE p == frags[i].pred
    <3>4. n <= p
      BY <1>0, <3>3 DEF Ordered
    <3>a. p \in Nat /\ n \in Nat \ {0}
      BY <1>2
    <3>b. p # None
      <4> HIDE DEF p
      <4> QED BY <3>4, <3>a
    <3>5. p \in Frags /\ Arrived(p)
      BY <1>1, <1>2, <3>b DEF InTurn, Arrived
    <3>6. frags[p].on = s /\ frags[p].kind = frags[i].kind
      BY <1>0, <3>b DEF Chains, Messages, Classed
    <3>7. n # p
      BY <2>7, <3>5
    <3>8. n < p
      <4> HIDE DEF p
      <4> QED BY <3>4, <3>a, <3>7
    <3>9. Behind(n, p)
      BY <1>1, <2>7, <2>9, <3>6, <3>8 DEF Behind
    <3> QED BY <1>0, <2>7, <3>5, <3>9 DEF Flow, Closed
  <2> QED BY <2>6, <2>7, <2>10
<1>5. ASSUME i + 1 \in Frags, ~frags[i].closing
      PROVE  ~Arrived(i + 1)
  <2>1. PICK n \in Frags : n = i + 1
    BY <1>5
  <2>2. frags[n].msg = frags[i].msg
    BY <1>0, <1>5, <2>1 DEF Messages, Follows, Closes
  <2>3. frags[n].kind = frags[i].kind
    BY <1>0, <2>2 DEF Messages, Heads
  <2>4. n # frags[n].msg
    BY <1>2, <2>1, <2>2
  <2>5. frags[n].pred = i
    BY <1>0, <1>1, <1>2, <2>1, <2>3, <2>4 DEF Messages, Tails
  <2>6. Arrived(n) => Arrived(i)
    BY <1>0, <1>2, <2>5 DEF Flow, Arrivals
  <2> QED BY <1>1, <2>1, <2>6 DEF Arrived
<1> QED BY <1>3, <1>4, <1>5

LEMMA RunAppend ==
    ASSUME TInv, NEW c \in Seq(1 .. N), NEW i \in Frags, NEW m \in Nat,
           (c = <<>> /\ m = i) \/ (Run(c, m, i - 1) /\ m <= i)
    PROVE  Run(Append(c, i), m, i)
<1>1. /\ Len(c) \in Nat /\ i \in Nat /\ i \in 1 .. N
  <2>1. i \in Nat \ {0} /\ i <= Len(frags) /\ Len(frags) \in Nat /\ N \in Nat
    BY FragmentIn, TypesIn
  <2>2. Len(frags) <= N
    BY DEF TInv, Sizes
  <2>3. Len(c) \in Nat
    BY LenProperties
  <2> QED BY <2>1, <2>2, <2>3
<1>2. /\ Len(Append(c, i)) = Len(c) + 1
      /\ \A k \in 1 .. Len(c) : Append(c, i)[k] = c[k]
      /\ Append(c, i)[Len(c) + 1] = i
  BY <1>1, AppendProperties
<1>3. /\ Len(c) = i - m
      /\ \A k \in 1 .. Len(c) : c[k] = m + k - 1
  <2>1. CASE c = <<>> /\ m = i
    BY <1>1, <2>1
  <2>2. CASE Run(c, m, i - 1) /\ m <= i
    BY <1>1, <2>2 DEF Run
  <2> QED BY <2>1, <2>2
<1> DEFINE x == Append(c, i)
<1> HIDE DEF x
<1>4. Len(x) = Len(c) + 1 /\ (\A k \in 1 .. Len(c) : x[k] = c[k]) /\ x[Len(c) + 1] = i
  BY <1>2 DEF x
<1>5. Len(x) = i - m + 1
  BY <1>1, <1>3, <1>4
<1>6. ASSUME NEW k \in 1 .. Len(x) PROVE x[k] = m + k - 1
  <2>1. CASE k \in 1 .. Len(c)
    BY <1>3, <1>4, <2>1
  <2>2. CASE k = Len(c) + 1
    BY <1>1, <1>3, <1>4, <2>2
  <2> QED BY <1>1, <1>4, <2>1, <2>2
<1>7. Run(x, m, i)
  BY <1>5, <1>6 DEF Run
<1> QED BY <1>7 DEF x

(* What a fragment completes on a clean stream is its message.             *)
LEMMA BroughtRun ==
    ASSUME FInv, Splits, NEW i \in Frags, Arrive(i), Clean(frags[i].on)
    PROVE  Run(Brought(i), frags[i].msg, i)
<1> DEFINE s == frags[i].on
           u == frags[i].urgent
           c == split[s][u]
<1>0. TInv /\ Messages
  BY DEF FInv, SInv
<1>1. /\ s \in Streams /\ u \in BOOLEAN /\ frags[i].msg \in Nat /\ frags[i].msg <= i
      /\ frags[i].part \in BOOLEAN /\ i \in Nat
  BY <1>0, FragmentIn, PredsIn
<1>a. where[i] = "flying" /\ InTurn(i)
  BY DEF Arrive
<1>2. c \in Seq(1 .. N)
  <2>1. split \in [Streams -> [BOOLEAN -> Seq(1 .. N)]]
    BY <1>0 DEF TInv, TypeOK
  <2> QED BY <1>1, <2>1
<1>3. CASE ~frags[i].part
  <2>1. frags[i].msg = i
    BY <1>0, <1>3 DEF Messages, Tails
  <2>2. Brought(i) = <<i>>
    BY <1>3 DEF Brought
  <2> QED BY <1>1, <2>1, <2>2 DEF Run
<1>4. CASE frags[i].part
  <2>1. Brought(i) = Append(c, i)
    BY <1>4 DEF Brought
  <2>2. CASE i = frags[i].msg
    <3>1. ~(\E j \in Frags : frags[j].on = s /\ frags[j].urgent = u /\ Open(j))
      <4>1. SUFFICES ASSUME NEW j \in Frags, frags[j].on = s, frags[j].urgent = u, Open(j)
                     PROVE  FALSE
        OBVIOUS
      <4>2. j + 1 = i /\ frags[j].msg = i
        BY <1>a, <1>4, <2>2, <4>1, ArriveOpen
      <4>3. frags[j].msg <= j /\ j \in Nat
        BY <1>0, PredsIn, FragmentIn
      <4> QED BY <1>1, <4>2, <4>3
    <3>2. c = <<>>
      BY <1>1, <3>1 DEF Splits
    <3> QED BY <1>0, <1>1, <1>2, <2>1, <2>2, <3>2, RunAppend
  <2>3. CASE i # frags[i].msg
    <3>1. PICK j \in Frags : j = i - 1
      BY <1>a, <1>4, <2>3, ArriveOpen
    <3>2. frags[j].msg = frags[i].msg /\ Open(j)
      BY <1>a, <1>4, <2>3, <3>1, ArriveOpen
    <3>3. frags[j].on = s /\ frags[j].urgent = u
      BY <1>0, <3>2 DEF Messages, Heads
    <3>4. Run(c, frags[i].msg, j)
      BY <1>1, <3>2, <3>3 DEF Splits
    <3> HIDE DEF c
    <3> QED BY <1>0, <1>1, <1>2, <2>1, <3>1, <3>4, RunAppend
  <2> QED BY <2>2, <2>3
<1> QED BY <1>1, <1>3, <1>4

(* A step that brings nothing in keeps the collected fragments.            *)
LEMMA SplitsSame ==
    ASSUME Splits, Frags \subseteq Frags', \A i \in Frags : frags'[i] = frags[i],
           \A i \in Frags : where'[i] = "arrived" <=> where[i] = "arrived",
           \A i \in Frags' \ Frags : where'[i] # "arrived",
           split' = split, torn \subseteq torn'
    PROVE  Splits'
<1>1. SUFFICES ASSUME NEW s \in Streams, Clean(s)'
               PROVE  /\ \A j \in Frags' : frags'[j].on = s /\ Open(j)' =>
                            Run(split'[s][frags'[j].urgent], frags'[j].msg, j)
                      /\ \A u \in BOOLEAN : split'[s][u] # <<>> =>
                            \E j \in Frags' : frags'[j].on = s /\ frags'[j].urgent = u /\ Open(j)'
  BY DEF Splits
<1>2. Clean(s)
  BY <1>1, CleanBefore
<1>3. /\ \A j \in Frags : frags[j].on = s /\ Open(j) => Run(split[s][frags[j].urgent], frags[j].msg, j)
      /\ \A u \in BOOLEAN : split[s][u] # <<>> =>
            \E j \in Frags : frags[j].on = s /\ frags[j].urgent = u /\ Open(j)
  BY <1>2 DEF Splits
<1>4. ASSUME NEW j \in Frags', frags'[j].on = s, Open(j)'
      PROVE  Run(split'[s][frags'[j].urgent], frags'[j].msg, j)
  <2>1. j \in Frags /\ frags'[j] = frags[j]
    BY <1>4 DEF Open, Arrived
  <2>2. Open(j)
    BY <1>4, <2>1 DEF Open, Arrived
  <2> QED BY <1>3, <1>4, <2>1, <2>2
<1>5. ASSUME NEW u \in BOOLEAN, split'[s][u] # <<>>
      PROVE  \E j \in Frags' : frags'[j].on = s /\ frags'[j].urgent = u /\ Open(j)'
  <2>1. PICK j \in Frags : frags[j].on = s /\ frags[j].urgent = u /\ Open(j)
    BY <1>3, <1>5
  <2>2. j \in Frags' /\ frags'[j] = frags[j] /\ Open(j)'
    BY <2>1 DEF Open, Arrived
  <2> QED BY <2>1, <2>2
<1> QED BY <1>4, <1>5

(* A closing fragment that is handed over finds the others of its message. *)
LEMMA HeadFound ==
    ASSUME FInv, Splits, NEW i \in Frags, where[i] = "flying", InTurn(i), Clean(frags[i].on)
    PROVE  ~Headless(i)
<1> DEFINE s == frags[i].on
           u == frags[i].urgent
           m == frags[i].msg
<1>1. SUFFICES ASSUME frags[i].closing, split[s][u] = <<>> PROVE FALSE
  BY DEF Headless
<1>2. TInv /\ Messages
  BY DEF FInv, SInv
<1>3. i # m /\ frags[i].part
  BY <1>1, <1>2 DEF Messages, Tails
<1>4. PICK j \in Frags : j = i - 1
  BY <1>3, ArriveOpen
<1>5. frags[j].msg = m /\ Open(j)
  BY <1>3, <1>4, ArriveOpen
<1>6. frags[j].on = s /\ frags[j].urgent = u /\ s \in Streams
  BY <1>2, <1>5, FragmentIn DEF Messages, Heads
<1>7. Run(split[s][u], m, j)
  BY <1>5, <1>6 DEF Splits
<1>8. Len(<<>>) = j - m + 1
  BY <1>1, <1>7 DEF Run
<1>9. m \in Nat /\ m <= j /\ j \in Nat
  BY <1>2, <1>5, PredsIn, FragmentIn
<1> QED
  <2> HIDE DEF m
  <2> QED BY <1>8, <1>9

(* The server throws nothing away: its clients cut only what is guaranteed. *)
LEMMA NothingDiscarded ==
    ASSUME FInv, Splits, NEW i \in Frags, Arrive(i)
    PROVE  ~Discarded(i)
<1>1. TInv /\ Messages
  BY DEF FInv, SInv
<1>2. where[i] = "flying" /\ InTurn(i)
  BY DEF Arrive
<1>3. Discarded(i) => Clean(frags[i].on)
  BY <1>1, UpIsClean DEF Discarded
<1> QED BY <1>2, <1>3, HeadFound DEF Discarded

LEMMA SplitsArrive ==
    ASSUME FInv, Splits, NEW i \in Frags, Arrive(i)
    PROVE  Splits'
<1> DEFINE s == frags[i].on
           w == frags[i].urgent
<1>0. TInv /\ Messages
  BY DEF FInv, SInv
<1>1. /\ where[i] = "flying"
      /\ \A j \in Frags : where'[j] = IF j = i THEN "arrived" ELSE where[j]
      /\ frags' = frags /\ Frags' = Frags /\ torn' = torn
      /\ Collected(i) \/ Completes(i)
  BY <1>0, ArriveFacts, NothingDiscarded DEF cancelVars
<1>a. where[i] = "flying" /\ InTurn(i)
  BY DEF Arrive
<1>2. /\ s \in Streams /\ w \in BOOLEAN /\ i \in Nat /\ frags[i].part \in BOOLEAN
      /\ split \in [Streams -> [BOOLEAN -> Seq(1 .. N)]]
  BY <1>0, FragmentIn DEF TInv, TypeOK
<1>3. ASSUME NEW j \in Frags, j # i
      PROVE  Open(j)' <=> Open(j) /\ j + 1 # i
  <2>1. j + 1 = i => ~(Open(j)')
    BY <1>1 DEF Open, Arrived
  <2>2. j + 1 # i => (Open(j)' <=> Open(j))
    BY <1>1, <1>3 DEF Open, Arrived
  <2> QED BY <2>1, <2>2
<1>4. ASSUME NEW j \in Frags, Open(j), j + 1 = i
      PROVE  frags[j].on = s /\ frags[j].urgent = w /\ frags[i].part
  <2>1. frags[i].msg = frags[j].msg
    BY <1>0, <1>4 DEF Messages, Follows, Open, Closes
  <2> QED BY <1>0, <1>4, <2>1 DEF Messages, Heads, Open
<1>5. ~Open(i)
  BY <1>1 DEF Open, Arrived
<1>6. SUFFICES ASSUME NEW q \in Streams, NEW u \in BOOLEAN, Clean(q)
               PROVE  /\ \A j \in Frags : frags[j].on = q /\ frags[j].urgent = u /\ Open(j)' =>
                            Run(split'[q][u], frags[j].msg, j)
                      /\ split'[q][u] # <<>> =>
                            \E j \in Frags : frags[j].on = q /\ frags[j].urgent = u /\ Open(j)'
  <2>1. \A q \in Streams : Clean(q)' => Clean(q)
    BY <1>1 DEF Clean
  <2>2. \A j \in Frags : frags[j].urgent \in BOOLEAN
    BY <1>0, FragmentIn
  <2> QED BY <1>1, <2>1, <2>2 DEF Splits
<1>7. /\ \A j \in Frags : frags[j].on = q /\ frags[j].urgent = u /\ Open(j) =>
            Run(split[q][u], frags[j].msg, j)
      /\ split[q][u] # <<>> => \E j \in Frags : frags[j].on = q /\ frags[j].urgent = u /\ Open(j)
  BY <1>6 DEF Splits
<1>8. CASE q # s \/ u # w \/ ~frags[i].part
  <2>1. split'[q][u] = split[q][u]
    <3>1. CASE Collected(i)
      BY <1>2, <1>8, <3>1 DEF Collected
    <3>2. CASE Completes(i)
      BY <1>2, <1>8, <3>2 DEF Completes
    <3> QED BY <1>1, <3>1, <3>2
  <2>2. ASSUME NEW j \in Frags, frags[j].on = q, frags[j].urgent = u
        PROVE  Open(j)' <=> Open(j)
    <3>1. CASE j # i
      BY <1>3, <1>4, <1>8, <2>2, <3>1
    <3>2. CASE j = i
      <4>1. ~frags[i].part
        BY <1>8, <2>2, <3>2
      <4> QED BY <1>1, <1>5, <3>2, <4>1 DEF Open
    <3> QED BY <3>1, <3>2
  <2> QED BY <1>7, <2>1, <2>2
<1>9. CASE q = s /\ u = w /\ frags[i].part
  <2>1. ASSUME NEW j \in Frags, frags[j].on = q, frags[j].urgent = u, Open(j)'
        PROVE  j = i
    <3>1. SUFFICES ASSUME j # i PROVE FALSE
      OBVIOUS
    <3>2. Open(j) /\ j + 1 # i
      BY <1>3, <2>1, <3>1
    <3> QED BY <1>a, <1>6, <1>9, <2>1, <3>2, ArriveOpen
  <2>2. CASE Collected(i)
    <3>1. split'[q][u] = Brought(i) /\ ~frags[i].closing
      BY <1>2, <1>9, <2>2 DEF Collected, Brought
    <3>2. Run(split'[q][u], frags[i].msg, i)
      BY <1>6, <1>9, <3>1, BroughtRun
    <3>3. i + 1 \in Frags => where'[i + 1] # "arrived"
      <4>1. SUFFICES ASSUME NEW n \in Frags, n = i + 1 PROVE where'[n] # "arrived"
        OBVIOUS
      <4>2. ~Arrived(n)
        BY <1>a, <1>6, <1>9, <3>1, <4>1, ArriveOpen
      <4>3. n # i
        BY <1>2, <4>1
      <4> QED BY <1>1, <4>2, <4>3 DEF Arrived
    <3>4. Open(i)'
      BY <1>1, <1>9, <3>1, <3>3 DEF Open, Arrived
    <3> QED BY <1>9, <2>1, <3>2, <3>4
  <2>3. CASE Completes(i)
    <3>1. split'[q][u] = <<>> /\ frags[i].closing
      BY <1>2, <1>9, <2>3 DEF Completes
    <3>2. ~(Open(i)')
      BY <1>1, <3>1 DEF Open
    <3> QED BY <2>1, <3>1, <3>2
  <2> QED BY <1>1, <2>2, <2>3
<1> QED BY <1>8, <1>9

LEMMA SplitsNext ==
    ASSUME FInv, Splits, [Next]_vars
    PROVE  Splits'
<1>0. TInv
  BY DEF FInv, SInv
<1>1. ASSUME NEW s \in Streams, NEW class \in Classes, NEW msg \in 1 .. Len(frags) + 1,
             NEW part \in BOOLEAN, NEW left \in 0 .. N, Dispatch(s, class, msg, part, left)
      PROVE  Splits'
  <2>1. /\ Frags' = Frags \cup {Len(frags) + 1}
        /\ \A i \in Frags : frags'[i] = frags[i] /\ where'[i] = where[i]
        /\ where'[Len(frags) + 1] = "queued"
        /\ split' = split /\ torn' = torn
    BY <1>0, <1>1, DispatchFacts DEF receiverVars, cancelVars
  <2>2. \A i \in Frags' \ Frags : where'[i] # "arrived"
    BY <2>1
  <2> QED BY <2>1, <2>2, SplitsSame
<1>2. ASSUME NEW r \in Requests, SendMsg(r) PROVE Splits'
  BY <1>0, <1>1, <1>2, SendMsgFacts
<1>3. ASSUME NEW s \in Streams, SendNext(s) PROVE Splits'
  BY <1>0, <1>1, <1>3, SendNextFacts
<1>4. ASSUME NEW i \in Frags, Leave(i) PROVE Splits'
  <2>1. /\ frags' = frags /\ Frags' = Frags /\ split' = split /\ torn' = torn
        /\ \A j \in Frags : where'[j] = "arrived" <=> where[j] = "arrived"
    BY <1>0, <1>4, LeaveFacts DEF senderVars, receiverVars, cancelVars, Frags
  <2> QED BY <2>1, SplitsSame
<1>5. ASSUME NEW i \in Frags, Lose(i) PROVE Splits'
  <2>1. where' = [where EXCEPT ![i] = "lost"] /\ "lost" \in Places /\ where[i] # "arrived"
    BY <1>5 DEF Lose, Places
  <2>2. \A j \in Frags : where'[j] = "arrived" <=> where[j] = "arrived"
    BY <1>0, <2>1, WhereFacts
  <2>3. frags' = frags /\ Frags' = Frags /\ split' = split /\ torn' = torn
    BY <1>5 DEF Lose, senderVars, receiverVars, cancelVars, Frags
  <2> QED BY <2>2, <2>3, SplitsSame
<1>6. ASSUME NEW i \in Frags, Arrive(i) PROVE Splits'
  BY <1>6, SplitsArrive
<1>7. ASSUME NEW e \in Ends, ProcessUserMessages(e) PROVE Splits'
  <2>1. frags' = frags /\ Frags' = Frags /\ split' = split /\ torn' = torn /\ where' = where
    BY <1>7 DEF ProcessUserMessages, senderVars, channelVars, cancelVars, Frags
  <2> QED BY <2>1, SplitsSame
<1>8. ASSUME CancelAllMessages PROVE Splits'
  <2>1. /\ frags' = frags /\ Frags' = Frags /\ split' = split /\ torn \subseteq torn'
        /\ \A j \in Frags : where'[j] = "arrived" <=> where[j] = "arrived"
    BY <1>0, <1>8, CancelFacts DEF receiverVars, Frags
  <2> QED BY <2>1, SplitsSame
<1>9. ASSUME UNCHANGED vars PROVE Splits'
  <2>1. frags' = frags /\ Frags' = Frags /\ split' = split /\ torn' = torn /\ where' = where
    BY <1>9 DEF vars, senderVars, channelVars, receiverVars, cancelVars, Frags
  <2> QED BY <2>1, SplitsSame
<1> QED BY <1>2, <1>3, <1>4, <1>5, <1>6, <1>7, <1>8, <1>9 DEF Next

LEMMA SplitsInit ==
    ASSUME Init
    PROVE  Splits
<1>1. Frags = {} /\ split = [s \in Streams |-> [u \in BOOLEAN |-> <<>>]]
  BY DEF Init, Frags
<1> QED BY <1>1 DEF Splits

-----------------------------------------------------------------------------
(* What is in the lists.                                                   *)

In(x, c) == \E q \in 1 .. Len(c) : c[q] = x

LEMMA InAppend ==
    ASSUME NEW C, NEW c \in Seq(C), NEW i \in C, NEW x
    PROVE  In(x, Append(c, i)) <=> In(x, c) \/ x = i
<1>1. Len(c) \in Nat
  BY LenProperties
<1>2. /\ Len(Append(c, i)) = Len(c) + 1
      /\ \A k \in 1 .. Len(c) : Append(c, i)[k] = c[k]
      /\ Append(c, i)[Len(c) + 1] = i
  BY AppendProperties
<1> DEFINE y == Append(c, i)
           l == Len(c)
<1>3. /\ l \in Nat /\ Len(y) = l + 1
      /\ \A k \in 1 .. l : y[k] = c[k]
      /\ y[l + 1] = i
  BY <1>1, <1>2
<1> HIDE DEF y
<1>4. \A q \in 1 .. Len(y) : q \in 1 .. l \/ q = l + 1
  <2> HIDE DEF l
  <2> QED BY <1>3
<1>5. l + 1 \in 1 .. Len(y) /\ \A q \in 1 .. l : q \in 1 .. Len(y)
  <2> HIDE DEF l
  <2> QED BY <1>3
<1>6. In(x, y) => In(x, c) \/ x = i
  BY <1>3, <1>4 DEF In
<1>7. In(x, c) => In(x, y)
  BY <1>3, <1>5 DEF In
<1>8. x = i => In(x, y)
  BY <1>3, <1>5 DEF In
<1> QED BY <1>6, <1>7, <1>8 DEF y

(* The collected fragments have arrived and were not put into the line.    *)
InSplits ==
    \A s \in Streams, u \in BOOLEAN : \A x \in Frags : In(x, split[s][u]) =>
        /\ Arrived(x) /\ frags[x].on = s /\ frags[x].urgent = u
        /\ frags[x].part /\ ~frags[x].closing
        /\ \A k \in 1 .. LineLen(End(s)) : ~In(x, Line(End(s), k))
(* So have those in the lines, each composite with one that closes a message. *)
InLines ==
    \A e \in Ends : \A k \in 1 .. LineLen(e) :
        /\ \A x \in Frags : In(x, Line(e, k)) => Arrived(x) /\ End(frags[x].on) = e
        /\ Closes(Last(Line(e, k)))
Apart ==
    \A e \in Ends : \A j, k \in 1 .. LineLen(e) :
        j # k => \A x \in Frags : ~(In(x, Line(e, j)) /\ In(x, Line(e, k)))
Present ==
    \A i \in Frags : Arrived(i) /\ Closes(i) =>
        \E k \in 1 .. LineLen(End(frags[i].on)) : Last(Line(End(frags[i].on), k)) = i
(* The list of received messages is in the order of the serials.           *)
Sorted ==
    \A e \in Ends : \A k \in 1 .. Len(received[e]) :
        /\ received[e][k].serial = serialOf[Last(received[e][k].parts)]
        /\ \A j \in 1 .. k : received[e][j].serial <= received[e][k].serial
(* A message is in the line behind the one it is ordered behind.           *)
InLine ==
    \A e \in Ends : \A k \in 1 .. LineLen(e) :
        LET m == frags[Last(Line(e, k))].msg
        IN frags[m].pred # None =>
              \E j \in 1 .. LineLen(e) : j < k /\ Last(Line(e, j)) = frags[m].pred
(* On a clean stream a composite is a message.                             *)
Runs ==
    \A e \in Ends : \A k \in 1 .. LineLen(e) :
        LET l == Last(Line(e, k))
        IN Clean(frags[l].on) => Run(Line(e, k), frags[l].msg, l)

Lines == InLines /\ Apart /\ Present /\ InLine /\ Runs
LInv  == FInv /\ Splits /\ InSplits /\ Sorted /\ Lines

LEMMA LastIn ==
    ASSUME TInv, NEW e \in Ends, NEW k \in 1 .. LineLen(e)
    PROVE  Last(Line(e, k)) \in Frags /\ In(Last(Line(e, k)), Line(e, k))
<1>1. /\ Len(Line(e, k)) \in Nat /\ Len(Line(e, k)) # 0
      /\ Last(Line(e, k)) = Line(e, k)[Len(Line(e, k))] /\ Last(Line(e, k)) \in Frags
  BY LineIn
<1> QED BY <1>1 DEF In

(* A step that leaves the lines alone, and brings in nothing that closes a message. *)
LEMMA LinesStill ==
    ASSUME LInv, Frags \subseteq Frags', \A i \in Frags : frags'[i] = frags[i],
           torn \subseteq torn',
           \A i \in Frags : where[i] = "arrived" => where'[i] = "arrived",
           \A i \in Frags' : where'[i] = "arrived" /\ Closes(i)' => i \in Frags /\ where[i] = "arrived",
           \A e \in Ends : LineLen(e)' = LineLen(e) /\ \A k \in 1 .. LineLen(e) : Line(e, k)' = Line(e, k)
    PROVE  Lines'
<1>0. TInv /\ Lines
  BY DEF LInv, FInv, SInv
<1>1. \A i \in Frags : /\ frags[i].msg \in Frags
                       /\ Closes(i)' <=> Closes(i)
                       /\ frags[i].on \in Streams /\ End(frags[i].on) \in Ends
  BY <1>0, PredsIn, FragmentIn, EndsOf DEF Closes
<1>2. ASSUME NEW e \in Ends, NEW k \in 1 .. LineLen(e)
      PROVE  /\ Last(Line(e, k)) \in Frags
             /\ \A q \in 1 .. Len(Line(e, k)) : Line(e, k)[q] \in Frags
  BY <1>0, LineIn DEF Listed
<1>3. InLines'
  <2>1. SUFFICES ASSUME NEW e \in Ends, NEW k \in 1 .. LineLen(e)
                 PROVE  /\ \A x \in Frags' : In(x, Line(e, k)) => where'[x] = "arrived" /\ End(frags'[x].on) = e
                        /\ Closes(Last(Line(e, k)))
    <3>1. \A e \in Ends : \A k \in 1 .. LineLen(e) : Closes(Last(Line(e, k))) =>
              (frags'[Last(Line(e, k))].part => frags'[Last(Line(e, k))].closing)
      BY <1>1, <1>2 DEF Closes
    <3> QED BY <2>1, <3>1 DEF InLines, Arrived, Closes
  <2>2. \A x \in Frags' : In(x, Line(e, k)) => x \in Frags
    BY <1>2 DEF In
  <2> QED BY <1>0, <2>2 DEF Lines, InLines, Arrived
<1>4. Apart'
  <2>1. \A e \in Ends : \A k \in 1 .. LineLen(e) : \A x \in Frags' : In(x, Line(e, k)) => x \in Frags
    BY <1>2 DEF In
  <2> QED BY <1>0, <2>1 DEF Lines, Apart
<1>5. Present'
  <2>1. ASSUME NEW i \in Frags', where'[i] = "arrived", Closes(i)'
        PROVE  \E k \in 1 .. LineLen(End(frags[i].on))' : Last(Line(End(frags[i].on), k)') = i
    <3>1. i \in Frags /\ where[i] = "arrived" /\ Closes(i) /\ frags'[i] = frags[i]
      BY <1>1, <2>1
    <3>2. PICK e \in Ends : e = End(frags[i].on)
      BY <1>1, <3>1
    <3>3. PICK k \in 1 .. LineLen(e) : Last(Line(e, k)) = i
      BY <1>0, <3>1, <3>2 DEF Lines, Present, Arrived
    <3>4. k \in 1 .. LineLen(e)' /\ Line(e, k)' = Line(e, k)
      BY <3>3
    <3>5. LineLen(End(frags[i].on))' = LineLen(e)' /\ Line(End(frags[i].on), k)' = Line(e, k)'
      BY <3>1, <3>2 DEF LineLen, Line, End
    <3> QED BY <3>3, <3>4, <3>5
  <2> QED BY <2>1 DEF Present, Arrived
<1>6. InLine'
  <2>1. ASSUME NEW e \in Ends, NEW k \in 1 .. LineLen(e),
               frags'[frags'[Last(Line(e, k))].msg].pred # None
        PROVE  \E j \in 1 .. LineLen(e) :
                  j < k /\ Last(Line(e, j)) = frags'[frags'[Last(Line(e, k))].msg].pred
    <3>1. PICK l \in Frags : l = Last(Line(e, k))
      BY <1>2
    <3>2. PICK m \in Frags : m = frags[l].msg
      BY <1>1
    <3>3. frags'[l] = frags[l] /\ frags'[m] = frags[m]
      OBVIOUS
    <3>4. frags[m].pred # None => \E j \in 1 .. LineLen(e) : j < k /\ Last(Line(e, j)) = frags[m].pred
      BY <1>0, <3>1, <3>2 DEF Lines, InLine
    <3> QED BY <2>1, <3>1, <3>2, <3>3, <3>4
  <2> QED BY <2>1 DEF InLine
<1>7. Runs'
  <2>1. ASSUME NEW e \in Ends, NEW k \in 1 .. LineLen(e)
        PROVE  Clean(frags[Last(Line(e, k))].on)' =>
                  Run(Line(e, k), frags'[Last(Line(e, k))].msg, Last(Line(e, k)))
    <3>1. PICK l \in Frags : l = Last(Line(e, k)) /\ l = Last(Line(e, k)')
      BY <1>2
    <3>2. PICK s : s = frags[l].on
      OBVIOUS
    <3>3. Clean(frags[Last(Line(e, k))].on)' => Clean(s)'
      BY <3>1, <3>2 DEF Clean
    <3>4. Clean(s)' => Clean(s)
      BY CleanBefore
    <3>5. Clean(s) => Run(Line(e, k), frags[l].msg, l)
      BY <1>0, <3>1, <3>2 DEF Lines, Runs
    <3> QED BY <3>1, <3>3, <3>4, <3>5
  <2>2. SUFFICES ASSUME NEW e \in Ends, NEW k \in 1 .. LineLen(e)
                 PROVE  Clean(frags[Last(Line(e, k))].on)' =>
                           Run(Line(e, k)', frags'[Last(Line(e, k)')].msg, Last(Line(e, k)'))
    BY DEF Runs
  <2> QED BY <2>1
<1> QED BY <1>3, <1>4, <1>5, <1>6, <1>7 DEF Lines

(* What waits in a list is behind what was handed over.                    *)
LEMMA Waiting ==
    ASSUME TInv, NEW e \in Ends, NEW k \in 1 .. Len(received[e])
    PROVE  \E q \in 1 .. LineLen(e) : q = Len(handed[e]) + k /\ Line(e, q) = received[e][k].parts
<1> DEFINE h == Len(handed[e])
           r == Len(received[e])
<1>1. h \in Nat /\ r \in Nat /\ LineLen(e) = h + r /\ k \in 1 .. r
  BY LineIn DEF LineLen
<1>2. PICK q \in 1 .. LineLen(e) : q = h + k /\ ~(q <= h) /\ q - h = k
  <2> HIDE DEF h, r
  <2> QED BY <1>1
<1>3. Line(e, q) = received[e][k].parts
  BY <1>2 DEF Line
<1> QED BY <1>2, <1>3

LEMMA SplitsIn ==
    ASSUME TInv, NEW s \in Streams, NEW u \in BOOLEAN
    PROVE  /\ split[s][u] \in Seq(1 .. N) /\ Len(split[s][u]) \in Nat
           /\ \A x : In(x, split[s][u]) => x \in Frags
<1>1. split \in [Streams -> [BOOLEAN -> Seq(1 .. N)]]
  BY DEF TInv, TypeOK
<1>2. split[s][u] \in Seq(1 .. N)
  BY <1>1
<1>3. Listed(split[s][u])
  BY DEF TInv, Lists
<1> QED BY <1>2, <1>3, LenProperties DEF Listed, In

LEMMA InSplitsStill ==
    ASSUME TInv, InSplits, Frags \subseteq Frags', \A i \in Frags : frags'[i] = frags[i],
           \A i \in Frags : where[i] = "arrived" => where'[i] = "arrived",
           split' = split,
           \A e \in Ends : LineLen(e)' = LineLen(e) /\ \A k \in 1 .. LineLen(e) : Line(e, k)' = Line(e, k)
    PROVE  InSplits'
<1>1. SUFFICES ASSUME NEW s \in Streams, NEW u \in BOOLEAN, NEW x \in Frags', In(x, split[s][u])
               PROVE  /\ where'[x] = "arrived" /\ frags'[x].on = s /\ frags'[x].urgent = u
                      /\ frags'[x].part /\ ~frags'[x].closing
                      /\ \A k \in 1 .. LineLen(End(s))' : ~In(x, Line(End(s), k)')
  BY DEF InSplits, Arrived
<1>2. x \in Frags
  BY <1>1, SplitsIn
<1>3. End(s) \in Ends
  BY EndsOf
<1>4. /\ where[x] = "arrived" /\ frags[x].on = s /\ frags[x].urgent = u
      /\ frags[x].part /\ ~frags[x].closing
      /\ \A k \in 1 .. LineLen(End(s)) : ~In(x, Line(End(s), k))
  BY <1>1, <1>2 DEF InSplits, Arrived
<1>5. PICK e \in Ends : e = End(s)
  BY <1>3
<1>6. LineLen(e)' = LineLen(e) /\ \A k \in 1 .. LineLen(e) : Line(e, k)' = Line(e, k)
  BY <1>5
<1>7. \A k \in 1 .. LineLen(e)' : ~In(x, Line(e, k)')
  BY <1>4, <1>5, <1>6
<1>8. LineLen(End(s))' = LineLen(e)' /\ \A k : Line(End(s), k)' = Line(e, k)'
  BY <1>5 DEF LineLen, Line
<1> QED BY <1>2, <1>4, <1>7, <1>8

(* What has arrived keeps its serial.                                      *)
LEMMA SortedStill ==
    ASSUME TInv, InLines, Sorted, received' = received,
           \A i \in Frags : where[i] = "arrived" => serialOf'[i] = serialOf[i]
    PROVE  Sorted'
<1>1. ASSUME NEW e \in Ends, NEW k \in 1 .. Len(received[e])
      PROVE  serialOf'[Last(received[e][k].parts)] = serialOf[Last(received[e][k].parts)]
  <2>1. PICK q \in 1 .. LineLen(e) : Line(e, q) = received[e][k].parts
    BY <1>1, Waiting
  <2>2. Last(Line(e, q)) \in Frags /\ Arrived(Last(Line(e, q)))
    BY LastIn DEF InLines
  <2> QED BY <2>1, <2>2 DEF Arrived
<1> QED BY <1>1 DEF Sorted

LEMMA SortedProcess ==
    ASSUME TInv, Sorted, NEW e \in Ends, ProcessUserMessages(e)
    PROVE  Sorted'
<1>1. /\ Len(received[e]) # 0 /\ Len(received[e]) \in Nat
      /\ \A d \in Ends : d # e => received'[d] = received[d]
      /\ Len(received'[e]) = Len(received[e]) - 1
      /\ \A k \in 1 .. Len(received[e]) - 1 : received'[e][k] = received[e][k + 1]
  BY ProcessFacts
<1>2. serialOf' = serialOf
  BY DEF ProcessUserMessages, channelVars
<1>3. SUFFICES ASSUME NEW d \in Ends, NEW k \in 1 .. Len(received'[d])
               PROVE  /\ received'[d][k].serial = serialOf[Last(received'[d][k].parts)]
                      /\ \A j \in 1 .. k : received'[d][j].serial <= received'[d][k].serial
  BY <1>2 DEF Sorted
<1>4. CASE d # e
  BY <1>1, <1>4 DEF Sorted
<1>5. CASE d = e
  <2> DEFINE r == Len(received[e])
  <2>1. PICK p \in 1 .. r : p = k + 1 /\ k \in 1 .. r - 1
    <3>1. r \in Nat \ {0} /\ k \in 1 .. r - 1
      BY <1>1, <1>5
    <3> HIDE DEF r
    <3> QED BY <3>1
  <2>2. received'[e][k] = received[e][p]
    BY <1>1, <2>1
  <2>3. /\ received[e][p].serial = serialOf[Last(received[e][p].parts)]
        /\ \A j \in 1 .. p : received[e][j].serial <= received[e][p].serial
    BY DEF Sorted
  <2>4. ASSUME NEW j \in 1 .. k PROVE received'[e][j].serial <= received'[e][k].serial
    <3>1. j \in 1 .. r - 1 /\ j + 1 \in 1 .. p
      <4>1. r \in Nat
        BY <1>1
      <4> HIDE DEF r
      <4> QED BY <2>1, <4>1
    <3>2. received'[e][j] = received[e][j + 1]
      BY <1>1, <3>1
    <3> QED BY <2>2, <2>3, <3>1, <3>2
  <2> QED BY <1>5, <2>2, <2>3, <2>4
<1> QED BY <1>4, <1>5

-----------------------------------------------------------------------------
(* A fragment is collected.                                                *)

LEMMA LinesCollected ==
    ASSUME LInv, NEW i \in Frags, Arrive(i), Collected(i)
    PROVE  InSplits' /\ Sorted' /\ Lines'
<1> DEFINE s == frags[i].on
           w == frags[i].urgent
<1>0. TInv /\ InSplits /\ Sorted /\ Lines /\ InLines
  BY DEF LInv, FInv, SInv, Lines
<1>1. /\ where[i] = "flying"
      /\ \A j \in Frags : where'[j] = IF j = i THEN "arrived" ELSE where[j]
      /\ frags' = frags /\ Frags' = Frags /\ torn' = torn
      /\ serialOf' = serialOf /\ handed' = handed
  BY <1>0, ArriveFacts DEF cancelVars
<1>2. /\ frags[i].part /\ ~frags[i].closing /\ received' = received
      /\ split' = [split EXCEPT ![s][w] = Append(@, i)]
  BY DEF Collected
<1>3. s \in Streams /\ w \in BOOLEAN /\ i \in 1 .. N
  BY <1>0, FragmentIn, TypesIn DEF TInv, Sizes
<1>4. \A e \in Ends : LineLen(e)' = LineLen(e) /\ \A k : Line(e, k)' = Line(e, k)
  BY <1>1, <1>2 DEF LineLen, Line
<1>5. Lines'
  <2>1. \A j \in Frags' : where'[j] = "arrived" /\ Closes(j)' => j \in Frags /\ where[j] = "arrived"
    BY <1>1, <1>2 DEF Closes
  <2>2. \A j \in Frags : where[j] = "arrived" => where'[j] = "arrived"
    BY <1>1
  <2> QED BY <1>1, <1>4, <2>1, <2>2, LinesStill
<1>6. Sorted'
  BY <1>0, <1>1, <1>2, SortedStill
<1>7. InSplits'
  <2>1. SUFFICES ASSUME NEW q \in Streams, NEW u \in BOOLEAN, NEW x \in Frags, In(x, split'[q][u])
                 PROVE  /\ where'[x] = "arrived" /\ frags[x].on = q /\ frags[x].urgent = u
                        /\ frags[x].part /\ ~frags[x].closing
                        /\ \A k \in 1 .. LineLen(End(q)) : ~In(x, Line(End(q), k))
    <3>1. \A q \in Streams : LineLen(End(q))' = LineLen(End(q)) /\ \A k : Line(End(q), k)' = Line(End(q), k)
      <4>1. ASSUME NEW q \in Streams
            PROVE  LineLen(End(q))' = LineLen(End(q)) /\ \A k : Line(End(q), k)' = Line(End(q), k)
        BY <1>1, <1>2 DEF LineLen, Line
      <4> QED BY <4>1
    <3> QED BY <1>1, <2>1, <3>1 DEF InSplits, Arrived
  <2>2. CASE In(x, split[q][u])
    BY <1>0, <1>1, <2>2 DEF InSplits, Arrived
  <2>3. CASE ~In(x, split[q][u])
    <3>1. q = s /\ u = w /\ x = i
      <4>1. split \in [Streams -> [BOOLEAN -> Seq(1 .. N)]]
        BY <1>0 DEF TInv, TypeOK
      <4>2. CASE q = s /\ u = w
        <5>1. split'[q][u] = Append(split[s][w], i) /\ split[s][w] \in Seq(1 .. N)
          BY <1>2, <1>3, <4>1, <4>2
        <5>2. In(x, Append(split[s][w], i))
          BY <2>1, <5>1
        <5> QED BY <1>3, <2>3, <4>2, <5>1, <5>2, InAppend
      <4>3. CASE ~(q = s /\ u = w)
        <5>1. split'[q][u] = split[q][u]
          BY <1>2, <1>3, <4>1, <4>3
        <5> QED BY <2>1, <2>3, <5>1
      <4> QED BY <4>2, <4>3
    <3>2. ASSUME NEW k \in 1 .. LineLen(End(q)) PROVE ~In(x, Line(End(q), k))
      <4>1. End(q) \in Ends
        BY EndsOf
      <4> QED BY <1>0, <1>1, <3>1, <4>1 DEF InLines, Arrived
    <3> QED BY <1>1, <1>2, <3>1, <3>2
  <2> QED BY <2>2, <2>3
<1> QED BY <1>5, <1>6, <1>7

-----------------------------------------------------------------------------
(* A message is completed: the line of its end grows.                      *)

(* What a line that grew holds.                                            *)
LEMMA GrownIn ==
    ASSUME TInv, NEW e \in Ends, NEW p, NEW c, Grown(e, p, c)
    PROVE  /\ LineLen(e) \in Nat /\ LineLen(e)' = LineLen(e) + 1 /\ p \in 1 .. LineLen(e)'
           /\ Line(e, p)' = c
           /\ \A k \in 1 .. LineLen(e)' : k # p =>
                 \E j \in 1 .. LineLen(e) : j = (IF k < p THEN k ELSE k - 1) /\ Line(e, k)' = Line(e, j)
           /\ \A j \in 1 .. LineLen(e) :
                 \E k \in 1 .. LineLen(e)' : k = (IF j < p THEN j ELSE j + 1) /\ Line(e, k)' = Line(e, j)
  BY LineIn DEF Grown

(* What a fragment completes has not been in the line.                     *)
LEMMA BroughtNew ==
    ASSUME LInv, NEW i \in Frags, Arrive(i), Completes(i), NEW x \in Frags, In(x, Brought(i))
    PROVE  /\ where'[x] = "arrived" /\ frags[x].on = frags[i].on
           /\ \A k \in 1 .. LineLen(End(frags[i].on)) : ~In(x, Line(End(frags[i].on), k))
<1> DEFINE s == frags[i].on
           w == frags[i].urgent
<1>0. TInv /\ InSplits /\ InLines
  BY DEF LInv, FInv, SInv, Lines
<1>1. /\ where[i] = "flying"
      /\ \A j \in Frags : where'[j] = IF j = i THEN "arrived" ELSE where[j]
  BY <1>0, ArriveFacts
<1>2. s \in Streams /\ w \in BOOLEAN /\ i \in 1 .. N /\ End(s) \in Ends
  BY <1>0, FragmentIn, TypesIn, EndsOf DEF TInv, Sizes
<1>3. CASE x = i
  <2>1. ~Arrived(i)
    BY <1>1 DEF Arrived
  <2> QED BY <1>0, <1>1, <1>2, <1>3, <2>1 DEF InLines
<1>4. CASE x # i
  <2>1. frags[i].part
    <3>1. SUFFICES ASSUME ~frags[i].part PROVE FALSE
      OBVIOUS
    <3>2. Brought(i) = <<i>>
      BY <3>1 DEF Brought
    <3> QED BY <1>4, <3>2 DEF In
  <2>2. PICK c \in Seq(1 .. N) : c = split[s][w]
    BY <1>0, <1>2, SplitsIn
  <2>3. In(x, Append(c, i))
    BY <2>1, <2>2 DEF Brought
  <2>c. In(x, c)
    BY <1>2, <1>4, <2>3, InAppend
  <2>4. In(x, split[s][w])
    BY <2>2, <2>c
  <2> QED BY <1>0, <1>1, <1>2, <2>4 DEF InSplits, Arrived
<1> QED BY <1>3, <1>4

(* The place of a message is behind that of the one it is ordered behind.  *)
LEMMA PlaceBehind ==
    ASSUME LInv, NEW i \in Frags, Arrive(i), frags[frags[i].msg].pred # None,
           NEW e \in Ends, e = End(frags[i].on), NEW n \in 0 .. Len(received[e]),
           Entered(received[e], received'[e], Brought(i), n)
    PROVE  \E k \in 1 .. LineLen(e) : /\ k < Len(handed[e]) + n + 1
                                      /\ Last(Line(e, k)) = frags[frags[i].msg].pred
<1> DEFINE h  == Len(handed[e])
           r  == Len(received[e])
           m  == frags[i].msg
           pm == frags[m].pred
<1>0. /\ TInv /\ Chains /\ Messages /\ Flow /\ Present /\ Sorted
      /\ Arrivals'
  <2>1. FInv /\ Next
    BY DEF LInv, Next
  <2> QED BY <2>1, FlowNext DEF LInv, FInv, SInv, Lines, Flow
<1>1. /\ where[i] = "flying" /\ Frags' = Frags /\ frags' = frags
      /\ \A j \in Frags : where'[j] = IF j = i THEN "arrived" ELSE where[j]
      /\ serialOf[i] \in 1 .. N
  BY <1>0, ArriveFacts
<1>2. /\ m \in Frags /\ m <= i /\ pm \in Frags /\ pm < m /\ pm # i
      /\ pm \in Nat /\ m \in Nat /\ i \in Nat /\ pm < i
  <2>1. m \in Frags /\ m <= i /\ pm \in Frags /\ pm < m
    BY <1>0, PredsIn
  <2>2. pm \in Nat /\ m \in Nat /\ i \in Nat
    BY <1>0, <2>1, FragmentIn
  <2>3. pm < i
    <3> HIDE DEF pm, m
    <3> QED BY <2>1, <2>2
  <2>4. pm # i
    <3> HIDE DEF pm, m
    <3> QED BY <2>2, <2>3
  <2> QED BY <2>1, <2>2, <2>3, <2>4
<1>3. /\ frags[m].msg = m /\ frags[m].on = frags[i].on /\ frags[m].kind = frags[i].kind
      /\ frags[m].urgent = frags[i].urgent /\ frags[m].kind # "common"
      /\ frags[pm].on = frags[m].on /\ frags[pm].kind = frags[m].kind
  BY <1>0, <1>2 DEF Messages, Heads, Classed, Chains
<1>4. Closes(pm)
  BY <1>0, <1>2, <1>3 DEF Messages, Starts
<1>5. Arrived(pm)
  <2>1. where'[m] = "arrived"
    BY <1>0, <1>1, <1>3 DEF Arrivals, Arrived
  <2>2. where'[pm] = "arrived"
    BY <1>0, <1>1, <1>2, <2>1 DEF Arrivals, Arrived
  <2> QED BY <1>1, <1>2, <2>2 DEF Arrived
<1>6. PICK k \in 1 .. LineLen(e) : Last(Line(e, k)) = pm
  <2>1. End(frags[pm].on) = e
    BY <1>3
  <2> QED BY <1>0, <1>2, <1>4, <1>5, <2>1 DEF Present
<1>7. SameQueue(pm, i)
  BY <1>0, <1>2, <1>3 DEF SameQueue, Messages, Classed
<1>8. serialOf[pm] \in 1 .. N /\ N \in Nat
  <2>1. N \in Nat
    BY <1>0, TypesIn
  <2>2. \A j \in Frags : where[j] = "arrived" => serialOf[j] # None
    BY <1>0 DEF TInv, Serials
  <2>3. \A j \in Frags : serialOf[j] \in 0 .. N
    BY <1>0, TypesIn
  <2> HIDE DEF pm
  <2> QED BY <1>2, <1>5, <2>1, <2>2, <2>3 DEF Arrived
<1>9. serialOf[pm] < serialOf[i]
  <2>1. serialOf[pm] # None /\ serialOf[i] # None
    BY <1>1, <1>8
  <2> QED BY <1>0, <1>2, <1>7, <2>1 DEF Flow, QueueOrder
<1>10. h \in Nat /\ r \in Nat /\ LineLen(e) = h + r /\ k \in 1 .. h + r /\ n \in 0 .. r
  BY <1>0, LineIn DEF LineLen
<1>11. k < h + n + 1
  <2>1. SUFFICES ASSUME ~(k < h + n + 1) PROVE FALSE
    OBVIOUS
  <2> HIDE DEF pm, m
  <2>2. PICK q : q = k - h
    OBVIOUS
  <2>3. q \in n + 1 .. r /\ q \in 1 .. r /\ k = h + q /\ n + 1 \in 1 .. q /\ n + 1 <= r
    <3> HIDE DEF h, r
    <3> QED BY <1>10, <2>1, <2>2
  <2>4. received[e][q].parts = Line(e, k)
    <3>1. ~(k <= h)
      <4> HIDE DEF h, r
      <4> QED BY <1>10, <2>3
    <3> QED BY <2>2, <3>1 DEF Line
  <2>5. /\ received[e][q].serial = serialOf[pm]
        /\ received[e][n + 1].serial <= received[e][q].serial
    BY <1>0, <1>6, <2>3, <2>4 DEF Sorted
  <2>6. Last(Brought(i)) = i
    BY <1>0, BroughtFacts
  <2>7. serialOf[i] <= received[e][n + 1].serial
    BY <2>3, <2>6 DEF Entered
  <2>8. received[e][n + 1].serial \in Nat
    <3>1. received[e] \in Seq(Received)
      BY <1>0, TypesIn
    <3>2. received[e][n + 1] \in Received
      BY <2>3, <3>1, ElementOfSeq
    <3> QED BY <1>8, <3>2 DEF Received
  <2>9. serialOf[i] \in Nat
    BY <1>1, <1>8
  <2> QED BY <1>8, <1>9, <2>5, <2>7, <2>8, <2>9
<1> QED BY <1>6, <1>11

LEMMA SortedEntered ==
    ASSUME TInv, Sorted, NEW e \in Ends, NEW c \in Seq(1 .. N), NEW n \in 0 .. Len(received[e]),
           Entered(received[e], received'[e], c, n), serialOf[Last(c)] \in 1 .. N,
           \A d \in Ends : d # e => received'[d] = received[d], serialOf' = serialOf
    PROVE  Sorted'
<1> DEFINE list == received[e]
           new  == received'[e]
           r    == Len(list)
           v    == serialOf[Last(c)]
<1>1. /\ r \in Nat /\ N \in Nat /\ n \in 0 .. r /\ v \in 1 .. N /\ Len(new) = r + 1
      /\ \A k \in 1 .. n : new[k] = list[k]
      /\ new[n + 1].parts = c /\ new[n + 1].serial = v
      /\ \A k \in n + 1 .. r : new[k + 1] = list[k]
      /\ \A k \in 1 .. n : list[k].serial <= v
      /\ n + 1 <= r => v <= list[n + 1].serial
  BY TypesIn, LineIn DEF Entered
<1>2. \A k \in 1 .. r : /\ list[k].serial = serialOf[Last(list[k].parts)]
                        /\ \A j \in 1 .. k : list[j].serial <= list[k].serial
                        /\ list[k].serial \in Nat
  <2>1. received[e] \in Seq(Received)
    BY TypesIn
  <2>2. \A k \in 1 .. r : list[k] \in Received
    BY <2>1, ElementOfSeq
  <2> QED BY <1>1, <2>2 DEF Sorted, Received
<1> HIDE DEF list, new, r
<1>3. \A k \in n + 1 .. r : v <= list[k].serial
  <2>1. ASSUME NEW k \in n + 1 .. r PROVE v <= list[k].serial
    <3>1. k \in 1 .. r /\ n + 1 \in 1 .. k /\ n + 1 \in 1 .. r /\ n + 1 <= r
      BY <1>1
    <3>2. v <= list[n + 1].serial /\ list[n + 1].serial <= list[k].serial
      BY <1>1, <1>2, <3>1
    <3>3. v \in Nat /\ list[n + 1].serial \in Nat /\ list[k].serial \in Nat
      BY <1>1, <1>2, <3>1
    <3> HIDE DEF v
    <3> QED BY <3>2, <3>3
  <2> QED BY <2>1
<1> DEFINE Old(k, q) == q \in 1 .. r /\ new[k] = list[q] /\ ((k <= n /\ q = k) \/ (k > n + 1 /\ q = k - 1))
<1>4. ASSUME NEW k \in 1 .. r + 1, k # n + 1 PROVE \E q \in 1 .. r : Old(k, q)
  <2>1. CASE k <= n
    <3>1. k \in 1 .. r /\ k \in 1 .. n
      BY <1>1, <2>1
    <3>2. new[k] = list[k]
      BY <1>1, <3>1
    <3> WITNESS k \in 1 .. r
    <3> QED BY <2>1, <3>1, <3>2
  <2>2. CASE ~(k <= n)
    <3>1. PICK q : q = k - 1
      OBVIOUS
    <3>2. q \in n + 1 .. r /\ k = q + 1 /\ k > n + 1 /\ q \in 1 .. r
      <4>1. r \in Nat /\ n \in 0 .. r
        BY <1>1
      <4> QED BY <1>4, <2>2, <3>1, <4>1
    <3>3. new[q + 1] = list[q]
      BY <1>1, <3>2
    <3> WITNESS q \in 1 .. r
    <3> QED BY <3>1, <3>2, <3>3
  <2> QED BY <2>1, <2>2
<1>5. ASSUME NEW k \in 1 .. r + 1
      PROVE  /\ new[k].serial = serialOf[Last(new[k].parts)]
             /\ \A j \in 1 .. k : new[j].serial <= new[k].serial
  <2>1. CASE k = n + 1
    <3>1. ASSUME NEW j \in 1 .. k PROVE new[j].serial <= v
      <4>1. CASE j = k
        <5>1. v \in Nat /\ v <= v
          BY <1>1
        <5> QED BY <1>1, <2>1, <4>1, <5>1
      <4>2. CASE j # k
        <5>1. j \in 1 .. n
          BY <1>1, <2>1, <4>2
        <5> QED BY <1>1, <5>1
      <4> QED BY <4>1, <4>2
    <3> QED BY <1>1, <2>1, <3>1
  <2>2. CASE k # n + 1
    <3>1. PICK q \in 1 .. r : Old(k, q)
      BY <1>4, <2>2
    <3>2. ASSUME NEW j \in 1 .. k PROVE new[j].serial <= new[k].serial
      <4>1. CASE j = n + 1
        <5>1. q \in n + 1 .. r
          BY <1>1, <3>1, <4>1
        <5> QED BY <1>1, <1>3, <3>1, <4>1, <5>1
      <4>2. CASE j # n + 1
        <5>1. j \in 1 .. r + 1
          BY <1>1
        <5>2. PICK p \in 1 .. r : Old(j, p)
          BY <1>4, <4>2, <5>1
        <5>3. p \in 1 .. q
          <6>1. p \in 1 .. r /\ q \in 1 .. r /\ r \in Nat /\ j <= k /\ n \in Nat /\ j \in Nat /\ k \in Nat
            BY <1>1, <3>1, <5>1
          <6>2. ((j <= n /\ p = j) \/ (j > n + 1 /\ p = j - 1)) /\ ((k <= n /\ q = k) \/ (k > n + 1 /\ q = k - 1))
            BY <3>1, <5>2
          <6> QED BY <6>1, <6>2
        <5> QED BY <1>2, <3>1, <5>2, <5>3
      <4> QED BY <4>1, <4>2
    <3> QED BY <1>2, <3>1, <3>2
  <2> QED BY <2>1, <2>2
<1>6. /\ \A k \in 1 .. Len(received'[e]) :
            /\ received'[e][k].serial = serialOf[Last(received'[e][k].parts)]
            /\ \A j \in 1 .. k : received'[e][j].serial <= received'[e][k].serial
  BY <1>1, <1>5 DEF new
<1>7. SUFFICES ASSUME NEW d \in Ends, NEW k \in 1 .. Len(received'[d])
               PROVE  /\ received'[d][k].serial = serialOf[Last(received'[d][k].parts)]
                      /\ \A j \in 1 .. k : received'[d][j].serial <= received'[d][k].serial
  BY DEF Sorted
<1>8. CASE d = e
  BY <1>6, <1>8
<1>9. CASE d # e
  BY <1>9 DEF Sorted
<1> QED BY <1>8, <1>9

LEMMA LinesCompleted ==
    ASSUME LInv, NEW i \in Frags, Arrive(i), Completes(i)
    PROVE  InSplits' /\ Sorted' /\ Lines'
<1> DEFINE s == frags[i].on
           w == frags[i].urgent
<1>0. /\ TInv /\ FInv /\ Splits /\ Messages /\ InSplits /\ Sorted /\ Lines
      /\ InLines /\ Apart /\ Present /\ InLine /\ Runs
  BY DEF LInv, FInv, SInv, Lines
<1>1. /\ where[i] = "flying"
      /\ \A j \in Frags : where'[j] = IF j = i THEN "arrived" ELSE where[j]
      /\ frags' = frags /\ Frags' = Frags /\ torn' = torn
      /\ serialOf' = serialOf /\ handed' = handed /\ serialOf[i] \in 1 .. N
  BY <1>0, ArriveFacts DEF cancelVars
<1>2. /\ s \in Streams /\ w \in BOOLEAN /\ frags[i].part \in BOOLEAN
  BY <1>0, FragmentIn
<1>3. /\ frags[i].part => frags[i].closing
      /\ split' = IF frags[i].part THEN [split EXCEPT ![s][w] = <<>>] ELSE split
      /\ \A d \in Ends : d # End(s) => received'[d] = received[d]
      /\ \E n \in 0 .. Len(received[End(s)]) :
            Entered(received[End(s)], received'[End(s)], Brought(i), n)
  BY DEF Completes
<1>4. PICK e \in Ends : e = End(s)
  BY <1>2, EndsOf
<1>5. PICK n \in 0 .. Len(received[e]) : Entered(received[e], received'[e], Brought(i), n)
  BY <1>3, <1>4
<1>6. PICK c : c = Brought(i)
  OBVIOUS
<1>7. /\ c \in Seq(1 .. N) /\ c # <<>> /\ Last(c) = i /\ Len(c) \in Nat /\ Len(c) # 0
      /\ \A x : In(x, c) => x \in Frags
  BY <1>0, <1>6, BroughtFacts DEF Listed, In
<1>8. PICK p : p = Len(handed[e]) + n + 1 /\ Grown(e, p, c)
  <2>1. Entered(received[e], received'[e], c, n)
    BY <1>5, <1>6
  <2>2. handed'[e] = handed[e]
    BY <1>1
  <2> QED BY <1>0, <2>1, <2>2, LineGrown
<1> DEFINE L == LineLen(e)
<1>9. /\ L \in Nat /\ LineLen(e)' = L + 1 /\ p \in 1 .. L + 1 /\ Line(e, p)' = c
      /\ \A k \in 1 .. L + 1 : k # p =>
            \E j \in 1 .. L : j = (IF k < p THEN k ELSE k - 1) /\ Line(e, k)' = Line(e, j)
      /\ \A j \in 1 .. L :
            \E k \in 1 .. L + 1 : k = (IF j < p THEN j ELSE j + 1) /\ Line(e, k)' = Line(e, j)
  BY <1>0, <1>8, GrownIn
<1>10. \A d \in Ends : d # e => LineLen(d)' = LineLen(d) /\ \A k : Line(d, k)' = Line(d, k)
  <2>1. ASSUME NEW d \in Ends, d # e
        PROVE  LineLen(d)' = LineLen(d) /\ \A k : Line(d, k)' = Line(d, k)
    BY <1>1, <1>3, <1>4, <2>1, LineKept
  <2> QED BY <2>1
<1>11. \A x \in Frags : In(x, c) =>
          /\ where'[x] = "arrived" /\ frags[x].on = s
          /\ \A k \in 1 .. L : ~In(x, Line(e, k))
  BY <1>4, <1>6, BroughtNew
<1>12. \A x \in Frags : where[x] = "arrived" => where'[x] = "arrived"
  BY <1>1
<1> HIDE DEF L
<1>13. Sorted'
  BY <1>0, <1>1, <1>3, <1>4, <1>5, <1>6, <1>7, SortedEntered
<1>14. InLines'
  <2>1. SUFFICES ASSUME NEW d \in Ends, NEW k \in 1 .. LineLen(d)'
                 PROVE  /\ \A x \in Frags : In(x, Line(d, k)') => where'[x] = "arrived" /\ End(frags[x].on) = d
                        /\ Closes(Last(Line(d, k)'))
    BY <1>1 DEF InLines, Arrived, Closes
  <2>2. ASSUME NEW j \in 1 .. LineLen(d), Line(d, k)' = Line(d, j)
        PROVE  /\ \A x \in Frags : In(x, Line(d, k)') => where'[x] = "arrived" /\ End(frags[x].on) = d
               /\ Closes(Last(Line(d, k)'))
    BY <1>0, <1>12, <2>2 DEF InLines, Arrived
  <2>3. CASE d # e
    BY <1>10, <2>2, <2>3
  <2>4. CASE d = e /\ k # p
    BY <1>9, <2>2, <2>4 DEF L
  <2>5. CASE d = e /\ k = p
    <3>1. Closes(i)
      BY <1>3 DEF Closes
    <3> QED BY <1>4, <1>7, <1>9, <1>11, <2>5, <3>1
  <2> QED BY <2>3, <2>4, <2>5
<1>15. Apart'
  <2>1. SUFFICES ASSUME NEW d \in Ends, NEW j \in 1 .. LineLen(d)', NEW k \in 1 .. LineLen(d)', j # k,
                        NEW x \in Frags, In(x, Line(d, j)'), In(x, Line(d, k)')
                 PROVE  FALSE
    BY <1>1 DEF Apart
  <2>2. CASE d # e
    BY <1>0, <1>10, <2>1, <2>2 DEF Apart
  <2>3. CASE d = e
    <3>0. j \in 1 .. L + 1 /\ k \in 1 .. L + 1
      BY <1>9, <2>3
    <3>1. CASE j = p
      <4>1. k # p
        BY <2>1, <3>1
      <4> QED BY <1>9, <1>11, <2>1, <2>3, <3>0, <3>1, <4>1
    <3>2. CASE k = p
      <4>1. j # p
        BY <2>1, <3>2
      <4> QED BY <1>9, <1>11, <2>1, <2>3, <3>0, <3>2, <4>1
    <3>3. CASE j # p /\ k # p
      <4>1. PICK a \in 1 .. L : a = (IF j < p THEN j ELSE j - 1) /\ Line(e, j)' = Line(e, a)
        BY <1>9, <3>0, <3>3
      <4>2. PICK b \in 1 .. L : b = (IF k < p THEN k ELSE k - 1) /\ Line(e, k)' = Line(e, b)
        BY <1>9, <3>0, <3>3
      <4>3. a # b
        <5>1. j \in Nat /\ k \in Nat /\ p \in Nat /\ j # k
          BY <1>9, <2>1, <3>0
        <5> QED BY <3>3, <4>1, <4>2, <5>1
      <4> QED BY <1>0, <2>1, <2>3, <4>1, <4>2, <4>3 DEF Apart, L
    <3> QED BY <3>1, <3>2, <3>3
  <2> QED BY <2>2, <2>3
<1>16. Present'
  <2>1. SUFFICES ASSUME NEW x \in Frags, where'[x] = "arrived", Closes(x), NEW d \in Ends, d = End(frags[x].on)
                 PROVE  \E k \in 1 .. LineLen(d)' : Last(Line(d, k)') = x
    <3>1. ASSUME NEW x \in Frags, where'[x] = "arrived", Closes(x)
          PROVE  \E k \in 1 .. LineLen(End(frags[x].on))' : Last(Line(End(frags[x].on), k)') = x
      <4>1. PICK d \in Ends : d = End(frags[x].on)
        BY <1>0, FragmentIn, EndsOf
      <4>2. LineLen(End(frags[x].on))' = LineLen(d)' /\ \A k : Line(End(frags[x].on), k)' = Line(d, k)'
        BY <1>1, <4>1 DEF LineLen, Line, End
      <4> QED BY <2>1, <3>1, <4>1, <4>2
    <3> QED BY <1>1, <3>1 DEF Present, Arrived, Closes
  <2>2. CASE x = i
    BY <1>4, <1>7, <1>9, <2>1, <2>2
  <2>3. CASE x # i
    <3>1. PICK j \in 1 .. LineLen(d) : Last(Line(d, j)) = x
      BY <1>0, <1>1, <2>1, <2>3 DEF Present, Arrived
    <3>2. CASE d = e
      BY <1>9, <3>1, <3>2 DEF L
    <3>3. CASE d # e
      BY <1>10, <3>1, <3>3
    <3> QED BY <3>2, <3>3
  <2> QED BY <2>2, <2>3
<1>17. InLine'
  <2>1. SUFFICES ASSUME NEW d \in Ends, NEW k \in 1 .. LineLen(d)', NEW l \in Frags, l = Last(Line(d, k)'),
                        NEW m \in Frags, m = frags[l].msg, frags[m].pred # None
                 PROVE  \E j \in 1 .. LineLen(d)' : j < k /\ Last(Line(d, j)') = frags[m].pred
    <3>1. ASSUME NEW d \in Ends, NEW k \in 1 .. LineLen(d)'
          PROVE  frags[frags[Last(Line(d, k)')].msg].pred # None =>
                    \E j \in 1 .. LineLen(d)' :
                       j < k /\ Last(Line(d, j)') = frags[frags[Last(Line(d, k)')].msg].pred
      <4>1. PICK l : l = Last(Line(d, k)')
        OBVIOUS
      <4>2. l \in Frags
        <5>1. ASSUME NEW j \in 1 .. LineLen(d), Line(d, k)' = Line(d, j) PROVE l \in Frags
          BY <1>0, <4>1, <5>1, LastIn
        <5>2. CASE d # e
          BY <1>10, <5>1, <5>2
        <5>3. CASE d = e /\ k # p
          BY <1>9, <5>1, <5>3 DEF L
        <5>4. CASE d = e /\ k = p
          BY <1>7, <1>9, <4>1, <5>4
        <5> QED BY <5>2, <5>3, <5>4
      <4>3. frags[l].msg \in Frags
        BY <1>0, <4>2, PredsIn
      <4> QED BY <2>1, <4>1, <4>2, <4>3
    <3> QED BY <1>1, <3>1 DEF InLine
  <2>2. CASE d # e
    BY <1>0, <1>10, <2>1, <2>2 DEF InLine
  <2>3. CASE d = e /\ k = p
    <3>1. l = i /\ m = frags[i].msg
      BY <1>7, <1>9, <2>1, <2>3
    <3>2. PICK j \in 1 .. LineLen(e) : j < Len(handed[e]) + n + 1 /\ Last(Line(e, j)) = frags[m].pred
      BY <1>4, <1>5, <2>1, <3>1, PlaceBehind
    <3>3. j < p
      BY <1>8, <3>2
    <3>4. PICK q \in 1 .. L + 1 : q = (IF j < p THEN j ELSE j + 1) /\ Line(e, q)' = Line(e, j)
      BY <1>9 DEF L
    <3> QED BY <1>9, <2>3, <3>2, <3>3, <3>4
  <2>4. CASE d = e /\ k # p
    <3>1. PICK b \in 1 .. L : b = (IF k < p THEN k ELSE k - 1) /\ Line(e, k)' = Line(e, b)
      BY <1>9, <2>4
    <3>2. PICK a \in 1 .. L : a < b /\ Last(Line(e, a)) = frags[m].pred
      BY <1>0, <2>1, <2>4, <3>1 DEF InLine, L
    <3>3. PICK q \in 1 .. L + 1 : q = (IF a < p THEN a ELSE a + 1) /\ Line(e, q)' = Line(e, a)
      BY <1>9
    <3>4. q < k
      <4>1. a \in Nat /\ b \in Nat /\ k \in Nat /\ p \in Nat
        <5>1. k \in 1 .. L + 1
          BY <1>9, <2>4
        <5> QED BY <1>9, <5>1
      <4> QED BY <2>4, <3>1, <3>2, <3>3, <4>1
    <3> QED BY <1>9, <2>4, <3>2, <3>3, <3>4
  <2> QED BY <2>2, <2>3, <2>4
<1>18. Runs'
  <2>1. \A q \in Streams : Clean(q)' <=> Clean(q)
    BY <1>1 DEF Clean
  <2>2. SUFFICES ASSUME NEW d \in Ends, NEW k \in 1 .. LineLen(d)', NEW l \in Frags, l = Last(Line(d, k)'),
                        Clean(frags[l].on)
                 PROVE  Run(Line(d, k)', frags[l].msg, l)
    <3>1. ASSUME NEW d \in Ends, NEW k \in 1 .. LineLen(d)'
          PROVE  Clean(frags[Last(Line(d, k))].on)' =>
                    Run(Line(d, k)', frags[Last(Line(d, k)')].msg, Last(Line(d, k)'))
      <4>1. PICK l : l = Last(Line(d, k)')
        OBVIOUS
      <4>2. l \in Frags
        <5>1. ASSUME NEW j \in 1 .. LineLen(d), Line(d, k)' = Line(d, j) PROVE l \in Frags
          BY <1>0, <4>1, <5>1, LastIn
        <5>2. CASE d # e
          BY <1>10, <5>1, <5>2
        <5>3. CASE d = e /\ k # p
          BY <1>9, <5>1, <5>3 DEF L
        <5>4. CASE d = e /\ k = p
          BY <1>7, <1>9, <4>1, <5>4
        <5> QED BY <5>2, <5>3, <5>4
      <4>3. Clean(frags[Last(Line(d, k))].on)' => Clean(frags[l].on)
        BY <1>1, <4>1 DEF Clean
      <4> QED BY <2>2, <4>1, <4>2, <4>3
    <3> QED BY <1>1, <3>1 DEF Runs
  <2>3. ASSUME NEW j \in 1 .. LineLen(d), Line(d, k)' = Line(d, j)
        PROVE  Run(Line(d, k)', frags[l].msg, l)
    BY <1>0, <2>2, <2>3 DEF Runs
  <2>4. CASE d # e
    BY <1>10, <2>3, <2>4
  <2>5. CASE d = e /\ k # p
    BY <1>9, <2>3, <2>5 DEF L
  <2>6. CASE d = e /\ k = p
    <3>1. l = i
      BY <1>7, <1>9, <2>2, <2>6
    <3>2. Run(Brought(i), frags[i].msg, i)
      BY <1>0, <2>2, <3>1, BroughtRun
    <3> QED BY <1>6, <1>9, <2>6, <3>1, <3>2
  <2> QED BY <2>4, <2>5, <2>6
<1>19. InSplits'
  <2>1. SUFFICES ASSUME NEW q \in Streams, NEW u \in BOOLEAN, NEW x \in Frags, In(x, split'[q][u])
                 PROVE  /\ where'[x] = "arrived" /\ frags[x].on = q /\ frags[x].urgent = u
                        /\ frags[x].part /\ ~frags[x].closing
                        /\ \A k \in 1 .. LineLen(End(q))' : ~In(x, Line(End(q), k)')
    BY <1>1 DEF InSplits, Arrived
  <2>2. split \in [Streams -> [BOOLEAN -> Seq(1 .. N)]]
    BY <1>0 DEF TInv, TypeOK
  <2>3. split'[q][u] = split[q][u] /\ ~(q = s /\ u = w /\ frags[i].part)
    <3>1. CASE q = s /\ u = w /\ frags[i].part
      <4>1. split'[q][u] = <<>>
        BY <1>2, <1>3, <2>2, <3>1
      <4> QED BY <2>1, <4>1 DEF In
    <3>2. CASE ~(q = s /\ u = w /\ frags[i].part)
      BY <1>2, <1>3, <2>2, <3>2
    <3> QED BY <3>1, <3>2
  <2>4. /\ where[x] = "arrived" /\ frags[x].on = q /\ frags[x].urgent = u
        /\ frags[x].part /\ ~frags[x].closing
        /\ \A k \in 1 .. LineLen(End(q)) : ~In(x, Line(End(q), k))
    BY <1>0, <2>1, <2>3 DEF InSplits, Arrived
  <2>5. ~In(x, c)
    <3>1. x # i
      BY <1>1, <2>4
    <3>2. CASE ~frags[i].part
      <4>1. c = <<i>>
        BY <1>6, <3>2 DEF Brought
      <4> QED BY <3>1, <4>1 DEF In
    <3>3. CASE frags[i].part
      <4>1. PICK y \in Seq(1 .. N) : y = split[s][w]
        BY <1>2, <2>2
      <4>2. c = Append(y, i)
        BY <1>6, <3>3, <4>1 DEF Brought
      <4>3. i \in 1 .. N
        BY <1>0, FragmentIn, TypesIn DEF TInv, Sizes
      <4>4. In(x, y) => q = s /\ u = w
        BY <1>0, <1>2, <2>4, <4>1 DEF InSplits
      <4>5. In(x, c) => In(x, y)
        BY <3>1, <4>2, <4>3, InAppend
      <4> QED BY <2>3, <3>3, <4>4, <4>5
    <3> QED BY <3>2, <3>3
  <2>6. PICK d \in Ends : d = End(q)
    BY EndsOf
  <2>7. \A k \in 1 .. LineLen(d)' : ~In(x, Line(d, k)')
    <3>1. CASE d # e
      BY <1>10, <2>4, <2>6, <3>1
    <3>2. CASE d = e
      <4>1. ASSUME NEW k \in 1 .. L + 1 PROVE ~In(x, Line(e, k)')
        <5>1. CASE k = p
          BY <1>9, <2>5, <5>1
        <5>2. CASE k # p
          BY <1>9, <2>4, <2>6, <3>2, <5>2 DEF L
        <5> QED BY <5>1, <5>2
      <4> QED BY <1>9, <3>2, <4>1
    <3> QED BY <3>1, <3>2
  <2>8. LineLen(End(q))' = LineLen(d)' /\ \A k : Line(End(q), k)' = Line(d, k)'
    BY <2>6 DEF LineLen, Line
  <2> QED BY <1>12, <2>4, <2>7, <2>8
<1> QED BY <1>13, <1>14, <1>15, <1>16, <1>17, <1>18, <1>19 DEF Lines

LEMMA LinesInit ==
    ASSUME Init
    PROVE  LInv
<1>1. /\ Frags = {} /\ split = [s \in Streams |-> [u \in BOOLEAN |-> <<>>]]
      /\ \A e \in Ends : received[e] = <<>> /\ handed[e] = <<>>
  BY DEF Init, Frags
<1>2. \A e \in Ends : Len(received[e]) = 0 /\ LineLen(e) = 0
  <2>1. SUFFICES ASSUME NEW e \in Ends PROVE Len(received[e]) = 0 /\ LineLen(e) = 0
    OBVIOUS
  <2>2. PICK a, b : a = Len(handed[e]) /\ b = Len(received[e])
    OBVIOUS
  <2>3. a = 0 /\ b = 0
    BY <1>1, <2>2
  <2>4. LineLen(e) = a + b
    BY <2>2 DEF LineLen
  <2> QED BY <2>2, <2>3, <2>4
<1>3. InSplits
  BY <1>1 DEF InSplits
<1>4. Sorted /\ InLines /\ Apart /\ InLine /\ Runs
  BY <1>2 DEF Sorted, InLines, Apart, InLine, Runs
<1>5. Present
  BY <1>1 DEF Present
<1> QED BY <1>3, <1>4, <1>5, FlowInit, SplitsInit DEF LInv, Lines

LEMMA LinesNext ==
    ASSUME LInv, [Next]_vars
    PROVE  LInv'
<1>0. FInv /\ Splits /\ TInv /\ InSplits /\ Sorted /\ InLines
  BY DEF LInv, FInv, SInv, Lines
<1>a. FInv' /\ Splits'
  BY <1>0, FlowNext, SplitsNext
<1>b. SUFFICES InSplits' /\ Sorted' /\ Lines'
  BY <1>a DEF LInv
<1>k. ASSUME received' = received, handed' = handed
      PROVE  \A e \in Ends : /\ LineLen(e)' = LineLen(e)
                             /\ \A k \in 1 .. LineLen(e) : Line(e, k)' = Line(e, k)
  BY <1>k DEF LineLen, Line
<1>1. ASSUME NEW s \in Streams, NEW class \in Classes, NEW msg \in 1 .. Len(frags) + 1,
             NEW part \in BOOLEAN, NEW left \in 0 .. N, Dispatch(s, class, msg, part, left)
      PROVE  InSplits' /\ Sorted' /\ Lines'
  <2>1. /\ Frags' = Frags \cup {Len(frags) + 1}
        /\ \A i \in Frags : /\ frags'[i] = frags[i] /\ where'[i] = where[i]
                            /\ serialOf'[i] = serialOf[i]
        /\ where'[Len(frags) + 1] = "queued"
        /\ split' = split /\ received' = received /\ handed' = handed /\ torn' = torn
    BY <1>0, <1>1, DispatchFacts DEF receiverVars, cancelVars
  <2>2. \A i \in Frags' : where'[i] = "arrived" /\ Closes(i)' => i \in Frags /\ where[i] = "arrived"
    BY <2>1
  <2>3. /\ Frags \subseteq Frags' /\ torn \subseteq torn'
        /\ \A i \in Frags : where[i] = "arrived" => where'[i] = "arrived"
    BY <2>1
  <2> QED BY <1>0, <1>k, <2>1, <2>2, <2>3, LinesStill, InSplitsStill, SortedStill
<1>2. ASSUME NEW r \in Requests, SendMsg(r) PROVE InSplits' /\ Sorted' /\ Lines'
  BY <1>0, <1>1, <1>2, SendMsgFacts
<1>3. ASSUME NEW s \in Streams, SendNext(s) PROVE InSplits' /\ Sorted' /\ Lines'
  BY <1>0, <1>1, <1>3, SendNextFacts
(* A step that sends or receives nothing, and hands nothing over.          *)
<1>4. ASSUME frags' = frags, Frags' = Frags, split' = split, received' = received, handed' = handed,
             torn \subseteq torn',
             \A j \in Frags : where'[j] = "arrived" <=> where[j] = "arrived",
             \A j \in Frags : where[j] = "arrived" => serialOf'[j] = serialOf[j]
      PROVE  InSplits' /\ Sorted' /\ Lines'
  BY <1>0, <1>k, <1>4, LinesStill, InSplitsStill, SortedStill
<1>5. ASSUME NEW i \in Frags, Leave(i) PROVE InSplits' /\ Sorted' /\ Lines'
  <2>1. /\ frags' = frags /\ Frags' = Frags /\ split' = split /\ torn' = torn
        /\ received' = received /\ handed' = handed /\ where[i] = "queued"
        /\ \A j \in Frags : where'[j] = "arrived" <=> where[j] = "arrived"
        /\ \A j \in Frags : serialOf'[j] = IF j = i THEN serial[frags[i].on] ELSE serialOf[j]
    BY <1>0, <1>5, LeaveFacts DEF senderVars, receiverVars, cancelVars, Frags
  <2>2. \A j \in Frags : where[j] = "arrived" => serialOf'[j] = serialOf[j]
    BY <2>1
  <2> QED BY <1>4, <2>1, <2>2
<1>6. ASSUME NEW i \in Frags, Lose(i) PROVE InSplits' /\ Sorted' /\ Lines'
  <2>1. where' = [where EXCEPT ![i] = "lost"] /\ "lost" \in Places /\ where[i] # "arrived"
    BY <1>6 DEF Lose, Places
  <2>2. \A j \in Frags : where'[j] = "arrived" <=> where[j] = "arrived"
    BY <1>0, <2>1, WhereFacts
  <2>3. /\ frags' = frags /\ Frags' = Frags /\ split' = split /\ torn' = torn
        /\ received' = received /\ handed' = handed /\ serialOf' = serialOf
    BY <1>6 DEF Lose, senderVars, receiverVars, cancelVars, Frags
  <2> QED BY <1>4, <2>2, <2>3
<1>7. ASSUME NEW i \in Frags, Arrive(i) PROVE InSplits' /\ Sorted' /\ Lines'
  <2>1. Collected(i) \/ Completes(i)
    BY <1>0, <1>7, ArriveFacts, NothingDiscarded
  <2> QED BY <1>7, <2>1, LinesCollected, LinesCompleted
<1>8. ASSUME NEW e \in Ends, ProcessUserMessages(e) PROVE InSplits' /\ Sorted' /\ Lines'
  <2>1. /\ frags' = frags /\ Frags' = Frags /\ split' = split /\ torn' = torn /\ where' = where
        /\ \A j \in Frags : Closes(j)' <=> Closes(j)
    BY <1>8 DEF ProcessUserMessages, senderVars, channelVars, cancelVars, Frags, Closes
  <2>2. \A d \in Ends : /\ LineLen(d)' = LineLen(d)
                        /\ \A k \in 1 .. LineLen(d) : Line(d, k)' = Line(d, k)
    BY <1>0, <1>8, LineProcess
  <2>3. Sorted'
    BY <1>0, <1>8, SortedProcess
  <2> QED BY <1>0, <2>1, <2>2, <2>3, LinesStill, InSplitsStill
<1>9. ASSUME CancelAllMessages PROVE InSplits' /\ Sorted' /\ Lines'
  <2>1. /\ frags' = frags /\ Frags' = Frags /\ split' = split /\ torn \subseteq torn'
        /\ received' = received /\ handed' = handed /\ serialOf' = serialOf
        /\ \A j \in Frags : where'[j] = "arrived" <=> where[j] = "arrived"
    BY <1>0, <1>9, CancelFacts DEF receiverVars, Frags
  <2> QED BY <1>4, <2>1
<1>10. ASSUME UNCHANGED vars PROVE InSplits' /\ Sorted' /\ Lines'
  <2>1. /\ frags' = frags /\ Frags' = Frags /\ split' = split /\ torn \subseteq torn'
        /\ received' = received /\ handed' = handed /\ serialOf' = serialOf /\ where' = where
    BY <1>10 DEF vars, senderVars, channelVars, receiverVars, cancelVars, Frags
  <2> QED BY <1>4, <2>1
<1> QED BY <1>2, <1>3, <1>5, <1>6, <1>7, <1>8, <1>9, <1>10 DEF Next

-----------------------------------------------------------------------------
(* What the game is given.                                                 *)

LEMMA HandedIn ==
    ASSUME TInv, NEW e \in Ends
    PROVE  /\ DOMAIN handed[e] = 1 .. Len(handed[e]) /\ Len(handed[e]) <= LineLen(e)
           /\ \A k \in DOMAIN handed[e] :
                 /\ k \in 1 .. LineLen(e) /\ Line(e, k) = handed[e][k]
                 /\ DOMAIN handed[e][k] = 1 .. Len(handed[e][k])
                 /\ \A x \in ToSet(handed[e][k]) : x \in Frags /\ In(x, Line(e, k))
<1> DEFINE h == Len(handed[e])
           r == Len(received[e])
<1>1. h \in Nat /\ r \in Nat /\ LineLen(e) = h + r /\ DOMAIN handed[e] = 1 .. h
  <2>1. handed[e] \in Seq(Seq(1 .. N))
    BY DEF TInv, TypeOK
  <2> QED BY <2>1, LineIn, LenProperties DEF LineLen
<1>2. h <= LineLen(e)
  <2> HIDE DEF h, r
  <2> QED BY <1>1
<1>3. ASSUME NEW k \in DOMAIN handed[e]
      PROVE  /\ k \in 1 .. LineLen(e) /\ Line(e, k) = handed[e][k]
             /\ DOMAIN handed[e][k] = 1 .. Len(handed[e][k])
             /\ \A x \in ToSet(handed[e][k]) : x \in Frags /\ In(x, Line(e, k))
  <2>1. k \in 1 .. LineLen(e) /\ k <= h
    <3>1. k \in 1 .. h
      BY <1>1
    <3> HIDE DEF h, r
    <3> QED BY <1>1, <3>1
  <2>2. PICK c : c = Line(e, k) /\ c = handed[e][k]
    BY <2>1 DEF Line
  <2>3. c \in Seq(1 .. N) /\ Listed(c)
    BY <2>1, <2>2, LineIn
  <2>4. DOMAIN c = 1 .. Len(c)
    BY <2>3, LenProperties
  <2>5. \A x \in ToSet(c) : x \in Frags /\ In(x, c)
    BY <2>3, <2>4 DEF ToSet, Listed, In
  <2> QED BY <2>1, <2>2, <2>4, <2>5
<1> QED BY <1>1, <1>2, <1>3

LEMMA LinesOrdered == LInv => OrderKept
<1>1. SUFFICES ASSUME LInv, NEW e \in Ends, NEW k \in DOMAIN handed[e],
                      NEW m, m = frags[Last(handed[e][k])].msg
               PROVE  /\ frags[m].pred # None =>
                            \E j \in 1 .. k - 1 : Last(handed[e][j]) = frags[m].pred
                      /\ \A j \in 1 .. k - 1 : ToSet(handed[e][j]) \cap ToSet(handed[e][k]) = {}
  BY DEF OrderKept
<1>2. TInv /\ InLine /\ Apart
  BY <1>1 DEF LInv, FInv, SInv, Lines
<1>3. /\ DOMAIN handed[e] = 1 .. Len(handed[e])
      /\ \A j \in DOMAIN handed[e] :
            /\ j \in 1 .. LineLen(e) /\ Line(e, j) = handed[e][j]
            /\ \A x \in ToSet(handed[e][j]) : x \in Frags /\ In(x, Line(e, j))
  BY <1>2, HandedIn
<1>4. LineLen(e) \in Nat /\ Len(handed[e]) \in Nat
  BY <1>2, LineIn
<1>5. \A j \in 1 .. k - 1 : j \in DOMAIN handed[e] /\ j # k
  BY <1>3, <1>4
<1>6. ASSUME frags[m].pred # None
      PROVE  \E j \in 1 .. k - 1 : Last(handed[e][j]) = frags[m].pred
  <2>1. PICK j \in 1 .. LineLen(e) : j < k /\ Last(Line(e, j)) = frags[m].pred
    BY <1>1, <1>2, <1>3, <1>6 DEF InLine
  <2>2. j \in 1 .. k - 1
    BY <1>3, <1>4, <2>1
  <2> QED BY <1>3, <1>5, <2>1, <2>2
<1>7. ASSUME NEW j \in 1 .. k - 1
      PROVE  ToSet(handed[e][j]) \cap ToSet(handed[e][k]) = {}
  BY <1>2, <1>3, <1>5 DEF Apart
<1> QED BY <1>6, <1>7

(* The server cuts no message that is not guaranteed.                      *)
CutsGuaranteed == \A i \in Frags : frags[i].part => frags[i].kind # "common"

LEMMA LinesWhole == LInv => (CutsGuaranteed => WholeMessages)
<1>1. SUFFICES ASSUME LInv, CutsGuaranteed, NEW e \in Ends, NEW k \in DOMAIN handed[e],
                      frags[Last(handed[e][k])].on \notin torn
               PROVE  Whole(handed[e][k])
  BY DEF WholeMessages
<1>2. TInv /\ Messages /\ Runs
  BY <1>1 DEF LInv, FInv, SInv, Lines
<1>3. /\ k \in 1 .. LineLen(e) /\ Line(e, k) = handed[e][k]
      /\ DOMAIN handed[e][k] = 1 .. Len(handed[e][k])
  BY <1>2, HandedIn
<1>4. PICK c : c = handed[e][k]
  OBVIOUS
<1>5. PICK l \in Frags : l = Last(c) /\ Closes(l)
  BY <1>1, <1>2, <1>3, <1>4, LastIn DEF LInv, Lines, InLines
<1>6. PICK m : m = frags[l].msg
  OBVIOUS
<1>7. m \in Nat /\ l \in Nat /\ m <= l /\ l <= Len(frags) /\ Len(frags) \in Nat /\ m # 0
  <2>1. m \in Frags
    BY <1>2, <1>6, PredsIn
  <2> QED BY <1>2, <1>6, <2>1, PredsIn, FragmentIn
<1>8. Clean(frags[l].on)
  BY <1>1, <1>4, <1>5 DEF Clean, CutsGuaranteed
<1>9. Run(c, m, l)
  BY <1>2, <1>3, <1>4, <1>5, <1>6, <1>8 DEF Runs
<1>10. Len(c) = l - m + 1 /\ \A q \in 1 .. Len(c) : c[q] = m + q - 1
  BY <1>9 DEF Run
<1>11. DOMAIN c = 1 .. Len(c)
  BY <1>3, <1>4
<1>12. \A x : x \in ToSet(c) <=> x \in m .. l
  <2>1. ASSUME NEW x \in ToSet(c) PROVE x \in m .. l
    <3>1. PICK q \in 1 .. Len(c) : c[q] = x
      BY <1>11 DEF ToSet
    <3> QED BY <1>7, <1>10, <3>1
  <2>2. ASSUME NEW x \in m .. l PROVE x \in ToSet(c)
    <3>1. PICK q : q = x - m + 1
      OBVIOUS
    <3>2. q \in 1 .. Len(c) /\ m + q - 1 = x
      BY <1>7, <1>10, <3>1
    <3> QED BY <1>10, <1>11, <3>2 DEF ToSet
  <2> QED BY <2>1, <2>2
<1>13. \A x : x \in PartsOf(m) <=> x \in m .. l
  <2>1. ASSUME NEW x \in PartsOf(m) PROVE x \in m .. l
    <3>1. x \in Frags /\ frags[x].msg = m
      BY DEF PartsOf
    <3>2. x <= l
      BY <1>2, <1>5, <1>6, <3>1 DEF Messages, Stops
    <3>3. m <= x /\ x \in Nat
      BY <1>2, <3>1, PredsIn, FragmentIn
    <3> QED BY <1>7, <3>2, <3>3
  <2>2. ASSUME NEW x \in m .. l PROVE x \in PartsOf(m)
    <3>1. x \in Frags
      BY <1>7 DEF Frags
    <3>2. frags[x].msg = m
      BY <1>2, <1>6 DEF Messages, Spans
    <3> QED BY <3>1, <3>2 DEF PartsOf
  <2> QED BY <2>1, <2>2
<1>14. ToSet(c) = PartsOf(frags[Last(c)].msg)
  BY <1>5, <1>6, <1>12, <1>13
<1>15. \A i, j \in DOMAIN c : i < j => c[i] < c[j]
  BY <1>7, <1>10, <1>11
<1> QED BY <1>4, <1>14, <1>15 DEF Whole

(* The invariant of the receiving side.                                    *)
LEMMA LinesHold == Spec => []LInv
<1>1. Init => LInv
  BY LinesInit
<1>2. LInv /\ [Next]_vars => LInv'
  BY LinesNext
<1> QED BY <1>1, <1>2, PTL DEF Spec

(* Whatever order fragments arrive in, and however often the queues are cancelled:
   the game is given no message before the one it is ordered behind, and no
   fragment twice.  That is what the split lists, insertReceived and
   ProcessUserMessages make of a channel that keeps its promise.           *)
THEOREM MessagesInOrder == Spec => []OrderKept
<1>1. LInv => OrderKept
  BY LinesOrdered
<1> QED BY <1>1, LinesHold, PTL

(* What the game is given of a stream that was not torn by a cancellation is all
   fragments of one message in their order, as long as only guaranteed messages
   are cut: the fragments of a message that may be lost are merged with those
   of another.                                                             *)
THEOREM MessagesAreWhole == Spec => [](CutsGuaranteed => WholeMessages)
<1>1. LInv => (CutsGuaranteed => WholeMessages)
  BY LinesWhole
<1> QED BY <1>1, LinesHold, PTL

(* A closing fragment that is handed over finds what it closes, on a stream that
   no cancellation tore and that cuts only what is guaranteed: the assertion
   split.NotNull() of clientReceive holds there, and serverReceive, whose clients
   cut nothing else, throws no fragment away.                              *)
HeadsFound ==
    \A i \in Frags : where[i] = "flying" /\ InTurn(i) /\ Clean(frags[i].on) => ~Headless(i)

(* Neither the assertion of a client nor the discarding of a server is met by a
   fragment whose stream is clean.                                          *)
THEOREM AssertionHolds ==
    Spec => /\ []HeadsFound
            /\ [][\A i \in Frags : Arrive(i) => ~Discarded(i)]_vars
<1>1. LInv => HeadsFound
  BY HeadFound DEF LInv, HeadsFound
<1>2. LInv => [\A i \in Frags : Arrive(i) => ~Discarded(i)]_vars
  BY NothingDiscarded DEF LInv
<1> QED BY <1>1, <1>2, LinesHold, PTL
=============================================================================
