----------------------- MODULE GameSessionPlayerProofs -----------------------
(***************************************************************************)
(* Proofs about one player of GameSession, as the server has him and as    *)
(* his client is: what the two may be at together, with the display on top *)
(* of the client (Core); what the player's own messages still say, in      *)
(* which order (Reports); where what is under way to the client leads it   *)
(* (Way, Led); and what each step of the server, of the client and of the  *)
(* displays does to the three.  Then the invariant that is made of them    *)
(* (PInv), and the part of it that is no single player's (Around).         *)
(* GameSessionPlayProofs takes every player through every step of the      *)
(* session, and has the theorems.                                          *)
(***************************************************************************)
EXTENDS GameSessionProofs, NaturalsInduction, WellFoundedInduction

USE DEF Phases, ServerPhases, None, Creating, Create, LoggedIn, PrepareSide, PrepareRole, PrepareOK,
        Debriefing, DebriefingOK, Transfer, LoadIsland, Briefing, Play

-----------------------------------------------------------------------------
(* Queues.                                                                 *)

(* No message, or at most one, of a type.                                  *)
Free(t, q)   == \A k \in 1 .. Len(q) : q[k].type # t
Single(t, q) == \A j, k \in 1 .. Len(q) : q[j].type = t /\ q[k].type = t => j = k

LEMMA OnParts ==
    ASSUME NEW S, NEW q \in Seq(S), NEW m \in Seq(S), NEW r, r = q \o m
    PROVE  /\ r \in Seq(S) /\ Len(q) \in Nat /\ Len(m) \in Nat /\ Len(r) = Len(q) + Len(m)
           /\ \A k \in 1 .. Len(q) : r[k] = q[k]
           /\ \A k \in 1 .. Len(r) : k \in 1 .. Len(q) \/ (k - Len(q) \in 1 .. Len(m) /\ r[k] = m[k - Len(q)])
  OBVIOUS

LEMMA TailParts ==
    ASSUME NEW S, NEW q \in Seq(S), q # <<>>, NEW r, r = Tail(q)
    PROVE  /\ r \in Seq(S) /\ Len(q) \in Nat /\ Len(r) \in Nat /\ Len(q) = Len(r) + 1
           /\ Head(q) = q[1] /\ 1 \in 1 .. Len(q) /\ q[1] \in S
           /\ \A k \in 1 .. Len(r) : r[k] = q[k + 1] /\ k + 1 \in 1 .. Len(q)
  OBVIOUS

LEMMA SeqIn ==
    ASSUME NEW S, NEW T, NEW q \in Seq(S), \A k \in 1 .. Len(q) : q[k] \in T
    PROVE  q \in Seq(T)
  OBVIOUS

LEMMA FreeOn ==
    ASSUME NEW S, NEW q \in Seq(S), NEW m \in Seq(S), NEW r, r = q \o m, NEW t,
           Free(t, q), Free(t, m)
    PROVE  Free(t, r)
<1>1. \A k \in 1 .. Len(r) : k \in 1 .. Len(q) \/ (k - Len(q) \in 1 .. Len(m) /\ r[k] = m[k - Len(q)])
  BY OnParts
<1>2. \A k \in 1 .. Len(q) : r[k] = q[k]
  BY OnParts
<1>3. ASSUME NEW k \in 1 .. Len(r)
      PROVE  r[k].type # t
  <2>1. CASE k \in 1 .. Len(q)
    BY <2>1, <1>2, Zenon DEF Free
  <2>2. CASE k - Len(q) \in 1 .. Len(m) /\ r[k] = m[k - Len(q)]
    BY <2>2, Zenon DEF Free
  <2> QED BY <2>1, <2>2, <1>1, Zenon
<1> QED BY <1>3, Zenon DEF Free

LEMMA FreeTail ==
    ASSUME NEW S, NEW q \in Seq(S), q # <<>>, NEW r, r = Tail(q), NEW t, Free(t, q)
    PROVE  Free(t, r) /\ Head(q).type # t
<1>1. /\ Head(q) = q[1] /\ 1 \in 1 .. Len(q)
      /\ \A k \in 1 .. Len(r) : r[k] = q[k + 1] /\ k + 1 \in 1 .. Len(q)
  BY TailParts
<1> QED BY <1>1, Zenon DEF Free

LEMMA SingleOn ==
    ASSUME NEW S, NEW q \in Seq(S), NEW m \in Seq(S), NEW r, r = q \o m, NEW t,
           Single(t, q), Free(t, m)
    PROVE  Single(t, r)
<1>1. \A k \in 1 .. Len(r) : k \in 1 .. Len(q) \/ (k - Len(q) \in 1 .. Len(m) /\ r[k] = m[k - Len(q)])
  BY OnParts
<1>2. \A k \in 1 .. Len(q) : r[k] = q[k]
  BY OnParts
<1>3. \A k \in 1 .. Len(r) : r[k].type = t => k \in 1 .. Len(q) /\ q[k].type = t
  BY <1>1, <1>2, Zenon DEF Free
<1> QED BY <1>3, Zenon DEF Single

LEMMA SingleTail ==
    ASSUME NEW S, NEW q \in Seq(S), q # <<>>, NEW r, r = Tail(q), NEW t, Single(t, q)
    PROVE  Single(t, r) /\ (Head(q).type = t => Free(t, r))
<1>1. /\ Head(q) = q[1] /\ 1 \in 1 .. Len(q)
      /\ \A k \in 1 .. Len(r) : r[k] = q[k + 1] /\ k + 1 \in 1 .. Len(q)
  BY TailParts
<1>2. \A j, k \in 1 .. Len(r) : j + 1 = k + 1 => j = k
  OBVIOUS
<1>3. \A k \in 1 .. Len(r) : k + 1 # 1
  OBVIOUS
<1>4. Single(t, r)
  <2> SUFFICES ASSUME NEW j \in 1 .. Len(r), NEW k \in 1 .. Len(r), r[j].type = t, r[k].type = t
               PROVE  j = k
    BY DEF Single
  <2>1. j + 1 \in 1 .. Len(q) /\ k + 1 \in 1 .. Len(q) /\ q[j + 1].type = t /\ q[k + 1].type = t
    BY <1>1
  <2>2. j + 1 = k + 1
    BY <2>1, Zenon DEF Single
  <2> QED BY <2>2, <1>2, Zenon
<1>5. Head(q).type = t => Free(t, r)
  BY <1>1, <1>3, Zenon DEF Single, Free
<1> QED BY <1>4, <1>5

LEMMA SingleOne ==
    ASSUME NEW S, NEW q \in Seq(S), NEW x \in S, NEW r, r = q \o <<x>>, NEW t, Free(t, q)
    PROVE  Single(t, r)
<1>1. PICK m : m = <<x>>
  OBVIOUS
<1>2. m \in Seq(S) /\ Len(m) = 1
  BY <1>1
<1>3. \A k \in 1 .. Len(r) : k \in 1 .. Len(q) \/ (k - Len(q) \in 1 .. Len(m) /\ r[k] = m[k - Len(q)])
  BY <1>1, <1>2, OnParts
<1>4. \A k \in 1 .. Len(q) : r[k] = q[k]
  BY <1>1, <1>2, OnParts
<1>5. Len(q) \in Nat /\ Len(r) \in Nat
  BY <1>1, <1>2, OnParts
<1>6. \A k \in 1 .. Len(r) : r[k].type = t => k = Len(q) + 1
  <2> SUFFICES ASSUME NEW k \in 1 .. Len(r), r[k].type = t
               PROVE  k = Len(q) + 1
    OBVIOUS
  <2>1. k \notin 1 .. Len(q)
    BY <1>4, Zenon DEF Free
  <2>2. k - Len(q) \in 1 .. Len(m)
    BY <2>1, <1>3
  <2> QED BY <2>2, <1>2, <1>5
<1> QED BY <1>6, Zenon DEF Single

-----------------------------------------------------------------------------
(* Where a sequence of messages leads a client.                            *)

(* What matters of a client: its phase, whether it has a header (head), the
   slots it knows, whether it has the files of all missions, and whether it has
   a person.                                                                 *)
Walker(s, head, rs, file, person) ==
    [state |-> s, head |-> head, roles |-> rs, file |-> file, person |-> person]

(* NMTGameState: a leftover of the last mission.                           *)
Ignores(w, s) == w.head /\ w.state \in Transfer .. Briefing /\ s <= DebriefingOK

(* The message m is one the client w of the player p can take as it is meant. *)
Takes(p, w, m) ==
    /\ m.type = "file" => w.head
    /\ m.type = "state" =>
         /\ m.to >= PrepareSide => w.head
         /\ m.to = LoadIsland => Holds(w.roles, p) /\ (w.state >= LoadIsland \/ w.file)
         /\ m.to = Briefing => w.state >= LoadIsland /\ w.person
         /\ m.to = Play <=> w.state = Briefing
         /\ m.to = Debriefing <=> w.state = Play
         /\ w.state = Debriefing => m.to = Create

(* What becomes of the client: of its phase, and of its person.            *)
Turned(p, w, s) ==
    IF \/ s \in {PrepareRole, PrepareOK}
       \/ Ignores(w, s)
       \/ s = Transfer /\ ~(w.state < LoadIsland /\ Holds(w.roles, p))
    THEN w.state ELSE s
Loads(p, w, m) ==
    \/ m.type = "state" /\ m.to = LoadIsland /\ w.state < LoadIsland
    \/ m.type = "file" /\ w.state = Transfer /\ Holds(w.roles, p)

After(p, w, m) ==
    Walker(IF m.type = "state" THEN Turned(p, w, m.to)
           ELSE IF Loads(p, w, m) THEN LoadIsland ELSE w.state,
           w.head \/ m.type = "header",
           Applied(w.roles, m),
           w.file \/ m.type = "file",
           IF m.type = "world" THEN w.person \/ (m.person # 0 /\ w.state >= LoadIsland)
           ELSE w.person /\ ~Loads(p, w, m))

(* Its person may be lost meanwhile.                                       *)
Lower(v, w) ==
    v.state = w.state /\ v.head = w.head /\ v.roles = w.roles /\ v.file = w.file /\ (v.person => w.person)

Step(p, w, m, d) == Takes(p, w, m) /\ Lower(d, After(p, w, m))

(* The messages q lead the client w to d.                                  *)
Way(p, w, q, d) ==
    \E v : /\ Lower(v[0], w)
           /\ \A k \in 1 .. Len(q) : Step(p, v[k - 1], q[k], v[k])
           /\ v[Len(q)] = d

LEMMA LowerOn ==
    ASSUME NEW v, NEW w, NEW x, Lower(v, w), Lower(w, x)
    PROVE  Lower(v, x)
BY DEF Lower

LEMMA StepLower ==
    ASSUME NEW p, NEW w, NEW x, NEW m, NEW d, Step(p, w, m, d), Lower(w, x)
    PROVE  Step(p, x, m, d)
<1>1. Takes(p, x, m)
  BY DEF Step, Takes, Lower
<1>2. \A s : Turned(p, w, s) = Turned(p, x, s)
  BY DEF Turned, Ignores, Lower
<1>3. Loads(p, w, m) <=> Loads(p, x, m)
  BY DEF Loads, Lower
<1>4. PICK e : e = After(p, w, m)
  OBVIOUS
<1>5. PICK f : f = After(p, x, m)
  OBVIOUS
<1>6. /\ f.state = e.state /\ f.head = e.head /\ f.roles = e.roles /\ f.file = e.file
      /\ e.person => f.person
  BY <1>2, <1>3, <1>4, <1>5 DEF After, Walker, Lower
<1>7. Lower(d, e)
  BY <1>4 DEF Step
<1>8. Lower(d, f)
  BY <1>6, <1>7 DEF Lower
<1> QED BY <1>1, <1>5, <1>8 DEF Step

(* Only for the briefing a person is needed.                               *)
Lost(w) == Walker(w.state, w.head, w.roles, w.file, FALSE)

LEMMA StepLost ==
    ASSUME NEW p, NEW w, NEW m, NEW d, Step(p, w, m, d), ~(m.type = "state" /\ m.to = Briefing)
    PROVE  Step(p, Lost(w), m, Lost(d))
<1>1. PICK x : x = Lost(w)
  OBVIOUS
<1>2. x.state = w.state /\ x.head = w.head /\ x.roles = w.roles /\ x.file = w.file
  BY <1>1 DEF Lost, Walker
<1>3. Takes(p, x, m)
  BY <1>2 DEF Step, Takes
<1>4. \A s : Turned(p, w, s) = Turned(p, x, s)
  BY <1>2 DEF Turned, Ignores
<1>5. Loads(p, w, m) <=> Loads(p, x, m)
  BY <1>2 DEF Loads
<1>6. PICK e : e = After(p, w, m)
  OBVIOUS
<1>7. PICK f : f = After(p, x, m)
  OBVIOUS
<1>8. f.state = e.state /\ f.head = e.head /\ f.roles = e.roles /\ f.file = e.file
  BY <1>2, <1>4, <1>5, <1>6, <1>7 DEF After, Walker
<1>9. Lower(d, e)
  BY <1>6 DEF Step
<1>10. PICK y : y = Lost(d)
  OBVIOUS
<1>11. y.state = d.state /\ y.head = d.head /\ y.roles = d.roles /\ y.file = d.file /\ ~y.person
  BY <1>10 DEF Lost, Walker
<1>12. Lower(y, f)
  BY <1>8, <1>9, <1>11 DEF Lower
<1> QED BY <1>1, <1>3, <1>7, <1>10, <1>12 DEF Step

LEMMA WayNowhere ==
    ASSUME NEW p, NEW w, NEW d
    PROVE  Way(p, w, <<>>, d) <=> Lower(d, w)
<1>1. ASSUME Lower(d, w)
      PROVE  Way(p, w, <<>>, d)
  <2>1. PICK v : v = [k \in {0} |-> d]
    OBVIOUS
  <2>2. v[0] = d /\ v[Len(<<>>)] = d /\ 1 .. Len(<<>>) = {}
    BY <2>1
  <2>3. \A k \in 1 .. Len(<<>>) : Step(p, v[k - 1], <<>>[k], v[k])
    BY <2>2
  <2> QED BY <1>1, <2>2, <2>3, Zenon DEF Way
<1> QED BY <1>1 DEF Way

LEMMA WayOneStep ==
    ASSUME NEW p, NEW w, NEW m, NEW d, Step(p, w, m, d)
    PROVE  Way(p, w, <<m>>, d)
<1>2. PICK v : v = [k \in {0, 1} |-> IF k = 0 THEN w ELSE d]
  OBVIOUS
<1>3. v[0] = w /\ v[1] = d /\ Lower(v[0], w)
  BY <1>2 DEF Lower
<1>4. \A k \in 1 .. Len(<<m>>) : k = 1 /\ <<m>>[k] = m /\ k - 1 = 0
  OBVIOUS
<1>5. \A k \in 1 .. Len(<<m>>) : Step(p, v[k - 1], <<m>>[k], v[k])
  <2> SUFFICES ASSUME NEW k \in 1 .. Len(<<m>>)
               PROVE  Step(p, v[k - 1], <<m>>[k], v[k])
    OBVIOUS
  <2>1. v[k - 1] = w /\ <<m>>[k] = m /\ v[k] = d
    BY <1>3, <1>4
  <2> QED BY <2>1, Zenon
<1>6. v[Len(<<m>>)] = d
  BY <1>3
<1> QED BY <1>3, <1>5, <1>6, Zenon DEF Way

(* One sequence after the other.                                           *)
LEMMA WayOn ==
    ASSUME NEW p, NEW t, NEW u, NEW w, NEW S, NEW q \in Seq(S), NEW m \in Seq(S),
           NEW r, r = q \o m, Way(p, t, q, u), Way(p, u, m, w)
    PROVE  Way(p, t, r, w)
<1>1. PICK v : /\ Lower(v[0], t)
               /\ \A k \in 1 .. Len(q) : Step(p, v[k - 1], q[k], v[k])
               /\ v[Len(q)] = u
  BY Zenon DEF Way
<1>2. PICK x : /\ Lower(x[0], u)
               /\ \A k \in 1 .. Len(m) : Step(p, x[k - 1], m[k], x[k])
               /\ x[Len(m)] = w
  BY Zenon DEF Way
<1>3. PICK i \in Nat : i = Len(q)
  OBVIOUS
<1>4. PICK j \in Nat : j = Len(m)
  OBVIOUS
<1>5. Len(r) = i + j
  BY <1>3, <1>4
<1>6. PICK y : y = [k \in 0 .. (i + j) |-> IF k < i THEN v[k] ELSE x[k - i]]
  OBVIOUS
<1>7. \A k \in 0 .. i : y[k] = IF k = i THEN x[0] ELSE v[k]
  BY <1>6
<1>8. \A k \in 0 .. j : y[i + k] = x[k]
  <2>1. y[i + 0] = x[0]
    BY <1>3, <1>7
  <2>2. ASSUME NEW k \in 1 .. j
        PROVE  y[i + k] = x[k]
    <3>1. i + k \in 0 .. (i + j) /\ ~(i + k < i) /\ (i + k) - i = k
      OBVIOUS
    <3> QED BY <3>1, <1>6
  <2>3. \A k \in 0 .. j : k = 0 \/ k \in 1 .. j
    OBVIOUS
  <2> QED BY <2>1, <2>2, <2>3, Zenon
<1>9. Lower(y[0], t)
  <2>1. CASE i = 0
    <3>1. y[0] = x[0] /\ v[0] = u
      BY <2>1, <1>1, <1>3, <1>7
    <3> QED BY <3>1, <1>1, <1>2, LowerOn
  <2>2. CASE i # 0
    <3>1. y[0] = v[0]
      BY <2>2, <1>7
    <3> QED BY <3>1, <1>1
  <2> QED BY <2>1, <2>2
<1>10. y[Len(r)] = w
  BY <1>2, <1>4, <1>5, <1>8
<1>11. ASSUME NEW k \in 1 .. Len(r)
       PROVE  Step(p, y[k - 1], r[k], y[k])
  <2>1. CASE k <= i
    <3>1. k \in 1 .. i /\ k \in 0 .. i /\ k - 1 \in 0 .. i /\ k - 1 # i
      BY <2>1, <1>3, <1>5
    <3>2. y[k - 1] = v[k - 1]
      BY <3>1, <1>7
    <3>3. r[k] = q[k]
      BY <3>1, <1>3
    <3>4. Step(p, v[k - 1], q[k], v[k])
      BY <3>1, <1>1, <1>3
    <3>5. Lower(y[k], v[k])
      <4>1. CASE k = i
        <5>1. y[k] = x[0] /\ v[k] = u
          BY <4>1, <3>1, <1>1, <1>3, <1>7
        <5> QED BY <5>1, <1>2
      <4>2. CASE k # i
        <5>1. y[k] = v[k]
          BY <4>2, <3>1, <1>7
        <5> QED BY <5>1 DEF Lower
      <4> QED BY <4>1, <4>2
    <3>6. Step(p, v[k - 1], q[k], y[k])
      BY <3>4, <3>5, LowerOn, Zenon DEF Step
    <3> QED BY <3>2, <3>3, <3>6, Zenon
  <2>2. CASE ~(k <= i)
    <3>1. PICK n \in 1 .. j : k = i + n
      <4>1. k - i \in 1 .. j /\ k = i + (k - i)
        BY <2>2, <1>5
      <4> QED BY <4>1
    <3>2. y[k] = x[n]
      BY <3>1, <1>8
    <3>3. y[k - 1] = x[n - 1]
      <4>1. n - 1 \in 0 .. j /\ k - 1 = i + (n - 1)
        BY <3>1
      <4> QED BY <4>1, <1>8
    <3>4. r[k] = m[n]
      BY <3>1, <1>3, <1>4
    <3>5. Step(p, x[n - 1], m[n], x[n])
      BY <3>1, <1>2, <1>4
    <3> QED BY <3>2, <3>3, <3>4, <3>5, Zenon
  <2> QED BY <2>1, <2>2
<1> QED BY <1>9, <1>10, <1>11, Zenon DEF Way

(* A message that is only sent under a condition.                          *)
LEMMA WayWhen ==
    ASSUME NEW p, NEW w, NEW q, NEW d, NEW b \in BOOLEAN, b => Way(p, w, q, d), ~b => Lower(d, w)
    PROVE  Way(p, w, When(b, q), d)
BY WayNowhere DEF When

(* The first message is read.                                              *)
LEMMA WayFromHead ==
    ASSUME NEW p, NEW t, NEW u, NEW S, NEW q \in Seq(S), q # <<>>, Way(p, t, q, u), NEW r, r = Tail(q)
    PROVE  Takes(p, t, Head(q)) /\ Way(p, After(p, t, Head(q)), r, u)
<1>1. PICK v : /\ Lower(v[0], t)
               /\ \A k \in 1 .. Len(q) : Step(p, v[k - 1], q[k], v[k])
               /\ v[Len(q)] = u
  BY Zenon DEF Way
<1>2. PICK i \in Nat : i = Len(r)
  OBVIOUS
<1>3. Len(q) = i + 1 /\ Head(q) = q[1]
  BY <1>2
<1>4. PICK y : y = [k \in 0 .. i |-> v[k + 1]]
  OBVIOUS
<1>5. \A k \in 0 .. i : y[k] = v[k + 1]
  BY <1>4
<1>6. Takes(p, t, Head(q)) /\ Lower(y[0], After(p, t, Head(q)))
  <2>1. 1 \in 1 .. Len(q) /\ 1 - 1 = 0 /\ 0 + 1 = 1
    BY <1>2, <1>3
  <2>2. Step(p, v[1 - 1], q[1], v[1])
    BY <1>1, <2>1
  <2>3. Lower(v[1 - 1], t)
    BY <1>1, <2>1
  <2>4. Takes(p, t, Head(q)) /\ Lower(v[1], After(p, t, Head(q)))
    BY <2>2, <2>3, <1>3, StepLower, Zenon DEF Step
  <2> QED BY <2>1, <2>4, <1>5
<1>7. y[Len(r)] = u
  BY <1>1, <1>2, <1>3, <1>5
<1>8. ASSUME NEW k \in 1 .. Len(r)
      PROVE  Step(p, y[k - 1], r[k], y[k])
  <2>1. k \in 0 .. i /\ k - 1 \in 0 .. i /\ (k - 1) + 1 = k /\ k + 1 \in 1 .. Len(q) /\ (k + 1) - 1 = k
    BY <1>2, <1>3
  <2>2. y[k] = v[k + 1] /\ y[k - 1] = v[k]
    BY <2>1, <1>5
  <2>3. r[k] = q[k + 1]
    BY <2>1, <1>2
  <2>4. PICK n \in 1 .. Len(q) : n = k + 1 /\ n - 1 = k
    BY <2>1
  <2>5. Step(p, v[n - 1], q[n], v[n])
    BY <1>1
  <2>6. v[n] = y[k] /\ v[n - 1] = y[k - 1] /\ q[n] = r[k]
    BY <2>2, <2>3, <2>4
  <2> QED BY <2>5, <2>6, Zenon
<1> QED BY <1>6, <1>7, <1>8, Zenon DEF Way

(* So does one that has lost its person, where no briefing is under way.   *)
LEMMA WayLost ==
    ASSUME NEW p, NEW w, NEW S, NEW q \in Seq(S), NEW d, Way(p, w, q, d),
           \A k \in 1 .. Len(q) : ~(q[k].type = "state" /\ q[k].to = Briefing)
    PROVE  Way(p, Lost(w), q, Lost(d))
<1>1. PICK v : /\ Lower(v[0], w)
               /\ \A k \in 1 .. Len(q) : Step(p, v[k - 1], q[k], v[k])
               /\ v[Len(q)] = d
  BY Zenon DEF Way
<1>2. PICK n \in Nat : n = Len(q)
  OBVIOUS
<1>3. PICK y : y = [k \in 0 .. n |-> Lost(v[k])]
  OBVIOUS
<1>4. \A k \in 0 .. n : y[k] = Lost(v[k])
  BY <1>3
<1>5. Lower(y[0], Lost(w)) /\ y[Len(q)] = Lost(d)
  <2>1. y[0] = Lost(v[0]) /\ y[Len(q)] = Lost(d)
    BY <1>1, <1>2, <1>4
  <2> QED BY <2>1, <1>1 DEF Lost, Lower, Walker
<1>6. ASSUME NEW k \in 1 .. Len(q)
      PROVE  Step(p, y[k - 1], q[k], y[k])
  <2>1. k - 1 \in 0 .. n /\ k \in 0 .. n
    BY <1>2
  <2>2. y[k - 1] = Lost(v[k - 1]) /\ y[k] = Lost(v[k])
    BY <2>1, <1>4
  <2>3. Step(p, v[k - 1], q[k], v[k])
    BY <1>1
  <2>4. PICK x : x = v[k - 1]
    OBVIOUS
  <2>5. Step(p, Lost(x), q[k], Lost(v[k]))
    BY <2>3, <2>4, StepLost
  <2> QED BY <2>2, <2>4, <2>5
<1> QED BY <1>5, <1>6, Zenon DEF Way

(* A client that has a header, or the files, keeps them.                   *)
LEMMA WayKeeps ==
    ASSUME NEW p, NEW w, NEW S, NEW q \in Seq(S), NEW d, Way(p, w, q, d)
    PROVE  (w.head => d.head) /\ (w.file => d.file)
<1>1. PICK v : /\ Lower(v[0], w)
               /\ \A k \in 1 .. Len(q) : Step(p, v[k - 1], q[k], v[k])
               /\ v[Len(q)] = d
  BY Zenon DEF Way
<1>2. PICK n \in Nat : n = Len(q)
  OBVIOUS
<1>3. ASSUME NEW k \in 1 .. n
      PROVE  (v[k - 1].head => v[k].head) /\ (v[k - 1].file => v[k].file)
  <2>1. PICK x : x = v[k - 1]
    OBVIOUS
  <2>2. Lower(v[k], After(p, x, q[k]))
    BY <2>1, <1>1, <1>2 DEF Step
  <2>3. After(p, x, q[k]).head = (x.head \/ q[k].type = "header")
    BY DEF After, Walker
  <2>4. After(p, x, q[k]).file = (x.file \/ q[k].type = "file")
    BY DEF After, Walker
  <2> QED BY <2>1, <2>2, <2>3, <2>4 DEF Lower
<1> DEFINE T == {k \in 0 .. n : ~((w.head => v[k].head) /\ (w.file => v[k].file))}
<1>4. ASSUME T # {}
      PROVE  FALSE
  <2>1. T \subseteq Nat
    OBVIOUS
  <2>2. PICK k \in T : \A j \in T : ~(<<j, k>> \in OpToRel(<, Nat))
    <3> HIDE DEF T
    <3> QED BY <1>4, <2>1, NatLessThanWellFounded, WFMin
  <2>3. k # 0
    BY <1>1 DEF Lower
  <2>4. k \in 1 .. n /\ k - 1 \in 0 .. n /\ k - 1 < k
    BY <2>3
  <2>5. k - 1 \notin T
    BY <2>1, <2>2, <2>4 DEF OpToRel
  <2> QED BY <2>4, <2>5, <1>3
<1>5. n \notin T
  BY <1>4
<1> QED BY <1>1, <1>2, <1>5 DEF Lower

-----------------------------------------------------------------------------
(* A player as the server has him and as his client is.                    *)

Screens == {"lobby", "setup", "wait", "getready", "launched", "mission", "debriefing", "debriefed"}
Away    == {"lobby", "setup", "wait", "debriefed"}      \* not in the mission

Views(a) ==
    /\ {a.phase, a.info, a.state, a.srv} \subseteq Phases
    /\ {a.report, a.valid, a.known, a.holds, a.head, a.all, a.person, a.ident} \subseteq BOOLEAN
    /\ a.screen \in Screens

Over(a) == a.phase \in {Play, Debriefing}

(* The server's phase, and what it takes the player to be at.              *)
OnServer(a) ==
    /\ a.phase \in {Create, PrepareSide, Transfer, LoadIsland, Briefing, Play, Debriefing}
    /\ a.report => a.phase = LoadIsland
    /\ a.phase <= PrepareSide => a.info <= PrepareOK \/ a.info = DebriefingOK
    /\ a.phase \in Transfer .. Briefing =>
         /\ \/ a.info <= PrepareOK \/ a.info = DebriefingOK \/ a.info \in Transfer .. a.phase
            \/ a.phase = Briefing /\ a.info = Play
         /\ a.holds => a.info >= a.phase
    /\ a.phase = Play => a.holds /\ a.info \in {Play, Debriefing, DebriefingOK}
    /\ a.phase = Debriefing => IF a.holds THEN a.info \in {Play, Debriefing, DebriefingOK}
                                          ELSE a.info <= PrepareOK
    /\ a.info >= Transfer => a.known

(* What a client may be at while the server is at its phase.               *)
OnClient(a) ==
    /\ a.srv >= PrepareSide \/ a.state >= PrepareSide => a.head
    /\ a.ident => a.known
    /\ a.holds => a.ident /\ a.head
    /\ a.valid => a.all
    /\ {a.srv, a.state} \cap {Briefing, Play, Debriefing} # {} => a.srv = a.state
    /\ Over(a) /\ a.holds => a.state \in {Briefing, Play, Debriefing}
    /\ a.state \in {Play, Debriefing} => IF Over(a) THEN a.holds ELSE a.screen = "debriefed"
    /\ a.state = Briefing => /\ a.person
                             /\ \/ a.phase = Briefing /\ a.info >= Briefing
                                \/ Over(a) /\ a.screen = "launched"

(* The display on top of the client.                                       *)
OnScreen(a) ==
    /\ a.screen = "debriefed" /\ ~Over(a) => (~a.holds \/ a.phase = Create) /\ a.info < Transfer
    /\ a.screen = "getready" => a.phase = Briefing /\ a.state = Briefing
    /\ a.screen = "launched" => /\ a.phase = Briefing \/ (Over(a) /\ a.holds)
                                /\ a.phase = Briefing => a.state = Briefing
                                /\ a.phase = Play => a.state # Debriefing /\ a.person
    /\ a.screen = "mission" => Over(a) /\ (a.phase = Play => a.person)
    /\ a.screen = "debriefing" => Over(a)
    /\ a.phase = Play => a.screen \in {"launched", "mission", "debriefing", "debriefed"}
    /\ a.phase = Briefing /\ a.info = Play => a.screen = "launched"
    /\ a.phase = Play /\ a.info = Debriefing => a.screen \in {"debriefing", "debriefed"}
    /\ Over(a) /\ a.info = DebriefingOK => a.screen = "debriefed"
    /\ a.phase = Debriefing => IF a.holds THEN a.screen \notin {"lobby", "setup", "getready"}
                                          ELSE a.screen \in {"lobby", "setup", "wait"}

Core(a) == Views(a) /\ OnServer(a) /\ OnClient(a) /\ OnScreen(a)

-----------------------------------------------------------------------------
(* What the player has to say.                                             *)

(* The order in which a player goes through a mission.  What he says when he is
   through with the debriefing is the last of it while that lasts, and after
   that the first: it is said of a mission that is gone.                     *)
Ranked(m) == m.type \in {"ready", "claim"}
Rank(over, m) ==
    IF m.type = "claim" \/ m.state \in {PrepareSide, PrepareRole, PrepareOK} THEN 1
    ELSE IF m.state = Briefing THEN 2
    ELSE IF m.state = Play THEN 3
    ELSE IF m.state = Debriefing THEN 4
    ELSE IF m.state = DebriefingOK THEN IF over THEN 5 ELSE 0
    ELSE 6

(* The rank of what the server has heard of him, and of the last he can have
   said, by the display he is at.                                            *)
Least(a) ==
    IF a.phase \in {Briefing, Play} /\ a.info = Play THEN 3
    ELSE IF a.phase = Play /\ a.info = Debriefing THEN 4
    ELSE IF Over(a) /\ a.info = DebriefingOK THEN 5
    ELSE IF a.phase = Debriefing /\ a.holds THEN 3
    ELSE IF (a.holds \/ a.info >= Transfer) /\ a.phase # Create /\ ~Over(a) THEN 1
    ELSE 0
Bound(a) ==
    IF a.screen = "getready" THEN 2
    ELSE IF a.screen \in {"launched", "mission"} THEN 3
    ELSE IF a.screen = "wait" THEN IF a.phase = Debriefing /\ a.holds THEN 3 ELSE 1
    ELSE IF a.screen = "debriefing" THEN 4
    ELSE IF a.screen = "debriefed" THEN IF Over(a) THEN 5 ELSE 0
    ELSE 1

Proper(p, a) ==
    {m \in Requests :
        /\ m.type # "order"
        /\ m.type = "claim" => m.player \in {AI, p} /\ a.ident /\ a.head
        /\ m.type = "ask" /\ m.valid => a.all
        /\ Ranked(m) => Rank(Over(a), m) \in Least(a) .. Bound(a)}

Ordered(over, q) ==
    \A j, k \in 1 .. Len(q) :
        j <= k /\ Ranked(q[j]) /\ Ranked(q[k]) => Rank(over, q[j]) <= Rank(over, q[k])

(* Who has left the mission, unknown to the server, has said so.           *)
Owes(a) == a.phase = Play /\ a.screen \in {"debriefing", "debriefed"}
                          /\ a.info \notin {Debriefing, DebriefingOK}
Owed(q) == \E k \in 1 .. Len(q) : q[k].type = "ready" /\ q[k].state = Debriefing

Reports(p, a, q) ==
    /\ q \in Seq(Proper(p, a))
    /\ Ordered(Over(a), q)
    /\ Owes(a) => Owed(q)

LEMMA RankTyped ==
    ASSUME NEW over \in BOOLEAN, NEW m
    PROVE  Rank(over, m) \in 0 .. 6
BY DEF Rank

LEMMA BoundsTyped ==
    ASSUME NEW a
    PROVE  Least(a) \in 0 .. 5 /\ Bound(a) \in 0 .. 5 /\ Over(a) \in BOOLEAN
BY DEF Least, Bound, Over

(* A client that has a header, or the files, does not lose them.           *)
Gains(a, b) == (a.ident /\ a.head => b.ident /\ b.head) /\ (a.all => b.all)

LEMMA ReportsKept ==
    ASSUME NEW p, NEW a, NEW b, NEW q, Reports(p, a, q), Gains(a, b), Over(a) = Over(b),
           Least(b) <= Least(a), Bound(a) <= Bound(b), Owes(b) => Owes(a)
    PROVE  Reports(p, b, q)
<1>1. Proper(p, a) \subseteq Proper(p, b)
  <2> SUFFICES ASSUME NEW m \in Proper(p, a)
               PROVE  m \in Proper(p, b)
    OBVIOUS
  <2>1. Ranked(m) => Rank(Over(b), m) \in Least(b) .. Bound(b)
    <3>1. Least(a) \in 0 .. 5 /\ Bound(a) \in 0 .. 5 /\ Least(b) \in 0 .. 5 /\ Bound(b) \in 0 .. 5
      BY BoundsTyped
    <3>2. Ranked(m) => Rank(Over(b), m) \in Least(a) .. Bound(a)
      BY DEF Proper
    <3> QED BY <3>1, <3>2
  <2> QED BY <2>1 DEF Proper, Gains
<1>2. q \in Seq(Proper(p, b))
  BY <1>1 DEF Reports
<1>3. Ordered(Over(b), q)
  BY DEF Reports
<1> QED BY <1>2, <1>3 DEF Reports

(* The ranks as the server goes on to the next mission, or into play.      *)
LEMMA ReportsTurned ==
    ASSUME NEW p, NEW a, NEW b, NEW q, Reports(p, a, q), Gains(a, b),
           Over(a) # Over(b), Owes(b) => Owes(a),
           \/ Over(a) /\ Least(a) = 5 /\ Least(b) = 0
           \/ Over(a) /\ Bound(a) <= 4 /\ Least(b) <= Least(a) /\ Bound(a) <= Bound(b)
           \/ Over(b) /\ 1 <= Least(a) /\ Least(b) <= Least(a) /\ Bound(a) <= Bound(b)
    PROVE  Reports(p, b, q)
<1>1. Least(a) \in 0 .. 5 /\ Bound(a) \in 0 .. 5 /\ Least(b) \in 0 .. 5 /\ Bound(b) \in 0 .. 5
  BY BoundsTyped
<1>2. Over(a) \in BOOLEAN /\ Over(b) \in BOOLEAN
  BY DEF Over
<1>3. ASSUME NEW m, Ranked(m), Rank(Over(a), m) \in Least(a) .. Bound(a)
      PROVE  Rank(Over(b), m) = IF Over(a) /\ Least(a) = 5 THEN 0 ELSE Rank(Over(a), m)
  BY <1>1, <1>2, <1>3 DEF Rank
<1>4. Proper(p, a) \subseteq Proper(p, b)
  <2> SUFFICES ASSUME NEW m \in Proper(p, a)
               PROVE  m \in Proper(p, b)
    OBVIOUS
  <2>1. ASSUME Ranked(m)
        PROVE  Rank(Over(b), m) \in Least(b) .. Bound(b)
    <3>1. Rank(Over(a), m) \in Least(a) .. Bound(a)
      BY <2>1 DEF Proper
    <3>2. Rank(Over(b), m) = IF Over(a) /\ Least(a) = 5 THEN 0 ELSE Rank(Over(a), m)
      BY <1>3, <2>1, <3>1
    <3> QED BY <3>1, <3>2, <1>1, <1>2
  <2> QED BY <2>1 DEF Proper, Gains
<1>5. q \in Seq(Proper(p, a)) /\ q \in Seq(Proper(p, b))
  BY <1>4 DEF Reports
<1>6. Ordered(Over(b), q)
  <2> SUFFICES ASSUME NEW j \in 1 .. Len(q), NEW k \in 1 .. Len(q),
                      j <= k, Ranked(q[j]), Ranked(q[k])
               PROVE  Rank(Over(b), q[j]) <= Rank(Over(b), q[k])
    BY DEF Ordered
  <2>1. q[j] \in Proper(p, a) /\ q[k] \in Proper(p, a)
    BY <1>5
  <2>2. /\ Rank(Over(a), q[j]) \in Least(a) .. Bound(a)
        /\ Rank(Over(a), q[k]) \in Least(a) .. Bound(a)
    BY <2>1 DEF Proper
  <2>3. Rank(Over(a), q[j]) <= Rank(Over(a), q[k])
    BY DEF Reports, Ordered
  <2>4. /\ Rank(Over(b), q[j]) = IF Over(a) /\ Least(a) = 5 THEN 0 ELSE Rank(Over(a), q[j])
        /\ Rank(Over(b), q[k]) = IF Over(a) /\ Least(a) = 5 THEN 0 ELSE Rank(Over(a), q[k])
    BY <1>3, <2>2
  <2> QED BY <2>2, <2>3, <2>4, <1>1
<1> QED BY <1>5, <1>6 DEF Reports

(* The server takes the first.                                             *)
LEMMA ReportsRead ==
    ASSUME NEW p, NEW a, NEW b, NEW q, Reports(p, a, q), q # <<>>, NEW r, r = Tail(q),
           NEW m, m = Head(q), Gains(a, b), Over(a) = Over(b),
           IF Ranked(m) THEN Least(b) <= Rank(Over(a), m) ELSE Least(b) <= Least(a),
           Bound(a) <= Bound(b),
           Owes(b) => Owes(a) /\ ~(m.type = "ready" /\ m.state = Debriefing)
    PROVE  Reports(p, b, r)
<1>1. q \in Seq(Proper(p, a)) /\ Ordered(Over(a), q)
  BY DEF Reports
<1>2. /\ r \in Seq(Proper(p, a)) /\ Len(q) \in Nat /\ Len(r) \in Nat /\ Len(q) = Len(r) + 1
      /\ Head(q) = q[1] /\ 1 \in 1 .. Len(q) /\ q[1] \in Proper(p, a)
      /\ \A k \in 1 .. Len(r) : r[k] = q[k + 1] /\ k + 1 \in 1 .. Len(q)
  BY <1>1, TailParts
<1>3. Least(a) \in 0 .. 5 /\ Bound(a) \in 0 .. 5 /\ Least(b) \in 0 .. 5 /\ Bound(b) \in 0 .. 5
      /\ Over(a) \in BOOLEAN
  BY BoundsTyped
<1>4. ASSUME NEW k \in 1 .. Len(r)
      PROVE  r[k] \in Proper(p, b)
  <2>1. r[k] = q[k + 1] /\ k + 1 \in 1 .. Len(q) /\ r[k] \in Proper(p, a)
    BY <1>1, <1>2
  <2>2. ASSUME Ranked(r[k])
        PROVE  Rank(Over(b), r[k]) \in Least(b) .. Bound(b)
    <3>1. Rank(Over(a), r[k]) \in Least(a) .. Bound(a)
      BY <2>1, <2>2 DEF Proper
    <3>2. CASE Ranked(m)
      <4>1. 1 <= k + 1
        OBVIOUS
      <4>2. Rank(Over(a), m) <= Rank(Over(a), r[k])
        BY <1>1, <1>2, <2>1, <2>2, <3>2, <4>1 DEF Ordered
      <4>3. Rank(Over(a), m) \in 0 .. 6
        BY RankTyped, <1>3
      <4> QED BY <3>1, <3>2, <4>2, <4>3, <1>3
    <3>3. CASE ~Ranked(m)
      BY <3>1, <3>3, <1>3
    <3> QED BY <3>2, <3>3
  <2> QED BY <2>1, <2>2 DEF Proper, Gains
<1>5. r \in Seq(Proper(p, b))
  BY <1>2, <1>4, SeqIn
<1>6. Ordered(Over(b), r)
  <2> SUFFICES ASSUME NEW j \in 1 .. Len(r), NEW k \in 1 .. Len(r),
                      j <= k, Ranked(r[j]), Ranked(r[k])
               PROVE  Rank(Over(b), r[j]) <= Rank(Over(b), r[k])
    BY DEF Ordered
  <2>1. j + 1 <= k + 1
    OBVIOUS
  <2>2. r[j] = q[j + 1] /\ j + 1 \in 1 .. Len(q) /\ r[k] = q[k + 1] /\ k + 1 \in 1 .. Len(q)
    BY <1>2
  <2> QED BY <1>1, <2>1, <2>2 DEF Ordered
<1>7. ASSUME Owes(b)
      PROVE  Owed(r)
  <2>1. PICK k \in 1 .. Len(q) : q[k].type = "ready" /\ q[k].state = Debriefing
    BY <1>7 DEF Reports, Owed
  <2>2. k # 1
    BY <1>7, <1>2, <2>1
  <2>3. k - 1 \in 1 .. Len(r) /\ (k - 1) + 1 = k
    BY <2>2, <1>2
  <2>4. r[k - 1] = q[k]
    BY <2>3, <1>2
  <2> QED BY <2>1, <2>3, <2>4 DEF Owed
<1> QED BY <1>5, <1>6, <1>7 DEF Reports

LEMMA UpTo ==
    ASSUME NEW l \in 0 .. 5, NEW h \in 0 .. 5, NEW i \in l .. h, NEW k \in 0 .. 6, h <= k
    PROVE  i <= k
  OBVIOUS

(* The player says something more.                                         *)
LEMMA ReportsSaid ==
    ASSUME NEW p, NEW a, NEW b, NEW q, Reports(p, a, q), NEW m \in Seq(Proper(p, b)),
           NEW r, r = q \o m, Gains(a, b), Over(a) = Over(b),
           Least(b) <= Least(a), Bound(a) <= Bound(b), Ordered(Over(b), m),
           \A k \in 1 .. Len(m) : Ranked(m[k]) => Bound(a) <= Rank(Over(b), m[k]),
           Owes(b) => Owes(a) \/ Owed(m)
    PROVE  Reports(p, b, r)
<1>1. Least(a) \in 0 .. 5 /\ Bound(a) \in 0 .. 5 /\ Least(b) \in 0 .. 5 /\ Bound(b) \in 0 .. 5
      /\ Over(a) \in BOOLEAN
  BY BoundsTyped
<1>2. Proper(p, a) \subseteq Proper(p, b)
  <2> SUFFICES ASSUME NEW x \in Proper(p, a)
               PROVE  x \in Proper(p, b)
    OBVIOUS
  <2>1. Ranked(x) => Rank(Over(b), x) \in Least(a) .. Bound(a)
    BY DEF Proper
  <2>2. Ranked(x) => Rank(Over(b), x) \in Least(b) .. Bound(b)
    BY <1>1, <2>1
  <2> QED BY <2>2 DEF Proper, Gains
<1>3. q \in Seq(Proper(p, a)) /\ q \in Seq(Proper(p, b)) /\ Ordered(Over(b), q)
  BY <1>2 DEF Reports
<1>4. /\ r \in Seq(Proper(p, b)) /\ Len(q) \in Nat /\ Len(m) \in Nat /\ Len(r) = Len(q) + Len(m)
      /\ \A k \in 1 .. Len(q) : r[k] = q[k]
      /\ \A k \in 1 .. Len(r) : k \in 1 .. Len(q) \/ (k - Len(q) \in 1 .. Len(m) /\ r[k] = m[k - Len(q)])
  BY <1>3, OnParts
<1>5. Ordered(Over(b), r)
  <2> SUFFICES ASSUME NEW j \in 1 .. Len(r), NEW k \in 1 .. Len(r),
                      j <= k, Ranked(r[j]), Ranked(r[k])
               PROVE  Rank(Over(b), r[j]) <= Rank(Over(b), r[k])
    BY DEF Ordered
  <2>1. CASE k \in 1 .. Len(q)
    <3>1. j \in 1 .. Len(q)
      BY <2>1, <1>4
    <3> QED BY <2>1, <3>1, <1>3, <1>4 DEF Ordered
  <2>2. CASE k \notin 1 .. Len(q)
    <3>1. k - Len(q) \in 1 .. Len(m) /\ r[k] = m[k - Len(q)]
      BY <2>2, <1>4
    <3>2. CASE j \in 1 .. Len(q)
      <4>1. r[j] = q[j] /\ q[j] \in Proper(p, a)
        BY <3>2, <1>3, <1>4
      <4>2. Rank(Over(a), r[j]) \in Least(a) .. Bound(a)
        BY <4>1 DEF Proper
      <4>3. Bound(a) <= Rank(Over(b), r[k])
        BY <3>1
      <4>4. Rank(Over(b), r[k]) \in 0 .. 6
        BY RankTyped, <1>1
      <4>5. Rank(Over(b), r[j]) \in Least(a) .. Bound(a)
        BY <4>2, Zenon
      <4> QED BY <4>3, <4>4, <4>5, <1>1, UpTo, Zenon
    <3>3. CASE j \notin 1 .. Len(q)
      <4>1. j - Len(q) \in 1 .. Len(m) /\ r[j] = m[j - Len(q)]
        BY <3>3, <1>4
      <4>2. j - Len(q) <= k - Len(q)
        BY <1>4
      <4> QED BY <3>1, <4>1, <4>2 DEF Ordered
    <3> QED BY <3>2, <3>3
  <2> QED BY <2>1, <2>2
<1>6. ASSUME Owes(b)
      PROVE  Owed(r)
  <2>1. CASE Owed(q)
    <3>1. PICK k \in 1 .. Len(q) : q[k].type = "ready" /\ q[k].state = Debriefing
      BY <2>1 DEF Owed
    <3>2. k \in 1 .. Len(r) /\ r[k] = q[k]
      BY <1>4
    <3> QED BY <3>1, <3>2 DEF Owed
  <2>2. CASE Owed(m)
    <3>1. PICK k \in 1 .. Len(m) : m[k].type = "ready" /\ m[k].state = Debriefing
      BY <2>2 DEF Owed
    <3>2. Len(q) + k \in 1 .. Len(r) /\ r[Len(q) + k] = m[k]
      BY <1>3, <1>4
    <3> QED BY <3>1, <3>2 DEF Owed
  <2> QED BY <1>6, <2>1, <2>2 DEF Reports
<1> QED BY <1>4, <1>5, <1>6 DEF Reports

-----------------------------------------------------------------------------
(* What is under way to the player's client.                               *)

(* Changes of the phase it may still hear of.                              *)
Hearable(a, s) ==
    /\ ~(a.state = Briefing /\ a.phase = Briefing)
    /\ a.phase = Play => s = Play
    /\ a.phase = Debriefing /\ a.holds => s \in {Play, Debriefing}
    /\ s = Briefing => a.phase = Briefing /\ a.info = Briefing /\ a.screen \in Away

Fitting(a) ==
    {m \in Messages :
        /\ m.type \notin {"roles", "time"}
        /\ m.type = "header" => m.mission \in 1 .. MaxMissions
        /\ m.type = "identity" => a.known
        /\ m.type = "state" => Hearable(a, m.to)}

(* The briefing is not called off before the client has heard of it.       *)
BriefedLast(q) ==
    \A j, k \in 1 .. Len(q) :
        q[j].type = "state" /\ q[j].to = Briefing /\ q[k].type = "state" => k <= j

Told(a, q) == q \in Seq(Fitting(a)) /\ BriefedLast(q)

(* A player logs in once.                                                  *)
Greeted(a, qc, qs) ==
    /\ Single("player", qc) /\ Single("login", qs)
    /\ Free("player", qc) \/ Free("login", qs)
    /\ a.known => Free("player", qc) /\ Free("login", qs)

(* The client, and where it is left: with the slots of the server, if it knows
   any, and at the phase in which the server has the player.                 *)
Knows(a, t) == Walker(a.state, a.head, t, a.all, a.person)

Leaves(a, rs, d) ==
    /\ d.state \in Phases /\ d.head \in BOOLEAN /\ d.file \in BOOLEAN /\ d.person \in BOOLEAN
    /\ d.head => d.roles = rs
    /\ a.info = LoadIsland /\ a.phase \in {LoadIsland, Briefing} => d.state = LoadIsland
    /\ a.phase = Briefing /\ a.info >= Briefing => d.state = Briefing /\ d.person
    /\ d.state = Briefing => a.phase = Briefing /\ a.info >= Briefing
    /\ d.state = Play <=> a.phase = Play
    /\ d.state = Debriefing <=> a.phase = Debriefing /\ a.holds

Led(p, a, t, rs, q) == \E d : Way(p, Knows(a, t), q, d) /\ Leaves(a, rs, d)

Fits(p, a, t, rs, qc, qs) ==
    Core(a) /\ Reports(p, a, qs) /\ Told(a, qc) /\ Greeted(a, qc, qs) /\ Led(p, a, t, rs, qc)

(* Whoever could hear something, still can.                                *)
Heeds(a, b) == (a.known => b.known) /\ \A s \in Phases : Hearable(a, s) => Hearable(b, s)

LEMMA MessageTyped ==
    ASSUME NEW m \in Messages
    PROVE  /\ m.type \in {"state", "file", "world", "time", "player", "identity",
                          "header", "roles", "role"}
           /\ m.type = "state" => m.to \in Phases
           /\ m.type = "world" => m.person \in {0} \cup Slots
           /\ m.type \in {"header", "roles"} => m.roles \in SlotTable
           /\ m.type = "role" => m.slot \in Slots /\ m.player \in Players \cup {AI}
<1>1. CASE m \in [type : {"state"}, to : Phases]
  BY <1>1
<1>2. CASE m \in [type : {"file"}, mission : Nat]
  BY <1>2
<1>3. CASE m \in [type : {"world"}, person : {0} \cup Slots]
  BY <1>3
<1>4. CASE m \in [type : {"time", "player", "identity"}]
  BY <1>4
<1>5. CASE m \in [type : {"header"}, mission : Nat, roles : SlotTable]
  BY <1>5
<1>6. CASE m \in [type : {"roles"}, roles : SlotTable]
  BY <1>6
<1>7. CASE m \in [type : {"role"}, slot : Slots, player : Players \cup {AI}]
  BY <1>7
<1> QED BY <1>1, <1>2, <1>3, <1>4, <1>5, <1>6, <1>7, Zenon DEF Messages, Quiet, Tables

LEMMA FittingGrows ==
    ASSUME NEW a, NEW b, Heeds(a, b)
    PROVE  Fitting(a) \subseteq Fitting(b)
<1> SUFFICES ASSUME NEW m \in Fitting(a)
             PROVE  m \in Fitting(b)
  OBVIOUS
<1>1. m \in Messages
  BY DEF Fitting
<1>2. m.type = "state" => m.to \in Phases
  BY <1>1, MessageTyped
<1> QED BY <1>1, <1>2 DEF Fitting, Heeds

LEMMA ToldKept ==
    ASSUME NEW a, NEW b, NEW q, Told(a, q), Heeds(a, b)
    PROVE  Told(b, q)
BY FittingGrows DEF Told

LEMMA ToldSent ==
    ASSUME NEW a, NEW b, NEW q, Told(a, q), Heeds(a, b), NEW m \in Seq(Fitting(b)), NEW r, r = q \o m,
           Free("state", m) \/ (~Hearable(a, Briefing) /\ BriefedLast(m))
    PROVE  Told(b, r)
<1>1. q \in Seq(Fitting(a)) /\ q \in Seq(Fitting(b)) /\ BriefedLast(q)
  BY FittingGrows DEF Told
<1>2. /\ r \in Seq(Fitting(b)) /\ Len(q) \in Nat /\ Len(m) \in Nat /\ Len(r) = Len(q) + Len(m)
      /\ \A k \in 1 .. Len(q) : r[k] = q[k]
      /\ \A k \in 1 .. Len(r) : k \in 1 .. Len(q) \/ (k - Len(q) \in 1 .. Len(m) /\ r[k] = m[k - Len(q)])
  BY <1>1, OnParts
<1>3. ASSUME NEW j \in 1 .. Len(r), NEW k \in 1 .. Len(r),
             r[j].type = "state", r[j].to = Briefing, r[k].type = "state"
      PROVE  k <= j
  <2>1. CASE Free("state", m)
    <3>1. j \in 1 .. Len(q) /\ k \in 1 .. Len(q)
      BY <2>1, <1>2, <1>3 DEF Free
    <3> QED BY <3>1, <1>1, <1>2, <1>3 DEF BriefedLast
  <2>2. CASE ~Hearable(a, Briefing) /\ BriefedLast(m)
    <3>1. j \notin 1 .. Len(q)
      <4> SUFFICES ASSUME j \in 1 .. Len(q)
                   PROVE  FALSE
        OBVIOUS
      <4>1. q[j] \in Fitting(a) /\ q[j].type = "state" /\ q[j].to = Briefing
        BY <1>1, <1>2, <1>3
      <4> QED BY <4>1, <2>2 DEF Fitting
    <3>2. j - Len(q) \in 1 .. Len(m) /\ r[j] = m[j - Len(q)]
      BY <3>1, <1>2
    <3>3. CASE k \in 1 .. Len(q)
      BY <3>1, <3>3, <1>2
    <3>4. CASE k \notin 1 .. Len(q)
      <4>1. k - Len(q) \in 1 .. Len(m) /\ r[k] = m[k - Len(q)]
        BY <3>4, <1>2
      <4>2. k - Len(q) <= j - Len(q)
        BY <4>1, <3>2, <2>2, <1>3 DEF BriefedLast
      <4> QED BY <4>2, <1>2
    <3> QED BY <3>3, <3>4
  <2> QED BY <2>1, <2>2
<1>4. BriefedLast(r)
  BY <1>3, Zenon DEF BriefedLast
<1> QED BY <1>2, <1>4 DEF Told

(* The client reads the first: from the briefing on there is nothing to hear. *)
LEMMA ToldRead ==
    ASSUME NEW a, NEW b, NEW q, Told(a, q), q # <<>>, NEW r, r = Tail(q), NEW m, m = Head(q),
           (a.known => b.known),
           ~(m.type = "state" /\ m.to = Briefing) => Heeds(a, b)
    PROVE  Told(b, r) /\ m \in Fitting(a)
<1>1. q \in Seq(Fitting(a)) /\ BriefedLast(q)
  BY DEF Told
<1>2. /\ r \in Seq(Fitting(a)) /\ Len(q) \in Nat /\ Len(r) \in Nat /\ Len(q) = Len(r) + 1
      /\ Head(q) = q[1] /\ 1 \in 1 .. Len(q) /\ q[1] \in Fitting(a)
      /\ \A k \in 1 .. Len(r) : r[k] = q[k + 1] /\ k + 1 \in 1 .. Len(q)
  BY <1>1, TailParts
<1>3. BriefedLast(r)
  <2> SUFFICES ASSUME NEW j \in 1 .. Len(r), NEW k \in 1 .. Len(r),
                      r[j].type = "state", r[j].to = Briefing, r[k].type = "state"
               PROVE  k <= j
    BY DEF BriefedLast
  <2>1. r[j] = q[j + 1] /\ j + 1 \in 1 .. Len(q) /\ r[k] = q[k + 1] /\ k + 1 \in 1 .. Len(q)
    BY <1>2
  <2>2. k + 1 <= j + 1
    BY <1>1, <2>1 DEF BriefedLast
  <2> QED BY <2>2
<1>4. CASE m.type = "state" /\ m.to = Briefing
  <2>1. ASSUME NEW k \in 1 .. Len(r)
        PROVE  r[k] \in Fitting(b)
    <3>1. r[k] = q[k + 1] /\ k + 1 \in 1 .. Len(q) /\ ~(k + 1 <= 1)
      BY <1>2
    <3>2. r[k].type # "state"
      BY <3>1, <1>1, <1>2, <1>4 DEF BriefedLast
    <3>3. r[k] \in Fitting(a)
      BY <1>2
    <3> QED BY <3>2, <3>3 DEF Fitting
  <2>2. r \in Seq(Fitting(b))
    BY <1>2, <2>1, SeqIn
  <2> QED BY <2>2, <1>2, <1>3 DEF Told
<1>5. CASE ~(m.type = "state" /\ m.to = Briefing)
  <2>1. r \in Seq(Fitting(b))
    BY <1>2, <1>5, FittingGrows
  <2> QED BY <2>1, <1>2, <1>3 DEF Told
<1> QED BY <1>4, <1>5

LEMMA BriefedLastOn ==
    ASSUME NEW S, NEW q \in Seq(S), NEW x \in S, NEW r, r = q \o <<x>>,
           \A k \in 1 .. Len(q) : ~(q[k].type = "state" /\ q[k].to = Briefing)
    PROVE  BriefedLast(r)
<1>1. PICK m : m = <<x>>
  OBVIOUS
<1>2. m \in Seq(S) /\ Len(m) = 1 /\ m[1] = x
  BY <1>1
<1>3. /\ r \in Seq(S) /\ Len(q) \in Nat /\ Len(m) \in Nat /\ Len(r) = Len(q) + Len(m)
      /\ \A k \in 1 .. Len(q) : r[k] = q[k]
      /\ \A k \in 1 .. Len(r) : k \in 1 .. Len(q) \/ (k - Len(q) \in 1 .. Len(m) /\ r[k] = m[k - Len(q)])
  BY <1>1, <1>2, OnParts
<1> SUFFICES ASSUME NEW j \in 1 .. Len(r), NEW k \in 1 .. Len(r),
                    r[j].type = "state", r[j].to = Briefing, r[k].type = "state"
             PROVE  k <= j
  BY DEF BriefedLast
<1>4. j \notin 1 .. Len(q)
  BY <1>3
<1>5. j = Len(r)
  BY <1>2, <1>3, <1>4
<1> QED BY <1>3, <1>5

-----------------------------------------------------------------------------
(* Leading the client.                                                     *)

LEMMA LedKept ==
    ASSUME NEW p, NEW a, NEW b, NEW t, NEW u, NEW rs, NEW ss, NEW S, NEW q \in Seq(S),
           Led(p, a, t, rs, q), Knows(a, t) = Knows(b, u),
           \A d : Leaves(a, rs, d) /\ (a.head => d.head) /\ (a.all => d.file) => Leaves(b, ss, d)
    PROVE  Led(p, b, u, ss, q)
<1>1. PICK d : Way(p, Knows(a, t), q, d) /\ Leaves(a, rs, d)
  BY DEF Led
<1>2. PICK w : w = Knows(a, t)
  OBVIOUS
<1>3. (w.head => d.head) /\ (w.file => d.file)
  BY <1>1, <1>2, WayKeeps
<1>4. w.head = a.head /\ w.file = a.all
  BY <1>2 DEF Knows, Walker
<1>5. Leaves(b, ss, d)
  BY <1>1, <1>3, <1>4
<1> QED BY <1>1, <1>5 DEF Led

LEMMA LedSent ==
    ASSUME NEW p, NEW a, NEW b, NEW t, NEW u, NEW rs, NEW ss, NEW S, NEW q \in Seq(S), NEW m \in Seq(S),
           NEW r, r = q \o m, Led(p, a, t, rs, q), Knows(a, t) = Knows(b, u),
           \A d : Leaves(a, rs, d) /\ (a.head => d.head) /\ (a.all => d.file)
                    => \E e : Way(p, d, m, e) /\ Leaves(b, ss, e)
    PROVE  Led(p, b, u, ss, r)
<1>1. PICK d : Way(p, Knows(a, t), q, d) /\ Leaves(a, rs, d)
  BY DEF Led
<1>2. PICK w : w = Knows(a, t)
  OBVIOUS
<1>3. (w.head => d.head) /\ (w.file => d.file)
  BY <1>1, <1>2, WayKeeps
<1>4. w.head = a.head /\ w.file = a.all
  BY <1>2 DEF Knows, Walker
<1>5. PICK e : Way(p, d, m, e) /\ Leaves(b, ss, e)
  BY <1>1, <1>3, <1>4
<1>6. Way(p, w, r, e)
  BY <1>1, <1>2, <1>5, WayOn, Zenon
<1> QED BY <1>2, <1>5, <1>6 DEF Led

LEMMA LedRead ==
    ASSUME NEW p, NEW a, NEW t, NEW rs, NEW S, NEW q \in Seq(S), q # <<>>,
           Led(p, a, t, rs, q), NEW r, r = Tail(q), NEW m, m = Head(q)
    PROVE  /\ Takes(p, Knows(a, t), m)
           /\ \E d : /\ Leaves(a, rs, d) /\ Way(p, After(p, Knows(a, t), m), r, d)
                     /\ After(p, Knows(a, t), m).head => d.head
                     /\ After(p, Knows(a, t), m).file => d.file
<1>1. PICK d : Way(p, Knows(a, t), q, d) /\ Leaves(a, rs, d)
  BY DEF Led
<1>2. PICK w : w = Knows(a, t)
  OBVIOUS
<1>3. Takes(p, w, m) /\ Way(p, After(p, w, m), r, d)
  BY <1>1, <1>2, WayFromHead, Zenon
<1>4. r \in Seq(S)
  OBVIOUS
<1>5. PICK x : x = After(p, w, m)
  OBVIOUS
<1>6. (x.head => d.head) /\ (x.file => d.file)
  BY <1>3, <1>4, <1>5, WayKeeps
<1> QED BY <1>1, <1>2, <1>3, <1>5, <1>6

(* One message.                                                            *)
LEMMA AfterState ==
    ASSUME NEW p, NEW w, NEW s, w.head \in BOOLEAN, w.file \in BOOLEAN, w.person \in BOOLEAN,
           NEW e, e = After(p, w, State(s))
    PROVE  /\ e.state = Turned(p, w, s) /\ e.head = w.head /\ e.roles = w.roles /\ e.file = w.file
           /\ e.person = (w.person /\ ~(s = LoadIsland /\ w.state < LoadIsland))
BY DEF After, Walker, State, Applied, Loads

LEMMA AfterRole ==
    ASSUME NEW p, NEW w, NEW r, NEW o, w.head \in BOOLEAN, w.file \in BOOLEAN, w.person \in BOOLEAN,
           NEW e, e = After(p, w, Role(r, o))
    PROVE  /\ e.state = w.state /\ e.head = w.head /\ e.file = w.file /\ e.person = w.person
           /\ e.roles = Applied(w.roles, Role(r, o))
BY DEF After, Walker, Role, Loads

LEMMA AfterWorld ==
    ASSUME NEW p, NEW w, NEW n, w.head \in BOOLEAN, w.file \in BOOLEAN, w.person \in BOOLEAN,
           NEW e, e = After(p, w, World(n))
    PROVE  /\ e.state = w.state /\ e.head = w.head /\ e.file = w.file /\ e.roles = w.roles
           /\ e.person = (w.person \/ (n # 0 /\ w.state >= LoadIsland))
BY DEF After, Walker, World, Applied, Loads

LEMMA AfterPlain ==
    ASSUME NEW p, NEW w, NEW m, m \in {Player, Identity},
           w.head \in BOOLEAN, w.file \in BOOLEAN, w.person \in BOOLEAN,
           NEW e, e = After(p, w, m)
    PROVE  e.state = w.state /\ e.head = w.head /\ e.file = w.file /\ e.roles = w.roles /\ e.person = w.person
BY DEF After, Walker, Player, Identity, Applied, Loads

-----------------------------------------------------------------------------
(* What the steps of the server do to a player's view.                     *)

SameClient(a, b) ==
    /\ b.state = a.state /\ b.srv = a.srv /\ b.head = a.head /\ b.all = a.all
    /\ b.person = a.person /\ b.ident = a.ident /\ b.screen = a.screen
SameServer(a, b) ==
    /\ b.phase = a.phase /\ b.report = a.report /\ b.holds = a.holds
    /\ b.info = a.info /\ b.valid = a.valid /\ b.known = a.known

(* From a to b, what the player has said keeps its order and its bounds.   *)
Reranks(a, b) ==
    \/ Over(a) = Over(b) /\ Least(b) <= Least(a) /\ Bound(a) <= Bound(b)
    \/ /\ Over(a) # Over(b)
       /\ \/ Over(a) /\ Least(a) = 5 /\ Least(b) = 0
          \/ Over(a) /\ Bound(a) <= 4 /\ Least(b) <= Least(a) /\ Bound(a) <= Bound(b)
          \/ Over(b) /\ 1 <= Least(a) /\ Least(b) <= Least(a) /\ Bound(a) <= Bound(b)

Passes(a, b) ==
    Core(b) /\ Heeds(a, b) /\ Gains(a, b) /\ Reranks(a, b) /\ (Owes(b) => Owes(a)) /\ b.known = a.known

LEMMA ReportsPass ==
    ASSUME NEW p, NEW a, NEW b, NEW q, Reports(p, a, q), Passes(a, b)
    PROVE  Reports(p, b, q)
<1>1. CASE Over(a) = Over(b) /\ Least(b) <= Least(a) /\ Bound(a) <= Bound(b)
  BY <1>1, ReportsKept DEF Passes
<1>2. CASE ~(Over(a) = Over(b) /\ Least(b) <= Least(a) /\ Bound(a) <= Bound(b))
  BY <1>2, ReportsTurned DEF Passes, Reranks
<1> QED BY <1>1, <1>2


(* ChooseMission.                                                          *)
LEMMA ChoosePasses ==
    ASSUME NEW a, NEW b, Core(a), SameClient(a, b),
           a.phase = Create, ~a.report, b.phase = PrepareSide, b.report = a.report,
           b.holds = FALSE, b.info = PrepareSide, b.valid = FALSE, b.known = a.known
    PROVE  Passes(a, b) /\ ~Hearable(a, Briefing)
<1>1. Views(b)
  BY Zenon DEF Core, Views, SameClient, SameServer
<1>2. OnServer(b)
  BY DEF Core, Views, OnServer, OnClient, SameClient, SameServer, Over
<1>3. OnClient(b)
  BY DEF Core, Views, OnServer, OnClient, OnScreen, SameClient, SameServer, Over
<1>4. OnScreen(b)
  BY DEF Core, Views, OnServer, OnClient, OnScreen, SameClient, SameServer, Over
<1>5. Heeds(a, b) /\ Gains(a, b) /\ (Owes(b) => Owes(a)) /\ b.known = a.known /\ ~Hearable(a, Briefing)
  BY DEF Core, Views, OnServer, OnClient, OnScreen, SameClient, SameServer, Over, Heeds, Hearable, Gains, Owes, Away
<1>6. Reranks(a, b)
  BY DEF Core, Views, OnServer, OnClient, OnScreen, SameClient, SameServer, Over, Reranks, Least, Bound
<1> QED BY <1>1, <1>2, <1>3, <1>4, <1>5, <1>6 DEF Passes, Core

(* Launch.                                                                 *)
LEMMA LaunchPasses ==
    ASSUME NEW a, NEW b, Core(a), SameClient(a, b),
           a.phase = PrepareSide, b.phase = Transfer, b.report = a.report, b.holds = a.holds,
           b.info = IF a.holds THEN Transfer ELSE a.info, b.valid = a.valid, b.known = a.known
    PROVE  Passes(a, b) /\ ~Hearable(a, Briefing)
<1>1. Views(b)
  BY Zenon DEF Core, Views, SameClient, SameServer
<1>2. OnServer(b)
  BY DEF Core, Views, OnServer, OnClient, SameClient, SameServer, Over
<1>3. OnClient(b)
  BY DEF Core, Views, OnServer, OnClient, OnScreen, SameClient, SameServer, Over
<1>4. OnScreen(b)
  BY DEF Core, Views, OnServer, OnClient, OnScreen, SameClient, SameServer, Over
<1>5. Heeds(a, b) /\ Gains(a, b) /\ (Owes(b) => Owes(a)) /\ b.known = a.known /\ ~Hearable(a, Briefing)
  BY DEF Core, Views, OnServer, OnClient, OnScreen, SameClient, SameServer, Over, Heeds, Hearable, Gains, Owes, Away
<1>6. Reranks(a, b)
  BY DEF Core, Views, OnServer, OnClient, OnScreen, SameClient, SameServer, Over, Reranks, Least, Bound
<1> QED BY <1>1, <1>2, <1>3, <1>4, <1>5, <1>6 DEF Passes, Core

(* TransferDone.                                                           *)
LEMMA LoadPasses ==
    ASSUME NEW a, NEW b, Core(a), SameClient(a, b),
           a.phase = Transfer, b.phase = LoadIsland, b.report = a.report, b.holds = a.holds,
           b.info = IF a.holds THEN LoadIsland ELSE a.info, b.valid = a.valid, b.known = a.known
    PROVE  Passes(a, b) /\ ~Hearable(a, Briefing)
<1>1. Views(b)
  BY Zenon DEF Core, Views, SameClient, SameServer
<1>2. OnServer(b)
  BY DEF Core, Views, OnServer, OnClient, SameClient, SameServer, Over
<1>3. OnClient(b)
  BY DEF Core, Views, OnServer, OnClient, OnScreen, SameClient, SameServer, Over
<1>4. OnScreen(b)
  BY DEF Core, Views, OnServer, OnClient, OnScreen, SameClient, SameServer, Over
<1>5. Heeds(a, b) /\ Gains(a, b) /\ (Owes(b) => Owes(a)) /\ b.known = a.known /\ ~Hearable(a, Briefing)
  BY DEF Core, Views, OnServer, OnClient, OnScreen, SameClient, SameServer, Over, Heeds, Hearable, Gains, Owes, Away
<1>6. Reranks(a, b)
  BY DEF Core, Views, OnServer, OnClient, OnScreen, SameClient, SameServer, Over, Reranks, Least, Bound
<1> QED BY <1>1, <1>2, <1>3, <1>4, <1>5, <1>6 DEF Passes, Core

(* Load: the bot has reported.                                             *)
LEMMA ReadPasses ==
    ASSUME NEW a, NEW b, Core(a), SameClient(a, b),
           a.phase = LoadIsland, b.phase = LoadIsland, b.report = TRUE, b.holds = a.holds,
           b.info = a.info, b.valid = a.valid, b.known = a.known
    PROVE  Passes(a, b)
<1>1. Views(b)
  BY Zenon DEF Core, Views, SameClient, SameServer
<1>2. OnServer(b)
  BY DEF Core, Views, OnServer, OnClient, SameClient, SameServer, Over
<1>3. OnClient(b)
  BY DEF Core, Views, OnServer, OnClient, OnScreen, SameClient, SameServer, Over
<1>4. OnScreen(b)
  BY DEF Core, Views, OnServer, OnClient, OnScreen, SameClient, SameServer, Over
<1>5. Heeds(a, b) /\ Gains(a, b) /\ (Owes(b) => Owes(a)) /\ b.known = a.known
  BY DEF Core, Views, OnServer, OnClient, OnScreen, SameClient, SameServer, Over, Heeds, Hearable, Gains, Owes, Away
<1>6. Reranks(a, b)
  BY DEF Core, Views, OnServer, OnClient, OnScreen, SameClient, SameServer, Over, Reranks, Least, Bound
<1> QED BY <1>1, <1>2, <1>3, <1>4, <1>5, <1>6 DEF Passes, Core

(* Load that fails, LeaveDebriefing.                                       *)
LEMMA CreatePasses ==
    ASSUME NEW a, NEW b, Core(a), SameClient(a, b),
           \/ a.phase = LoadIsland
           \/ a.phase = Debriefing /\ (a.holds => a.info # Debriefing /\ a.info <= DebriefingOK),
           b.phase = Create, b.report = FALSE, b.holds = a.holds,
           b.info = Create, b.valid = a.valid, b.known = a.known
    PROVE  Passes(a, b) /\ ~Hearable(a, Briefing)
<1>1. Views(b)
  BY Zenon DEF Core, Views, SameClient, SameServer
<1>2. OnServer(b)
  BY DEF Core, Views, OnServer, OnClient, SameClient, SameServer, Over
<1>3. OnClient(b)
  BY DEF Core, Views, OnServer, OnClient, OnScreen, SameClient, SameServer, Over
<1>4. OnScreen(b)
  BY DEF Core, Views, OnServer, OnClient, OnScreen, SameClient, SameServer, Over
<1>5. Heeds(a, b) /\ Gains(a, b) /\ (Owes(b) => Owes(a)) /\ b.known = a.known /\ ~Hearable(a, Briefing)
  BY DEF Core, Views, OnServer, OnClient, OnScreen, SameClient, SameServer, Over, Heeds, Hearable, Gains, Owes, Away
<1>6. Reranks(a, b)
  BY DEF Core, Views, OnServer, OnClient, OnScreen, SameClient, SameServer, Over, Reranks, Least, Bound
<1> QED BY <1>1, <1>2, <1>3, <1>4, <1>5, <1>6 DEF Passes, Core

(* OnReadyBot.                                                             *)
LEMMA BotPasses ==
    ASSUME NEW a, NEW b, Core(a), SameClient(a, b),
           a.phase = LoadIsland, b.phase = Briefing, b.report = FALSE, b.holds = a.holds,
           b.info = IF a.holds THEN Briefing ELSE a.info, b.valid = a.valid, b.known = a.known
    PROVE  Passes(a, b) /\ ~Hearable(a, Briefing)
<1>1. Views(b)
  BY Zenon DEF Core, Views, SameClient, SameServer
<1>2. OnServer(b)
  BY DEF Core, Views, OnServer, OnClient, SameClient, SameServer, Over
<1>3. OnClient(b)
  BY DEF Core, Views, OnServer, OnClient, OnScreen, SameClient, SameServer, Over
<1>4. OnScreen(b)
  BY DEF Core, Views, OnServer, OnClient, OnScreen, SameClient, SameServer, Over
<1>5. Heeds(a, b) /\ Gains(a, b) /\ (Owes(b) => Owes(a)) /\ b.known = a.known /\ ~Hearable(a, Briefing)
  BY DEF Core, Views, OnServer, OnClient, OnScreen, SameClient, SameServer, Over, Heeds, Hearable, Gains, Owes, Away
<1>6. Reranks(a, b)
  BY DEF Core, Views, OnServer, OnClient, OnScreen, SameClient, SameServer, Over, Reranks, Least, Bound
<1> QED BY <1>1, <1>2, <1>3, <1>4, <1>5, <1>6 DEF Passes, Core

(* StartPlay.                                                              *)
LEMMA StartPlayPasses ==
    ASSUME NEW a, NEW b, Core(a), SameClient(a, b),
           a.phase = Briefing, a.holds, a.info = Play, b.phase = Play, b.report = a.report,
           b.holds = a.holds, b.info = a.info, b.valid = a.valid, b.known = a.known
    PROVE  Passes(a, b) /\ ~Hearable(a, Briefing)
<1>1. Views(b)
  BY Zenon DEF Core, Views, SameClient, SameServer
<1>2. OnServer(b)
  BY DEF Core, Views, OnServer, OnClient, SameClient, SameServer, Over
<1>3. OnClient(b)
  BY DEF Core, Views, OnServer, OnClient, OnScreen, SameClient, SameServer, Over
<1>4. OnScreen(b)
  BY DEF Core, Views, OnServer, OnClient, OnScreen, SameClient, SameServer, Over
<1>5. Heeds(a, b) /\ Gains(a, b) /\ (Owes(b) => Owes(a)) /\ b.known = a.known /\ ~Hearable(a, Briefing)
  BY DEF Core, Views, OnServer, OnClient, OnScreen, SameClient, SameServer, Over, Heeds, Hearable, Gains, Owes, Away
<1>6. Reranks(a, b)
  BY DEF Core, Views, OnServer, OnClient, OnScreen, SameClient, SameServer, Over, Reranks, Least, Bound
<1> QED BY <1>1, <1>2, <1>3, <1>4, <1>5, <1>6 DEF Passes, Core

(* EndPlay.                                                                *)
LEMMA EndPlayPasses ==
    ASSUME NEW a, NEW b, Core(a), SameClient(a, b),
           a.phase = Play, b.phase = Debriefing, b.report = a.report, b.holds = a.holds,
           b.info = Debriefing, b.valid = a.valid, b.known = a.known
    PROVE  Passes(a, b) /\ ~Hearable(a, Briefing)
<1>1. Views(b)
  BY Zenon DEF Core, Views, SameClient, SameServer
<1>2. OnServer(b)
  BY DEF Core, Views, OnServer, OnClient, SameClient, SameServer, Over
<1>3. OnClient(b)
  BY DEF Core, Views, OnServer, OnClient, OnScreen, SameClient, SameServer, Over
<1>4. OnScreen(b)
  BY DEF Core, Views, OnServer, OnClient, OnScreen, SameClient, SameServer, Over
<1>5. Heeds(a, b) /\ Gains(a, b) /\ (Owes(b) => Owes(a)) /\ b.known = a.known /\ ~Hearable(a, Briefing)
  BY DEF Core, Views, OnServer, OnClient, OnScreen, SameClient, SameServer, Over, Heeds, Hearable, Gains, Owes, Away
<1>6. Reranks(a, b)
  BY DEF Core, Views, OnServer, OnClient, OnScreen, SameClient, SameServer, Over, Reranks, Least, Bound
<1> QED BY <1>1, <1>2, <1>3, <1>4, <1>5, <1>6 DEF Passes, Core

-----------------------------------------------------------------------------
(* What the player's own messages do to it.                                *)

Reads(a, b, m) ==
    /\ Core(b) /\ Heeds(a, b) /\ Gains(a, b) /\ Over(a) = Over(b)
    /\ IF Ranked(m) THEN Least(b) <= Rank(Over(a), m) ELSE Least(b) <= Least(a)
    /\ Bound(a) <= Bound(b)
    /\ Owes(b) => Owes(a) /\ ~(m.type = "ready" /\ m.state = Debriefing)

LEMMA ReportsHeard ==
    ASSUME NEW p, NEW a, NEW b, NEW q, Reports(p, a, q), q # <<>>, NEW r, r = Tail(q),
           NEW m, m = Head(q), Reads(a, b, m)
    PROVE  Reports(p, b, r)
<1>1. /\ Gains(a, b) /\ Over(a) = Over(b) /\ Bound(a) <= Bound(b)
      /\ IF Ranked(m) THEN Least(b) <= Rank(Over(a), m) ELSE Least(b) <= Least(a)
      /\ Owes(b) => Owes(a) /\ ~(m.type = "ready" /\ m.state = Debriefing)
  BY DEF Reads
<1> QED BY <1>1, ReportsRead

LEMMA ProperTyped ==
    ASSUME NEW p, NEW a, NEW m \in Proper(p, a)
    PROVE  /\ m.type \in {"login", "ask", "ready", "claim"}
           /\ m.type = "ask" => m.valid \in BOOLEAN /\ (m.valid => a.all)
           /\ m.type = "ready" => m.state \in Phases /\ Rank(Over(a), m) \in Least(a) .. Bound(a)
           /\ m.type = "claim" => /\ m.slot \in Slots /\ m.player \in {AI, p} /\ a.ident /\ a.head
                                  /\ Rank(Over(a), m) \in Least(a) .. Bound(a)
<1>1. m \in Requests /\ m.type # "order"
  BY DEF Proper
<1>2. m.type \in {"login", "ask", "ready", "claim", "order"}
  <2>1. CASE m \in [type : {"ready"}, state : Phases]
    BY <2>1
  <2>2. CASE m \in [type : {"ask"}, valid : BOOLEAN]
    BY <2>2
  <2>3. CASE m \in [type : {"claim"}, slot : Slots, player : Players \cup {AI}]
    BY <2>3
  <2>4. CASE m \in [type : {"login"}] \cup [type : {"order"}, what : Orders \cup {"login"}]
    BY <2>4
  <2> QED BY <1>1, <2>1, <2>2, <2>3, <2>4 DEF Requests
<1>3. /\ m.type = "ask" => m.valid \in BOOLEAN
      /\ m.type = "ready" => m.state \in Phases
      /\ m.type = "claim" => m.slot \in Slots
  BY <1>1, RequestTyped
<1> QED BY <1>1, <1>2, <1>3 DEF Proper, Ranked

(* OnLogin: nobody logs in who is known.                                   *)
LEMMA LoginReads ==
    ASSUME NEW a, NEW b, Core(a), SameClient(a, b), ~a.known, NEW m, m.type = "login",
           b.phase = a.phase, b.report = a.report, b.holds = a.holds, b.known = TRUE,
           b.info = IF a.phase >= PrepareSide THEN PrepareSide ELSE LoggedIn,
           b.valid = (a.valid /\ ~(a.phase >= PrepareSide))
    PROVE  Reads(a, b, m) /\ ~Hearable(a, Briefing)
<1>0. a.info < Transfer /\ ~a.holds /\ a.phase # Play
  BY DEF Core, Views, OnServer, OnClient
<1>1. Views(b)
  BY DEF Core, Views, SameClient
<1>2. OnServer(b)
  BY <1>0 DEF Core, Views, OnServer, OnClient, SameClient, Over
<1>3. OnClient(b)
  BY <1>0 DEF Core, Views, OnServer, OnClient, OnScreen, SameClient, Over
<1>4. OnScreen(b)
  BY <1>0 DEF Core, Views, OnServer, OnClient, OnScreen, SameClient, Over
<1>5. Heeds(a, b) /\ Gains(a, b) /\ ~Hearable(a, Briefing) /\ Over(a) = Over(b) /\ ~Owes(b)
  BY <1>0 DEF Core, Views, OnServer, OnClient, OnScreen, SameClient, Over, Heeds, Hearable, Gains, Owes, Away
<1>6. Least(b) <= Least(a) /\ Bound(a) <= Bound(b)
  BY <1>0 DEF Core, Views, OnServer, OnClient, OnScreen, SameClient, Over, Least, Bound
<1> QED BY <1>1, <1>2, <1>3, <1>4, <1>5, <1>6 DEF Reads, Core, Ranked

(* OnAskMissionFile.                                                       *)
LEMMA AskReads ==
    ASSUME NEW a, NEW b, Core(a), SameClient(a, b), NEW m, m.type = "ask", m.valid \in BOOLEAN, m.valid => a.all,
           b.phase = a.phase, b.report = a.report, b.holds = a.holds, b.known = a.known,
           b.info = a.info, b.valid = (a.valid \/ m.valid)
    PROVE  Reads(a, b, m)
<1>1. Core(b)
  BY DEF Core, Views, OnServer, OnClient, OnScreen, SameClient, Over
<1>2. Heeds(a, b) /\ Gains(a, b) /\ Over(a) = Over(b) /\ (Owes(b) <=> Owes(a))
  BY DEF SameClient, Over, Heeds, Hearable, Gains, Owes
<1>3. Least(b) = Least(a) /\ Bound(a) = Bound(b)
  BY DEF SameClient, Over, Least, Bound
<1> QED BY <1>1, <1>2, <1>3, BoundsTyped DEF Reads, Ranked

(* OnReady, and OnReadyBriefing: of a phase that is gone the server is not told
   once the mission is under way.                                            *)
LEMMA ReadyReads ==
    ASSUME NEW a, NEW b, Core(a), SameClient(a, b), NEW m, m.type = "ready", m.state \in Phases,
           Rank(Over(a), m) \in Least(a) .. Bound(a),
           b.phase = a.phase, b.report = a.report, b.holds = a.holds, b.known = a.known, b.valid = a.valid,
           b.info = IF a.phase \in Transfer .. Briefing /\ a.info >= Transfer /\ m.state <= PrepareOK
                    THEN a.info ELSE m.state
    PROVE  Reads(a, b, m) /\ ~(a.phase = Play /\ a.info = Briefing)
<1>0. m.state \in {PrepareSide, PrepareRole, PrepareOK, Briefing, Play, Debriefing, DebriefingOK}
  <2>1. Bound(a) <= 5 /\ Bound(a) \in 0 .. 5 /\ Least(a) \in 0 .. 5
    BY BoundsTyped
  <2>2. Rank(Over(a), m) # 6
    BY <2>1
  <2> QED BY <2>2 DEF Rank
<1>1. Views(b)
  BY <1>0 DEF Core, Views, SameClient
<1>2. OnServer(b)
  BY <1>0 DEF Core, Views, OnServer, OnClient, OnScreen, SameClient, Over, Rank, Least, Bound
<1>3. OnClient(b)
  BY <1>0 DEF Core, Views, OnServer, OnClient, OnScreen, SameClient, Over, Rank, Least, Bound
<1>4. OnScreen(b)
  BY <1>0 DEF Core, Views, OnServer, OnClient, OnScreen, SameClient, Over, Rank, Least, Bound
<1>5. Heeds(a, b) /\ Gains(a, b) /\ Over(a) = Over(b)
  BY <1>0 DEF Core, Views, OnServer, OnClient, OnScreen, SameClient, Over, Heeds, Hearable, Gains, Away,
         Rank, Least, Bound
<1>6. Owes(b) => Owes(a) /\ m.state # Debriefing
  BY <1>0 DEF Core, Views, OnServer, OnClient, OnScreen, SameClient, Over, Owes, Rank, Least, Bound
<1>7. Least(b) <= Rank(Over(a), m) /\ Bound(a) <= Bound(b)
  BY <1>0 DEF Core, Views, OnServer, OnClient, OnScreen, SameClient, Over, Rank, Least, Bound
<1>8. ~(a.phase = Play /\ a.info = Briefing)
  BY DEF Core, OnServer
<1> QED BY <1>1, <1>2, <1>3, <1>4, <1>5, <1>6, <1>7, <1>8 DEF Reads, Core, Ranked

(* OnClaim that is not granted.                                            *)
LEMMA RefusedReads ==
    ASSUME NEW a, NEW b, Core(a), SameClient(a, b), SameServer(a, b), NEW m, m.type = "claim",
           Rank(Over(a), m) \in Least(a) .. Bound(a)
    PROVE  Reads(a, b, m)
<1>1. Core(b)
  BY DEF Core, Views, OnServer, OnClient, OnScreen, SameClient, SameServer, Over
<1>2. Heeds(a, b) /\ Gains(a, b) /\ Over(a) = Over(b) /\ (Owes(b) <=> Owes(a))
  BY DEF SameClient, SameServer, Over, Heeds, Hearable, Gains, Owes
<1>3. Least(b) = Least(a) /\ Bound(a) = Bound(b)
  BY DEF SameClient, SameServer, Over, Least, Bound
<1>4. Least(a) \in 0 .. 5 /\ Bound(a) \in 0 .. 5 /\ Over(a) \in BOOLEAN
  BY BoundsTyped
<1>5. Rank(Over(a), m) \in 0 .. 6
  BY <1>4, RankTyped
<1> QED BY <1>1, <1>2, <1>3, <1>4, <1>5 DEF Reads, Ranked

(* And one that is: the player may have missed the start of the mission.   *)
Misses(a, b) == a.phase \in Transfer .. Briefing /\ a.info < Briefing /\ b.holds

LEMMA GrantedReads ==
    ASSUME NEW a, NEW b, Core(a), SameClient(a, b), NEW m, m.type = "claim",
           Rank(Over(a), m) \in Least(a) .. Bound(a), a.ident, a.head,
           a.phase = PrepareSide \/ (a.phase \in Transfer .. Briefing /\ a.info < Play),
           b.phase = a.phase, b.report = a.report, b.known = a.known, b.valid = a.valid,
           b.holds \in BOOLEAN, b.holds \/ a.holds,
           b.info = IF ~Misses(a, b) THEN a.info
                    ELSE IF a.phase >= LoadIsland THEN a.phase
                    ELSE IF a.info > Transfer THEN a.info ELSE Transfer
    PROVE  Reads(a, b, m) /\ (Misses(a, b) => ~Hearable(a, Briefing))
<1>0. Rank(Over(a), m) = 1
  BY DEF Rank
<1>1. Views(b)
  BY DEF Core, Views, SameClient
<1>2. OnServer(b)
  BY <1>0 DEF Core, Views, OnServer, OnClient, OnScreen, SameClient, Over, Least, Bound, Misses
<1>3. OnClient(b)
  BY <1>0 DEF Core, Views, OnServer, OnClient, OnScreen, SameClient, Over, Least, Bound, Misses
<1>4. OnScreen(b)
  BY <1>0 DEF Core, Views, OnServer, OnClient, OnScreen, SameClient, Over, Least, Bound, Misses
<1>5. Heeds(a, b) /\ Gains(a, b) /\ Over(a) = Over(b)
  BY <1>0 DEF Core, Views, OnServer, OnClient, OnScreen, SameClient, Over, Heeds, Hearable, Gains, Away,
         Least, Bound, Misses
<1>6. ~Owes(b)
  BY DEF Owes
<1>7. Least(b) <= Rank(Over(a), m) /\ Bound(a) <= Bound(b)
  BY <1>0 DEF Core, Views, OnServer, OnClient, OnScreen, SameClient, Over, Least, Bound, Misses
<1>8. Misses(a, b) => ~Hearable(a, Briefing)
  BY DEF Core, Views, Misses, Hearable
<1> QED BY <1>1, <1>2, <1>3, <1>4, <1>5, <1>6, <1>7, <1>8 DEF Reads, Core, Ranked

-----------------------------------------------------------------------------
(* What the client's reading does to it.                                   *)

(* From a to b, the client has read the message m.                         *)
Learns(a, b, m) ==
    /\ Core(b) /\ Gains(a, b) /\ SameServer(a, b) /\ b.screen = a.screen
    /\ ~(m.type = "state" /\ m.to = Briefing) => Heeds(a, b)

LEMMA StateRead ==
    ASSUME NEW p, NEW a, NEW b, NEW t, NEW s \in Phases, Core(a), SameServer(a, b),
           Hearable(a, s), Takes(p, Knows(a, t), State(s)),
           b.state = Turned(p, Knows(a, t), s), b.head = a.head, b.all = a.all, b.ident = a.ident,
           b.screen = a.screen, b.person = (a.person /\ ~(s = LoadIsland /\ a.state < LoadIsland)),
           b.srv = IF Ignores(Knows(a, t), s) THEN a.srv ELSE s
    PROVE  Learns(a, b, State(s))
<1>1. PICK mine \in BOOLEAN : mine = Holds(t, p)
  BY DEF Holds
<1>2. PICK skips \in BOOLEAN : skips = (a.head /\ a.state \in Transfer .. Briefing /\ s <= DebriefingOK)
  OBVIOUS
<1>3. Ignores(Knows(a, t), s) = skips
  BY <1>2 DEF Ignores, Knows, Walker
<1>4. b.state = IF s \in {PrepareRole, PrepareOK} \/ skips \/ (s = Transfer /\ ~(a.state < LoadIsland /\ mine))
                THEN a.state ELSE s
  BY <1>1, <1>3 DEF Turned, Knows, Walker
<1>5. b.srv = IF skips THEN a.srv ELSE s
  BY <1>3
<1>6. /\ s >= PrepareSide => a.head
      /\ s = LoadIsland => mine /\ (a.state >= LoadIsland \/ a.all)
      /\ s = Briefing => a.state >= LoadIsland /\ a.person
      /\ s = Play <=> a.state = Briefing
      /\ s = Debriefing <=> a.state = Play
      /\ a.state = Debriefing => s = Create
  BY <1>1 DEF Takes, Knows, Walker, State
<1>7. Views(b)
  BY <1>4, <1>5 DEF Core, Views, SameServer
<1>8. OnServer(b)
  BY DEF Core, Views, OnServer, SameServer, Over
<1>9. OnClient(b)
  BY <1>2, <1>4, <1>5, <1>6 DEF Core, Views, OnServer, OnClient, OnScreen, SameServer, Over, Hearable, Away
<1>10. OnScreen(b)
  BY <1>2, <1>4, <1>5, <1>6 DEF Core, Views, OnServer, OnClient, OnScreen, SameServer, Over, Hearable, Away
<1>11. Gains(a, b)
  BY DEF Gains
<1>12. s # Briefing => Heeds(a, b)
  BY <1>4, <1>6 DEF Core, Views, OnServer, OnClient, OnScreen, SameServer, Over, Heeds, Hearable, Away
<1>13. State(s).type = "state" /\ State(s).to = s
  BY DEF State
<1> QED BY <1>7, <1>8, <1>9, <1>10, <1>11, <1>12, <1>13 DEF Learns, Core

(* Anything else the client hears leaves its phase, but for a file that is
   waited for: with it the client loads.                                     *)
LEMMA FileRead ==
    ASSUME NEW p, NEW a, NEW b, NEW t, NEW m, m.type = "file", Core(a), SameServer(a, b), a.head,
           b.state = IF a.state = Transfer /\ Holds(t, p) THEN LoadIsland ELSE a.state,
           b.person = (a.person /\ ~(a.state = Transfer /\ Holds(t, p))),
           b.head = a.head, b.all = TRUE, b.ident = a.ident, b.screen = a.screen, b.srv = a.srv
    PROVE  Learns(a, b, m)
<1>1. PICK mine \in BOOLEAN : mine = Holds(t, p)
  BY DEF Holds
<1>2. /\ b.state = IF a.state = Transfer /\ mine THEN LoadIsland ELSE a.state
      /\ b.person = (a.person /\ ~(a.state = Transfer /\ mine))
  BY <1>1
<1>3. Views(b)
  BY <1>2 DEF Core, Views, SameServer
<1>4. OnServer(b)
  BY DEF Core, Views, OnServer, SameServer, Over
<1>5. OnClient(b)
  BY <1>2 DEF Core, Views, OnServer, OnClient, OnScreen, SameServer, Over
<1>6. OnScreen(b)
  BY <1>2 DEF Core, Views, OnServer, OnClient, OnScreen, SameServer, Over
<1>7. Gains(a, b) /\ Heeds(a, b)
  BY <1>2 DEF Core, Views, OnServer, OnClient, OnScreen, SameServer, Over, Heeds, Hearable, Away, Gains
<1> QED BY <1>3, <1>4, <1>5, <1>6, <1>7 DEF Learns, Core

LEMMA OtherRead ==
    ASSUME NEW a, NEW b, NEW m, m.type # "state", Core(a), SameServer(a, b),
           b.state = a.state, b.srv = a.srv, b.all = a.all, b.screen = a.screen,
           {b.head, b.person, b.ident} \subseteq BOOLEAN,
           a.head => b.head, a.person => b.person, a.ident => b.ident, b.ident => b.known
    PROVE  Learns(a, b, m)
<1>1. Views(b)
  BY DEF Core, Views, SameServer
<1>2. OnServer(b)
  BY DEF Core, Views, OnServer, SameServer, Over
<1>3. OnClient(b)
  BY DEF Core, Views, OnServer, OnClient, OnScreen, SameServer, Over
<1>4. OnScreen(b)
  BY DEF Core, Views, OnServer, OnClient, OnScreen, SameServer, Over
<1>5. Gains(a, b) /\ Heeds(a, b)
  BY DEF Core, Views, OnServer, OnClient, OnScreen, SameServer, Over, Heeds, Hearable, Away, Gains
<1> QED BY <1>1, <1>2, <1>3, <1>4, <1>5 DEF Learns, Core

-----------------------------------------------------------------------------
(* What the displays, and the player in front of them, do to it.           *)

SamePlace(a, b) ==
    b.state = a.state /\ b.srv = a.srv /\ b.head = a.head /\ b.all = a.all /\ b.ident = a.ident
Shown(a) == IF \/ a.state = Transfer /\ a.srv \in Transfer .. LoadIsland
               \/ a.srv < Briefing /\ a.state >= Briefing
            THEN a.state ELSE a.srv
ShownReady(a) == IF a.srv < Briefing /\ a.state >= Briefing THEN a.state ELSE a.srv

(* From a to b, the display gives way to another.  Whoever loses his person
   is past the briefing.                                                     *)
Moved(a, b) ==
    /\ Core(b) /\ Heeds(a, b) /\ SameServer(a, b) /\ SamePlace(a, b)
    /\ Bound(a) <= Bound(b)
    /\ b.person = a.person \/ (~b.person /\ ~Hearable(a, Briefing) /\ Over(a))

(* EnterSetup.                                                             *)
LEMMA EnterSetupMoves ==
    ASSUME NEW a, NEW b, Core(a), SameServer(a, b), SamePlace(a, b), b.person = a.person, b.person \in BOOLEAN,
           a.screen = "lobby", b.screen = "setup", a.srv >= PrepareSide
    PROVE  /\ Moved(a, b)
           /\ ~Owes(b)
<1>1. Views(b)
  BY DEF Core, Views, SameServer, SamePlace, Screens
<1>2. OnServer(b)
  BY DEF Core, OnServer, SameServer, Over
<1>3. OnClient(b)
  BY DEF Core, Views, OnServer, OnClient, OnScreen, SameServer, SamePlace, Over, Shown, ShownReady
<1>4. OnScreen(b)
  BY DEF Core, Views, OnServer, OnClient, OnScreen, SameServer, SamePlace, Over, Shown, ShownReady
<1>5. Heeds(a, b)
  BY DEF Core, Views, OnServer, OnClient, OnScreen, SameServer, SamePlace, Over, Shown, ShownReady, Heeds, Hearable, Away
<1>6. Bound(a) <= Bound(b)
  BY DEF Core, Views, OnServer, OnClient, OnScreen, SameServer, SamePlace, Over, Shown, ShownReady, Bound
<1>7. ~Owes(b)
  BY DEF Core, Views, OnServer, OnClient, OnScreen, SameServer, SamePlace, Over, Shown, ShownReady, Bound, Least, Owes
<1> QED BY <1>1, <1>2, <1>3, <1>4, <1>5, <1>6, <1>7 DEF Moved, Core

(* LeaveSetup: out of the mission's lobby, into the briefing, or to wait.  *)
LEMMA BackToLobbyMoves ==
    ASSUME NEW a, NEW b, Core(a), SameServer(a, b), SamePlace(a, b), b.person = a.person, b.person \in BOOLEAN,
           a.screen = "setup", b.screen = "lobby", Shown(a) < PrepareSide
    PROVE  /\ Moved(a, b)
           /\ ~Owes(b)
<1>1. Views(b)
  BY DEF Core, Views, SameServer, SamePlace, Screens
<1>2. OnServer(b)
  BY DEF Core, OnServer, SameServer, Over
<1>3. OnClient(b)
  BY DEF Core, Views, OnServer, OnClient, OnScreen, SameServer, SamePlace, Over, Shown, ShownReady
<1>4. OnScreen(b)
  BY DEF Core, Views, OnServer, OnClient, OnScreen, SameServer, SamePlace, Over, Shown, ShownReady
<1>5. Heeds(a, b)
  BY DEF Core, Views, OnServer, OnClient, OnScreen, SameServer, SamePlace, Over, Shown, ShownReady, Heeds, Hearable, Away
<1>6. Bound(a) <= Bound(b)
  BY DEF Core, Views, OnServer, OnClient, OnScreen, SameServer, SamePlace, Over, Shown, ShownReady, Bound
<1>7. ~Owes(b)
  BY DEF Core, Views, OnServer, OnClient, OnScreen, SameServer, SamePlace, Over, Shown, ShownReady, Bound, Least, Owes
<1> QED BY <1>1, <1>2, <1>3, <1>4, <1>5, <1>6, <1>7 DEF Moved, Core

LEMMA ToBriefingMoves ==
    ASSUME NEW a, NEW b, Core(a), SameServer(a, b), SamePlace(a, b), b.person = a.person, b.person \in BOOLEAN,
           a.screen = "setup", b.screen = "getready", Shown(a) = Briefing
    PROVE  /\ Moved(a, b)
           /\ ~Owes(b)
           /\ Bound(a) <= 2
           /\ Bound(b) = 2
           /\ Least(b) <= 2
<1>0. a.state = Briefing /\ a.srv = Briefing /\ a.phase = Briefing
  BY DEF Core, Views, OnServer, OnClient, OnScreen, SameServer, SamePlace, Over, Shown, ShownReady
<1>1. Views(b)
  BY DEF Core, Views, SameServer, SamePlace, Screens
<1>2. OnServer(b)
  BY DEF Core, OnServer, SameServer, Over
<1>3. OnClient(b)
  BY <1>0 DEF Core, Views, OnServer, OnClient, OnScreen, SameServer, SamePlace, Over, Shown, ShownReady
<1>4. OnScreen(b)
  BY <1>0 DEF Core, Views, OnServer, OnClient, OnScreen, SameServer, SamePlace, Over, Shown, ShownReady
<1>5. Heeds(a, b)
  BY <1>0 DEF Core, Views, OnServer, OnClient, OnScreen, SameServer, SamePlace, Over, Shown, ShownReady, Heeds, Hearable, Away
<1>6. Bound(a) <= Bound(b)
  BY <1>0 DEF Core, Views, OnServer, OnClient, OnScreen, SameServer, SamePlace, Over, Shown, ShownReady, Bound
<1>7. ~Owes(b)
  BY <1>0 DEF Core, Views, OnServer, OnClient, OnScreen, SameServer, SamePlace, Over, Shown, ShownReady, Bound, Least, Owes
<1>8. Bound(a) <= 2
  BY <1>0 DEF Core, Views, OnServer, OnClient, OnScreen, SameServer, SamePlace, Over, Shown, ShownReady, Bound, Least, Owes
<1>9. Bound(b) = 2
  BY <1>0 DEF Core, Views, OnServer, OnClient, OnScreen, SameServer, SamePlace, Over, Shown, ShownReady, Bound, Least, Owes
<1>10. Least(b) <= 2
  BY <1>0 DEF Core, Views, OnServer, OnClient, OnScreen, SameServer, SamePlace, Over, Shown, ShownReady, Bound, Least, Owes
<1> QED BY <1>1, <1>2, <1>3, <1>4, <1>5, <1>6, <1>7, <1>8, <1>9, <1>10 DEF Moved, Core

LEMMA ToWaitMoves ==
    ASSUME NEW a, NEW b, Core(a), SameServer(a, b), SamePlace(a, b), b.person = a.person, b.person \in BOOLEAN,
           a.screen = "setup", Shown(a) \in {Briefing, Play},
           b.screen \in {"mission", "wait"}, b.screen = "mission" => a.state >= Play
    PROVE  /\ Moved(a, b)
           /\ ~Owes(b)
<1>1. Views(b)
  BY DEF Core, Views, SameServer, SamePlace, Screens
<1>2. OnServer(b)
  BY DEF Core, OnServer, SameServer, Over
<1>3. OnClient(b)
  BY DEF Core, Views, OnServer, OnClient, OnScreen, SameServer, SamePlace, Over, Shown, ShownReady
<1>4. OnScreen(b)
  BY DEF Core, Views, OnServer, OnClient, OnScreen, SameServer, SamePlace, Over, Shown, ShownReady
<1>5. Heeds(a, b)
  BY DEF Core, Views, OnServer, OnClient, OnScreen, SameServer, SamePlace, Over, Shown, ShownReady, Heeds, Hearable, Away
<1>6. Bound(a) <= Bound(b)
  BY DEF Core, Views, OnServer, OnClient, OnScreen, SameServer, SamePlace, Over, Shown, ShownReady, Bound
<1>7. ~Owes(b)
  BY DEF Core, Views, OnServer, OnClient, OnScreen, SameServer, SamePlace, Over, Shown, ShownReady, Bound, Least, Owes
<1> QED BY <1>1, <1>2, <1>3, <1>4, <1>5, <1>6, <1>7 DEF Moved, Core

(* ClickSlot, PressOK.                                                     *)
LEMMA SetupMoves ==
    ASSUME NEW a, NEW b, Core(a), SameServer(a, b), SamePlace(a, b), b.person = a.person, b.person \in BOOLEAN,
           a.screen = "setup", b.screen = "setup", Shown(a) \in PrepareSide .. LoadIsland
    PROVE  /\ Moved(a, b)
           /\ ~Owes(b)
           /\ a.head
           /\ Bound(a) = 1
           /\ Bound(b) = 1
           /\ Least(b) <= 1
<1>1. Views(b)
  BY DEF Core, Views, SameServer, SamePlace, Screens
<1>2. OnServer(b)
  BY DEF Core, OnServer, SameServer, Over
<1>3. OnClient(b)
  BY DEF Core, Views, OnServer, OnClient, OnScreen, SameServer, SamePlace, Over, Shown, ShownReady
<1>4. OnScreen(b)
  BY DEF Core, Views, OnServer, OnClient, OnScreen, SameServer, SamePlace, Over, Shown, ShownReady
<1>5. Heeds(a, b)
  BY DEF Core, Views, OnServer, OnClient, OnScreen, SameServer, SamePlace, Over, Shown, ShownReady, Heeds, Hearable, Away
<1>6. Bound(a) <= Bound(b)
  BY DEF Core, Views, OnServer, OnClient, OnScreen, SameServer, SamePlace, Over, Shown, ShownReady, Bound
<1>7. ~Owes(b)
  BY DEF Core, Views, OnServer, OnClient, OnScreen, SameServer, SamePlace, Over, Shown, ShownReady, Bound, Least, Owes
<1>8. a.head
  BY DEF Core, Views, OnServer, OnClient, OnScreen, SameServer, SamePlace, Over, Shown, ShownReady, Bound, Least, Owes
<1>9. Bound(a) = 1
  BY DEF Core, Views, OnServer, OnClient, OnScreen, SameServer, SamePlace, Over, Shown, ShownReady, Bound, Least, Owes
<1>10. Bound(b) = 1
  BY DEF Core, Views, OnServer, OnClient, OnScreen, SameServer, SamePlace, Over, Shown, ShownReady, Bound, Least, Owes
<1>11. Least(b) <= 1
  BY DEF Core, Views, OnServer, OnClient, OnScreen, SameServer, SamePlace, Over, Shown, ShownReady, Bound, Least, Owes
<1> QED BY <1>1, <1>2, <1>3, <1>4, <1>5, <1>6, <1>7, <1>8, <1>9, <1>10, <1>11 DEF Moved, Core

(* PressLaunch.                                                            *)
LEMMA LaunchMoves ==
    ASSUME NEW a, NEW b, Core(a), SameServer(a, b), SamePlace(a, b), b.person = a.person, b.person \in BOOLEAN,
           a.screen = "getready", b.screen = "launched"
    PROVE  /\ Moved(a, b)
           /\ ~Owes(b)
           /\ Bound(a) <= 3
           /\ Bound(b) = 3
           /\ Least(b) <= 3
<1>1. Views(b)
  BY DEF Core, Views, SameServer, SamePlace, Screens
<1>2. OnServer(b)
  BY DEF Core, OnServer, SameServer, Over
<1>3. OnClient(b)
  BY DEF Core, Views, OnServer, OnClient, OnScreen, SameServer, SamePlace, Over, Shown, ShownReady
<1>4. OnScreen(b)
  BY DEF Core, Views, OnServer, OnClient, OnScreen, SameServer, SamePlace, Over, Shown, ShownReady
<1>5. Heeds(a, b)
  BY DEF Core, Views, OnServer, OnClient, OnScreen, SameServer, SamePlace, Over, Shown, ShownReady, Heeds, Hearable, Away
<1>6. Bound(a) <= Bound(b)
  BY DEF Core, Views, OnServer, OnClient, OnScreen, SameServer, SamePlace, Over, Shown, ShownReady, Bound
<1>7. ~Owes(b)
  BY DEF Core, Views, OnServer, OnClient, OnScreen, SameServer, SamePlace, Over, Shown, ShownReady, Bound, Least, Owes
<1>8. Bound(a) <= 3
  BY DEF Core, Views, OnServer, OnClient, OnScreen, SameServer, SamePlace, Over, Shown, ShownReady, Bound, Least, Owes
<1>9. Bound(b) = 3
  BY DEF Core, Views, OnServer, OnClient, OnScreen, SameServer, SamePlace, Over, Shown, ShownReady, Bound, Least, Owes
<1>10. Least(b) <= 3
  BY DEF Core, Views, OnServer, OnClient, OnScreen, SameServer, SamePlace, Over, Shown, ShownReady, Bound, Least, Owes
<1> QED BY <1>1, <1>2, <1>3, <1>4, <1>5, <1>6, <1>7, <1>8, <1>9, <1>10 DEF Moved, Core

(* LeaveGetReady.                                                          *)
LEMMA ToMissionMoves ==
    ASSUME NEW a, NEW b, Core(a), SameServer(a, b), SamePlace(a, b), b.person = a.person, b.person \in BOOLEAN,
           a.screen \in {"getready", "launched"}, b.screen = "mission", ShownReady(a) = Play
    PROVE  /\ Moved(a, b)
           /\ ~Owes(b)
           /\ Bound(a) <= 3
           /\ Bound(b) = 3
           /\ Least(b) <= 3
<1>0. a.state = Play /\ a.srv = Play /\ Over(a) /\ a.holds /\ a.screen = "launched"
  BY DEF Core, Views, OnServer, OnClient, OnScreen, SameServer, SamePlace, Over, Shown, ShownReady
<1>1. Views(b)
  BY DEF Core, Views, SameServer, SamePlace, Screens
<1>2. OnServer(b)
  BY DEF Core, OnServer, SameServer, Over
<1>3. OnClient(b)
  BY <1>0 DEF Core, Views, OnServer, OnClient, OnScreen, SameServer, SamePlace, Over, Shown, ShownReady
<1>4. OnScreen(b)
  BY <1>0 DEF Core, Views, OnServer, OnClient, OnScreen, SameServer, SamePlace, Over, Shown, ShownReady
<1>5. Heeds(a, b)
  BY <1>0 DEF Core, Views, OnServer, OnClient, OnScreen, SameServer, SamePlace, Over, Shown, ShownReady, Heeds, Hearable, Away
<1>6. Bound(a) <= Bound(b)
  BY <1>0 DEF Core, Views, OnServer, OnClient, OnScreen, SameServer, SamePlace, Over, Shown, ShownReady, Bound
<1>7. ~Owes(b)
  BY <1>0 DEF Core, Views, OnServer, OnClient, OnScreen, SameServer, SamePlace, Over, Shown, ShownReady, Bound, Least, Owes
<1>8. Bound(a) <= 3
  BY <1>0 DEF Core, Views, OnServer, OnClient, OnScreen, SameServer, SamePlace, Over, Shown, ShownReady, Bound, Least, Owes
<1>9. Bound(b) = 3
  BY <1>0 DEF Core, Views, OnServer, OnClient, OnScreen, SameServer, SamePlace, Over, Shown, ShownReady, Bound, Least, Owes
<1>10. Least(b) <= 3
  BY <1>0 DEF Core, Views, OnServer, OnClient, OnScreen, SameServer, SamePlace, Over, Shown, ShownReady, Bound, Least, Owes
<1> QED BY <1>1, <1>2, <1>3, <1>4, <1>5, <1>6, <1>7, <1>8, <1>9, <1>10 DEF Moved, Core

LEMMA GiveUpMoves ==
    ASSUME NEW a, NEW b, Core(a), SameServer(a, b), SamePlace(a, b), ~b.person, b.person \in BOOLEAN,
           a.screen \in {"getready", "launched"}, b.screen = "wait", ShownReady(a) <= Debriefing \/ ShownReady(a) = Transfer
    PROVE  /\ Moved(a, b)
           /\ ~Owes(b)
<1>1. Views(b)
  BY DEF Core, Views, SameServer, SamePlace, Screens
<1>2. OnServer(b)
  BY DEF Core, OnServer, SameServer, Over
<1>3. OnClient(b)
  BY DEF Core, Views, OnServer, OnClient, OnScreen, SameServer, SamePlace, Over, Shown, ShownReady
<1>4. OnScreen(b)
  BY DEF Core, Views, OnServer, OnClient, OnScreen, SameServer, SamePlace, Over, Shown, ShownReady
<1>5. Heeds(a, b) /\ ~Hearable(a, Briefing) /\ Over(a)
  BY DEF Core, Views, OnServer, OnClient, OnScreen, SameServer, SamePlace, Over, Shown, ShownReady, Heeds, Hearable, Away
<1>6. Bound(a) <= Bound(b)
  BY DEF Core, Views, OnServer, OnClient, OnScreen, SameServer, SamePlace, Over, Shown, ShownReady, Bound
<1>7. ~Owes(b)
  BY DEF Core, Views, OnServer, OnClient, OnScreen, SameServer, SamePlace, Over, Shown, ShownReady, Bound, Least, Owes
<1> QED BY <1>1, <1>2, <1>3, <1>4, <1>5, <1>6, <1>7 DEF Moved, Core

(* LeaveMission.                                                           *)
LEMMA LeaveMissionMoves ==
    ASSUME NEW a, NEW b, Core(a), SameServer(a, b), SamePlace(a, b), ~b.person, b.person \in BOOLEAN,
           a.screen = "mission", b.screen = "debriefing"
    PROVE  /\ Moved(a, b)
           /\ Bound(a) <= 4
           /\ Bound(b) = 4
           /\ Least(b) <= 4
<1>1. Views(b)
  BY DEF Core, Views, SameServer, SamePlace, Screens
<1>2. OnServer(b)
  BY DEF Core, OnServer, SameServer, Over
<1>3. OnClient(b)
  BY DEF Core, Views, OnServer, OnClient, OnScreen, SameServer, SamePlace, Over, Shown, ShownReady
<1>4. OnScreen(b)
  BY DEF Core, Views, OnServer, OnClient, OnScreen, SameServer, SamePlace, Over, Shown, ShownReady
<1>5. Heeds(a, b) /\ ~Hearable(a, Briefing) /\ Over(a)
  BY DEF Core, Views, OnServer, OnClient, OnScreen, SameServer, SamePlace, Over, Shown, ShownReady, Heeds, Hearable, Away
<1>6. Bound(a) <= Bound(b)
  BY DEF Core, Views, OnServer, OnClient, OnScreen, SameServer, SamePlace, Over, Shown, ShownReady, Bound
<1>7. Bound(a) <= 4
  BY DEF Core, Views, OnServer, OnClient, OnScreen, SameServer, SamePlace, Over, Shown, ShownReady, Bound, Least, Owes
<1>8. Bound(b) = 4
  BY DEF Core, Views, OnServer, OnClient, OnScreen, SameServer, SamePlace, Over, Shown, ShownReady, Bound, Least, Owes
<1>9. Least(b) <= 4
  BY DEF Core, Views, OnServer, OnClient, OnScreen, SameServer, SamePlace, Over, Shown, ShownReady, Bound, Least, Owes
<1> QED BY <1>1, <1>2, <1>3, <1>4, <1>5, <1>6, <1>7, <1>8, <1>9 DEF Moved, Core

(* PressContinue.                                                          *)
LEMMA ContinueMoves ==
    ASSUME NEW a, NEW b, Core(a), SameServer(a, b), SamePlace(a, b), b.person = a.person, b.person \in BOOLEAN,
           a.screen = "debriefing", b.screen = "debriefed"
    PROVE  /\ Moved(a, b)
           /\ Owes(b) => Owes(a)
           /\ Over(b)
           /\ Bound(a) <= 5
           /\ Bound(b) = 5
           /\ Least(b) <= 5
<1>1. Views(b)
  BY DEF Core, Views, SameServer, SamePlace, Screens
<1>2. OnServer(b)
  BY DEF Core, OnServer, SameServer, Over
<1>3. OnClient(b)
  BY DEF Core, Views, OnServer, OnClient, OnScreen, SameServer, SamePlace, Over, Shown, ShownReady
<1>4. OnScreen(b)
  BY DEF Core, Views, OnServer, OnClient, OnScreen, SameServer, SamePlace, Over, Shown, ShownReady
<1>5. Heeds(a, b)
  BY DEF Core, Views, OnServer, OnClient, OnScreen, SameServer, SamePlace, Over, Shown, ShownReady, Heeds, Hearable, Away
<1>6. Bound(a) <= Bound(b)
  BY DEF Core, Views, OnServer, OnClient, OnScreen, SameServer, SamePlace, Over, Shown, ShownReady, Bound
<1>7. Owes(b) => Owes(a)
  BY DEF Core, Views, OnServer, OnClient, OnScreen, SameServer, SamePlace, Over, Shown, ShownReady, Bound, Least, Owes
<1>8. Over(b)
  BY DEF Core, Views, OnServer, OnClient, OnScreen, SameServer, SamePlace, Over, Shown, ShownReady, Bound, Least, Owes
<1>9. Bound(a) <= 5
  BY DEF Core, Views, OnServer, OnClient, OnScreen, SameServer, SamePlace, Over, Shown, ShownReady, Bound, Least, Owes
<1>10. Bound(b) = 5
  BY DEF Core, Views, OnServer, OnClient, OnScreen, SameServer, SamePlace, Over, Shown, ShownReady, Bound, Least, Owes
<1>11. Least(b) <= 5
  BY DEF Core, Views, OnServer, OnClient, OnScreen, SameServer, SamePlace, Over, Shown, ShownReady, Bound, Least, Owes
<1> QED BY <1>1, <1>2, <1>3, <1>4, <1>5, <1>6, <1>7, <1>8, <1>9, <1>10, <1>11 DEF Moved, Core

(* PressAgain.                                                             *)
LEMMA AgainMoves ==
    ASSUME NEW a, NEW b, Core(a), SameServer(a, b), SamePlace(a, b), b.person = a.person, b.person \in BOOLEAN,
           a.screen = "debriefed", b.screen = "debriefed"
    PROVE  /\ Moved(a, b)
           /\ Owes(b) => Owes(a)
           /\ Bound(a) = IF Over(b) THEN 5 ELSE 0
           /\ Bound(b) = IF Over(b) THEN 5 ELSE 0
           /\ Least(b) <= IF Over(b) THEN 5 ELSE 0
<1>1. Views(b)
  BY DEF Core, Views, SameServer, SamePlace, Screens
<1>2. OnServer(b)
  BY DEF Core, OnServer, SameServer, Over
<1>3. OnClient(b)
  BY DEF Core, Views, OnServer, OnClient, OnScreen, SameServer, SamePlace, Over, Shown, ShownReady
<1>4. OnScreen(b)
  BY DEF Core, Views, OnServer, OnClient, OnScreen, SameServer, SamePlace, Over, Shown, ShownReady
<1>5. Heeds(a, b)
  BY DEF Core, Views, OnServer, OnClient, OnScreen, SameServer, SamePlace, Over, Shown, ShownReady, Heeds, Hearable, Away
<1>6. Bound(a) <= Bound(b)
  BY DEF Core, Views, OnServer, OnClient, OnScreen, SameServer, SamePlace, Over, Shown, ShownReady, Bound
<1>7. Owes(b) => Owes(a)
  BY DEF Core, Views, OnServer, OnClient, OnScreen, SameServer, SamePlace, Over, Shown, ShownReady, Bound, Least, Owes
<1>8. Bound(a) = IF Over(b) THEN 5 ELSE 0
  BY DEF Core, Views, OnServer, OnClient, OnScreen, SameServer, SamePlace, Over, Shown, ShownReady, Bound, Least, Owes
<1>9. Bound(b) = IF Over(b) THEN 5 ELSE 0
  BY DEF Core, Views, OnServer, OnClient, OnScreen, SameServer, SamePlace, Over, Shown, ShownReady, Bound, Least, Owes
<1>10. Least(b) <= IF Over(b) THEN 5 ELSE 0
  BY DEF Core, Views, OnServer, OnClient, OnScreen, SameServer, SamePlace, Over, Shown, ShownReady, Bound, Least, Owes
<1> QED BY <1>1, <1>2, <1>3, <1>4, <1>5, <1>6, <1>7, <1>8, <1>9, <1>10 DEF Moved, Core

(* LeaveDebriefingDisplay.                                                 *)
LEMMA LeaveDebriefingMoves ==
    ASSUME NEW a, NEW b, Core(a), SameServer(a, b), SamePlace(a, b), b.person = a.person, b.person \in BOOLEAN,
           a.screen \in {"debriefing", "debriefed"}, b.screen = "setup",
           a.state \in None .. PrepareOK \cup Transfer .. Briefing
    PROVE  /\ Moved(a, b)
           /\ ~Owes(b)
<1>1. Views(b)
  BY DEF Core, Views, SameServer, SamePlace, Screens
<1>2. OnServer(b)
  BY DEF Core, OnServer, SameServer, Over
<1>3. OnClient(b)
  BY DEF Core, Views, OnServer, OnClient, OnScreen, SameServer, SamePlace, Over, Shown, ShownReady
<1>4. OnScreen(b)
  BY DEF Core, Views, OnServer, OnClient, OnScreen, SameServer, SamePlace, Over, Shown, ShownReady
<1>5. Heeds(a, b)
  BY DEF Core, Views, OnServer, OnClient, OnScreen, SameServer, SamePlace, Over, Shown, ShownReady, Heeds, Hearable, Away
<1>6. Bound(a) <= Bound(b)
  BY DEF Core, Views, OnServer, OnClient, OnScreen, SameServer, SamePlace, Over, Shown, ShownReady, Bound
<1>7. ~Owes(b)
  BY DEF Core, Views, OnServer, OnClient, OnScreen, SameServer, SamePlace, Over, Shown, ShownReady, Bound, Least, Owes
<1> QED BY <1>1, <1>2, <1>3, <1>4, <1>5, <1>6, <1>7 DEF Moved, Core

(* LeaveWait.                                                              *)
LEMMA LeaveWaitMoves ==
    ASSUME NEW a, NEW b, Core(a), SameServer(a, b), SamePlace(a, b), b.person = a.person, b.person \in BOOLEAN,
           a.screen = "wait", b.screen = "setup", a.srv \in {PrepareRole, PrepareOK} \/ a.srv <= PrepareSide
    PROVE  /\ Moved(a, b)
           /\ ~Owes(b)
<1>0. a.phase # Play /\ ~(a.phase = Debriefing /\ a.holds)
  <2>1. a.srv \notin {Briefing, Play, Debriefing} /\ a.srv \in Phases
    BY DEF Core, Views
  <2>2. a.state \in {Briefing, Play, Debriefing} => a.srv = a.state
    BY DEF Core, OnClient
  <2>3. Over(a) /\ a.holds => a.state \in {Briefing, Play, Debriefing}
    BY DEF Core, OnClient
  <2>4. a.phase # Play
    BY DEF Core, OnScreen
  <2> QED BY <2>1, <2>2, <2>3, <2>4 DEF Over
<1>1. Views(b)
  BY DEF Core, Views, SameServer, SamePlace, Screens
<1>2. OnServer(b)
  BY DEF Core, OnServer, SameServer, Over
<1>3. OnClient(b)
  BY <1>0 DEF Core, Views, OnServer, OnClient, OnScreen, SameServer, SamePlace, Over, Shown, ShownReady
<1>4. OnScreen(b)
  BY <1>0 DEF Core, Views, OnServer, OnClient, OnScreen, SameServer, SamePlace, Over, Shown, ShownReady
<1>5. Heeds(a, b)
  BY <1>0 DEF Core, Views, OnServer, OnClient, OnScreen, SameServer, SamePlace, Over, Shown, ShownReady, Heeds, Hearable, Away
<1>6. Bound(a) <= Bound(b)
  BY <1>0 DEF Core, Views, OnServer, OnClient, OnScreen, SameServer, SamePlace, Over, Shown, ShownReady, Bound
<1>7. ~Owes(b)
  BY <1>0 DEF Core, Views, OnServer, OnClient, OnScreen, SameServer, SamePlace, Over, Shown, ShownReady, Bound, Least, Owes
<1> QED BY <1>1, <1>2, <1>3, <1>4, <1>5, <1>6, <1>7 DEF Moved, Core

-----------------------------------------------------------------------------
(* From one state to the next, for one player.                             *)

LEMMA Messaged ==
    ASSUME NEW a, NEW q \in Seq(Fitting(a))
    PROVE  q \in Seq(Messages)
BY DEF Fitting

LEMMA GreetedRead ==
    ASSUME NEW a, NEW b, NEW S, NEW T, NEW qc \in Seq(S), NEW qs \in Seq(T), NEW m \in Seq(T),
           Greeted(a, qc, qs), b.known = a.known, qc # <<>>, NEW r, r = Tail(qc),
           Free("login", m), NEW z, z = qs \o m
    PROVE  Greeted(b, r, z)
<1>1. Single("player", r) /\ Single("login", z)
  BY SingleTail, SingleOn DEF Greeted
<1>2. Free("player", qc) => Free("player", r)
  BY FreeTail
<1>3. Free("login", qs) => Free("login", z)
  BY FreeOn
<1> QED BY <1>1, <1>2, <1>3 DEF Greeted

LEMMA GreetedLogin ==
    ASSUME NEW a, NEW b, NEW S, NEW T, NEW qc \in Seq(S), NEW qs \in Seq(T), NEW x \in T,
           Greeted(a, qc, qs), b.known = a.known, qc # <<>>, NEW r, r = Tail(qc),
           Head(qc).type = "player", NEW z, z = qs \o <<x>>
    PROVE  Greeted(b, r, z)
<1>1. ~Free("player", qc)
  BY FreeTail
<1>2. Free("login", qs) /\ ~a.known
  BY <1>1 DEF Greeted
<1>3. Single("player", r) /\ Free("player", r)
  BY SingleTail DEF Greeted
<1>4. Single("login", z)
  BY <1>2, SingleOne
<1> QED BY <1>2, <1>3, <1>4 DEF Greeted

LEMMA GreetedSent ==
    ASSUME NEW a, NEW b, NEW S, NEW qc \in Seq(S), NEW qs, NEW m \in Seq(S),
           Greeted(a, qc, qs), b.known = a.known, Free("player", m), NEW r, r = qc \o m
    PROVE  Greeted(b, r, qs)
<1>1. Single("player", r)
  BY SingleOn DEF Greeted
<1>2. Free("player", qc) => Free("player", r)
  BY FreeOn
<1> QED BY <1>1, <1>2 DEF Greeted

LEMMA GreetedHeard ==
    ASSUME NEW a, NEW b, NEW T, NEW qc, NEW qs \in Seq(T), Greeted(a, qc, qs), qs # <<>>,
           b.known = a.known \/ Head(qs).type = "login", NEW z, z = Tail(qs)
    PROVE  Greeted(b, qc, z)
<1>1. Single("login", z) /\ (Head(qs).type = "login" => Free("login", z))
  BY SingleTail DEF Greeted
<1>2. Free("login", qs) => Free("login", z) /\ Head(qs).type # "login"
  BY FreeTail
<1>3. CASE Head(qs).type = "login"
  BY <1>1, <1>2, <1>3 DEF Greeted
<1>4. CASE Head(qs).type # "login"
  BY <1>1, <1>2, <1>4 DEF Greeted
<1> QED BY <1>3, <1>4

(* The server sends the messages m, and the player's slots go from rs to ss. *)
Sends(p, a, b, rs, ss, m) ==
    /\ m \in Seq(Fitting(b)) /\ Free("player", m)
    /\ Free("state", m) \/ (~Hearable(a, Briefing) /\ BriefedLast(m))
    /\ \A d : Leaves(a, rs, d) /\ (a.head => d.head) /\ (a.all => d.file)
                => \E e : Way(p, d, m, e) /\ Leaves(b, ss, e)

LEMMA SameKnows ==
    ASSUME NEW a, NEW b, NEW t, SameClient(a, b)
    PROVE  Knows(a, t) = Knows(b, t)
BY DEF SameClient, Knows

LEMMA SendsLed ==
    ASSUME NEW p, NEW a, NEW b, NEW t, NEW rs, NEW ss, NEW qc, NEW m, SameClient(a, b),
           Told(a, qc), Led(p, a, t, rs, qc), Sends(p, a, b, rs, ss, m), NEW r, r = qc \o m
    PROVE  Led(p, b, t, ss, r)
<1>1. qc \in Seq(Messages)
  BY Messaged DEF Told
<1>2. m \in Seq(Messages)
  BY Messaged DEF Sends
<1>3. Knows(a, t) = Knows(b, t)
  BY SameKnows
<1>4. \A d : Leaves(a, rs, d) /\ (a.head => d.head) /\ (a.all => d.file)
               => \E e : Way(p, d, m, e) /\ Leaves(b, ss, e)
  BY DEF Sends
<1> QED BY <1>1, <1>2, <1>3, <1>4, LedSent

LEMMA ServerFits ==
    ASSUME NEW p, NEW a, NEW b, NEW t, NEW rs, NEW ss, NEW qc, NEW qs, NEW m,
           Fits(p, a, t, rs, qc, qs), SameClient(a, b), Passes(a, b), Sends(p, a, b, rs, ss, m),
           NEW r, r = qc \o m
    PROVE  Fits(p, b, t, ss, r, qs)
<1>1. Core(b) /\ Heeds(a, b) /\ b.known = a.known
  BY DEF Passes
<1>2. Reports(p, b, qs)
  BY ReportsPass DEF Fits
<1>3. Told(b, r)
  BY <1>1, ToldSent DEF Fits, Sends
<1>4. Greeted(b, r, qs)
  <2>1. qc \in Seq(Messages)
    BY Messaged DEF Fits, Told
  <2>2. m \in Seq(Messages) /\ Free("player", m)
    BY Messaged DEF Sends
  <2>3. Greeted(a, qc, qs)
    BY DEF Fits
  <2> QED BY <1>1, <2>1, <2>2, <2>3, GreetedSent
<1>5. Led(p, b, t, ss, r)
  BY SendsLed DEF Fits
<1> QED BY <1>1, <1>2, <1>3, <1>4, <1>5 DEF Fits

LEMMA HeardFits ==
    ASSUME NEW p, NEW a, NEW b, NEW t, NEW rs, NEW ss, NEW qc, NEW qs, NEW m,
           Fits(p, a, t, rs, qc, qs), SameClient(a, b), qs # <<>>, Reads(a, b, Head(qs)),
           b.known = a.known \/ (Head(qs).type = "login" /\ b.known), Sends(p, a, b, rs, ss, m),
           NEW r, r = qc \o m, NEW z, z = Tail(qs)
    PROVE  Fits(p, b, t, ss, r, z)
<1>1. Core(b) /\ Heeds(a, b)
  BY DEF Reads
<1>2. Reports(p, b, z)
  BY ReportsHeard DEF Fits
<1>3. Told(b, r)
  BY <1>1, ToldSent DEF Fits, Sends
<1>4. Greeted(b, r, z)
  <2>1. qc \in Seq(Messages)
    BY Messaged DEF Fits, Told
  <2>2. m \in Seq(Messages) /\ Free("player", m)
    BY Messaged DEF Sends
  <2>3. Greeted(a, qc, qs) /\ qs \in Seq(Proper(p, a))
    BY DEF Fits, Reports
  <2>4. Greeted(b, qc, z)
    BY <2>3, GreetedHeard
  <2> QED BY <2>1, <2>2, <2>4, GreetedSent
<1>5. Led(p, b, t, ss, r)
  BY SendsLed DEF Fits
<1> QED BY <1>1, <1>2, <1>3, <1>4, <1>5 DEF Fits

(* The client reads a message, and answers with m.                         *)
LEMMA LearnsFits ==
    ASSUME NEW p, NEW a, NEW b, NEW t, NEW u, NEW rs, NEW qc, NEW qs,
           Fits(p, a, t, rs, qc, qs), qc # <<>>, Learns(a, b, Head(qc)),
           Knows(b, u) = After(p, Knows(a, t), Head(qc)),
           NEW m \in Seq(Proper(p, b)), \A k \in 1 .. Len(m) : ~Ranked(m[k]),
           NEW r, r = Tail(qc), NEW z, z = qs \o m, Greeted(b, r, z)
    PROVE  Fits(p, b, u, rs, r, z)
<1>1. Core(b) /\ Gains(a, b) /\ SameServer(a, b) /\ b.screen = a.screen /\ b.known = a.known
  BY DEF Learns, SameServer
<1>2. Over(a) = Over(b) /\ Least(a) = Least(b) /\ Bound(a) = Bound(b) /\ (Owes(b) <=> Owes(a))
  BY <1>1 DEF SameServer, Over, Least, Bound, Owes
<1>3. Reports(p, b, z)
  <2>1. Ordered(Over(b), m)
    BY DEF Ordered
  <2>2. Reports(p, a, qs)
    BY DEF Fits
  <2>3. Least(b) <= Least(a) /\ Bound(a) <= Bound(b)
    BY <1>2, BoundsTyped
  <2>4. \A k \in 1 .. Len(m) : Ranked(m[k]) => Bound(a) <= Rank(Over(b), m[k])
    OBVIOUS
  <2> QED BY <1>1, <1>2, <2>1, <2>2, <2>3, <2>4, ReportsSaid
<1>4. Told(b, r)
  <2>1. Told(a, qc)
    BY DEF Fits
  <2>2. PICK x : x = Head(qc)
    OBVIOUS
  <2>3. ~(x.type = "state" /\ x.to = Briefing) => Heeds(a, b)
    BY <2>2 DEF Learns
  <2> QED BY <1>1, <2>1, <2>2, <2>3, ToldRead
<1>5. Led(p, b, u, rs, r)
  <2>1. qc \in Seq(Messages)
    BY Messaged DEF Fits, Told
  <2>2. PICK x : x = Head(qc)
    OBVIOUS
  <2>3. PICK d : Leaves(a, rs, d) /\ Way(p, After(p, Knows(a, t), x), r, d)
    BY <2>1, <2>2, LedRead DEF Fits
  <2>4. Leaves(b, rs, d)
    BY <1>1, <2>3 DEF Leaves, SameServer
  <2> QED BY <2>2, <2>3, <2>4 DEF Led
<1> QED BY <1>1, <1>3, <1>4, <1>5 DEF Fits

(* What the client knows when it has read a message.                       *)
LEMMA TakesHead ==
    ASSUME NEW p, NEW a, NEW t, NEW rs, NEW qc, NEW qs, Fits(p, a, t, rs, qc, qs), qc # <<>>
    PROVE  /\ Head(qc) \in Fitting(a) /\ Takes(p, Knows(a, t), Head(qc))
           /\ qc \in Seq(Messages) /\ qs \in Seq(Proper(p, a))
<1>1. qc \in Seq(Messages) /\ qs \in Seq(Proper(p, a)) /\ qc \in Seq(Fitting(a))
  BY Messaged DEF Fits, Told, Reports
<1>2. PICK r : r = Tail(qc)
  OBVIOUS
<1>3. Head(qc) \in Fitting(a)
  BY <1>1
<1>4. PICK x : x = Head(qc)
  OBVIOUS
<1>5. Takes(p, Knows(a, t), x)
  BY <1>1, <1>2, <1>4, LedRead DEF Fits
<1> QED BY <1>1, <1>3, <1>4, <1>5

(* The player's display moves on, and says m.                              *)
LEMMA MovedFits ==
    ASSUME NEW p, NEW a, NEW b, NEW t, NEW rs, NEW qc, NEW qs, Fits(p, a, t, rs, qc, qs),
           Moved(a, b), a.person \in BOOLEAN, NEW m \in Seq(Proper(p, b)), Ordered(Over(b), m), Free("login", m),
           \A k \in 1 .. Len(m) : Ranked(m[k]) => Bound(a) <= Rank(Over(b), m[k]),
           Owes(b) => Owes(a) \/ Owed(m), NEW z, z = qs \o m
    PROVE  Fits(p, b, t, rs, qc, z)
<1>1. /\ Core(b) /\ Heeds(a, b) /\ SameServer(a, b) /\ SamePlace(a, b) /\ Bound(a) <= Bound(b)
      /\ b.known = a.known
  BY DEF Moved, SameServer
<1>2. Over(a) = Over(b) /\ Least(a) = Least(b)
  BY <1>1 DEF SameServer, Over, Least
<1>3. Gains(a, b)
  BY <1>1 DEF SamePlace, Gains
<1>4. Reports(p, b, z)
  <2>1. Reports(p, a, qs)
    BY DEF Fits
  <2>2. Least(b) <= Least(a) /\ Bound(a) <= Bound(b)
    BY <1>1, <1>2, BoundsTyped
  <2> QED BY <1>2, <1>3, <2>1, <2>2, ReportsSaid
<1>5. Told(b, qc)
  BY <1>1, ToldKept DEF Fits
<1>6. Greeted(b, qc, z)
  <2>1. Greeted(a, qc, qs) /\ qs \in Seq(Requests) /\ m \in Seq(Requests)
    BY DEF Fits, Reports, Proper
  <2>2. Single("login", z)
    BY <2>1, SingleOn DEF Greeted
  <2>3. Free("login", qs) => Free("login", z)
    BY <2>1, FreeOn
  <2> QED BY <1>1, <2>1, <2>2, <2>3 DEF Greeted
<1>7. Led(p, b, t, rs, qc)
  <2>1. PICK d : Way(p, Knows(a, t), qc, d) /\ Leaves(a, rs, d)
    BY DEF Fits, Led
  <2>2. CASE b.person = a.person
    <3>1. Knows(a, t) = Knows(b, t)
      BY <1>1, <2>2 DEF Knows, SamePlace
    <3>2. Leaves(b, rs, d)
      BY <1>1, <2>1 DEF Leaves, SameServer
    <3> QED BY <2>1, <3>1, <3>2 DEF Led
  <2>3. CASE ~b.person /\ ~Hearable(a, Briefing) /\ Over(a)
    <3>1. Lost(Knows(a, t)) = Knows(b, t)
      <4>1. b.person = FALSE
        BY <1>1, <2>3 DEF Core, Views
      <4> QED BY <1>1, <4>1 DEF Lost, Knows, SamePlace, Walker
    <3>2. qc \in Seq(Messages)
      BY Messaged DEF Fits, Told
    <3>3. \A k \in 1 .. Len(qc) : ~(qc[k].type = "state" /\ qc[k].to = Briefing)
      <4>1. \A k \in 1 .. Len(qc) : qc[k] \in Fitting(a)
        BY DEF Fits, Told
      <4> QED BY <4>1, <2>3 DEF Fitting
    <3>4. PICK e : e = Lost(d)
      OBVIOUS
    <3>5. Way(p, Knows(b, t), qc, e)
      BY <2>1, <3>1, <3>2, <3>3, <3>4, WayLost
    <3>6. Leaves(b, rs, e)
      <4>1. e.state = d.state /\ e.head = d.head /\ e.roles = d.roles /\ e.file = d.file /\ e.person = FALSE
        BY <3>4 DEF Lost, Walker
      <4>2. b.phase = a.phase /\ b.info = a.info /\ b.holds = a.holds /\ a.phase # Briefing
        BY <1>1, <2>3 DEF SameServer, Over
      <4> QED BY <2>1, <4>1, <4>2 DEF Leaves
    <3> QED BY <3>5, <3>6 DEF Led
  <2> QED BY <2>2, <2>3 DEF Moved
<1> QED BY <1>1, <1>4, <1>5, <1>6, <1>7 DEF Fits

-----------------------------------------------------------------------------
(* What the server sends.                                                  *)

(* Messages other than the player's number and the briefing.               *)
Plain(b) == {m \in Fitting(b) : m.type # "player" /\ ~(m.type = "state" /\ m.to = Briefing)}

LEMMA PlainOnes ==
    ASSUME NEW b, mission \in Nat
    PROVE  /\ \A s \in Phases \ {Briefing} : Hearable(b, s) => State(s) \in Plain(b)
           /\ Hearable(b, Briefing) => State(Briefing) \in Fitting(b)
           /\ \A n \in 1 .. MaxMissions, rs \in SlotTable : Header(n, rs) \in Plain(b)
           /\ \A r \in Slots, w \in Players \cup {AI} : Role(r, w) \in Plain(b)
           /\ \A r \in {0} \cup Slots : World(r) \in Plain(b)
           /\ File \in Plain(b)
           /\ b.known => Identity \in Plain(b)
<1>1. /\ \A s \in Phases : State(s) \in Messages
      /\ \A r \in {0} \cup Slots : World(r) \in Messages
      /\ File \in Messages /\ Identity \in Messages
  BY QuietOnes DEF Messages
<1>2. /\ \A n \in Nat, rs \in SlotTable : Header(n, rs) \in Messages
      /\ \A r \in Slots, w \in Players \cup {AI} : Role(r, w) \in Messages
  BY TableOnes DEF Messages
<1>3. 1 .. MaxMissions \subseteq Nat
  OBVIOUS
<1>4. \A s \in Phases : State(s).type = "state" /\ State(s).to = s
  BY DEF State
<1>5. \A n, rs : Header(n, rs).type = "header" /\ Header(n, rs).mission = n
  BY DEF Header
<1>6. /\ \A r, w : Role(r, w).type = "role"
      /\ \A r : World(r).type = "world"
      /\ File.type = "file" /\ Identity.type = "identity"
  BY DEF Role, World, File, Identity
<1>7. \A s \in Phases : Hearable(b, s) => State(s) \in Fitting(b)
  BY <1>1, <1>4 DEF Fitting
<1>8. \A s \in Phases \ {Briefing} : Hearable(b, s) => State(s) \in Plain(b)
  BY <1>4, <1>7 DEF Plain
<1>9. \A n \in 1 .. MaxMissions, rs \in SlotTable : Header(n, rs) \in Plain(b)
  BY <1>2, <1>3, <1>5 DEF Plain, Fitting
<1>10. \A r \in Slots, w \in Players \cup {AI} : Role(r, w) \in Plain(b)
  BY <1>2, <1>6 DEF Plain, Fitting
<1>11. \A r \in {0} \cup Slots : World(r) \in Plain(b)
  BY <1>1, <1>6 DEF Plain, Fitting
<1>12. File \in Plain(b) /\ (b.known => Identity \in Plain(b))
  BY <1>1, <1>6 DEF Plain, Fitting
<1> QED BY <1>7, <1>8, <1>9, <1>10, <1>11, <1>12

LEMMA Sequences ==
    ASSUME NEW S
    PROVE  /\ <<>> \in Seq(S)
           /\ \A x \in S : <<x>> \in Seq(S)
           /\ \A m, n \in Seq(S) : m \o n \in Seq(S)
           /\ \A b : \A m \in Seq(S) : When(b, m) \in Seq(S)
BY DEF When

LEMMA PlainSeq ==
    ASSUME NEW b, NEW m \in Seq(Plain(b))
    PROVE  /\ m \in Seq(Fitting(b)) /\ Free("player", m) /\ BriefedLast(m) /\ m \in Seq(Messages)
           /\ \A k \in 1 .. Len(m) : ~(m[k].type = "state" /\ m[k].to = Briefing)
<1>1. m \in Seq(Fitting(b))
  BY DEF Plain
<1>2. Free("player", m)
  BY DEF Plain, Free
<1>3. \A k \in 1 .. Len(m) : ~(m[k].type = "state" /\ m[k].to = Briefing)
  BY DEF Plain
<1>4. BriefedLast(m)
  BY <1>3 DEF BriefedLast
<1> QED BY <1>1, <1>2, <1>3, <1>4, Messaged

LEMMA SendsPlain ==
    ASSUME NEW p, NEW a, NEW b, NEW rs, NEW ss, NEW m \in Seq(Plain(b)),
           ~Hearable(a, Briefing) \/ Free("state", m),
           \A d : Leaves(a, rs, d) /\ (a.head => d.head) /\ (a.all => d.file)
                    => \E e : Way(p, d, m, e) /\ Leaves(b, ss, e)
    PROVE  Sends(p, a, b, rs, ss, m)
BY PlainSeq DEF Sends

LEMMA SendsBriefing ==
    ASSUME NEW p, NEW a, NEW b, NEW rs, NEW ss, NEW m \in Seq(Plain(b)), mission \in Nat,
           ~Hearable(a, Briefing), Hearable(b, Briefing), NEW r, r = m \o <<State(Briefing)>>,
           \A d : Leaves(a, rs, d) /\ (a.head => d.head) /\ (a.all => d.file)
                    => \E e : Way(p, d, r, e) /\ Leaves(b, ss, e)
    PROVE  Sends(p, a, b, rs, ss, r)
<1>1. PICK x : x = State(Briefing)
  OBVIOUS
<1>2. m \in Seq(Fitting(b)) /\ x \in Fitting(b)
  BY <1>1, PlainSeq, PlainOnes
<1>3. <<x>> \in Seq(Fitting(b)) /\ r = m \o <<x>>
  BY <1>1, <1>2
<1>4. r \in Seq(Fitting(b))
  BY <1>2, <1>3, SeqOn
<1>5. BriefedLast(r)
  BY <1>2, <1>3, BriefedLastOn, PlainSeq
<1>6. Free("player", <<x>>)
  BY <1>1 DEF Free, State
<1>7. PICK y : y = <<x>>
  OBVIOUS
<1>8. Free("player", r)
  BY <1>2, <1>3, <1>6, <1>7, PlainSeq, FreeOn
<1> QED BY <1>4, <1>5, <1>8 DEF Sends

(* One message, on the way.                                                *)
Whole(w) == w.head \in BOOLEAN /\ w.file \in BOOLEAN /\ w.person \in BOOLEAN

LEMMA OneOn ==
    ASSUME NEW p, NEW w, NEW m, Takes(p, w, m), NEW e, e = After(p, w, m), NEW q, q = <<m>>
    PROVE  Way(p, w, q, e)
<1>1. Lower(e, e)
  BY DEF Lower
<1> QED BY <1>1, WayOneStep DEF Step

LEMMA OnState ==
    ASSUME NEW p, NEW w, Whole(w), NEW s, Takes(p, w, State(s)),
           NEW q, q = <<State(s)>>, NEW e, e = After(p, w, State(s))
    PROVE  /\ Way(p, w, q, e) /\ Whole(e)
           /\ e.state = Turned(p, w, s) /\ e.head = w.head /\ e.roles = w.roles /\ e.file = w.file
           /\ e.person = (w.person /\ ~(s = LoadIsland /\ w.state < LoadIsland))
<1>1. e = After(p, w, State(s))
  OBVIOUS
<1>2. /\ e.state = Turned(p, w, s) /\ e.head = w.head /\ e.roles = w.roles /\ e.file = w.file
      /\ e.person = (w.person /\ ~(s = LoadIsland /\ w.state < LoadIsland))
  BY <1>1, AfterState DEF Whole
<1>3. PICK x : x = State(s)
  OBVIOUS
<1>4. Way(p, w, q, e)
  BY <1>1, <1>3, OneOn
<1>5. Whole(e)
  BY <1>2 DEF Whole
<1> QED BY <1>2, <1>3, <1>4, <1>5

LEMMA AfterHeader ==
    ASSUME NEW p, NEW w, Whole(w), NEW n, NEW rs, NEW e, e = After(p, w, Header(n, rs))
    PROVE  e.state = w.state /\ e.head \in BOOLEAN /\ e.head /\ e.roles = rs /\ e.file = w.file /\ e.person = w.person
<1>1. w.head \in BOOLEAN /\ w.file \in BOOLEAN /\ w.person \in BOOLEAN
  BY DEF Whole
<1> QED BY <1>1 DEF After, Walker, Header, Applied, Loads

LEMMA OnHeader ==
    ASSUME NEW p, NEW w, Whole(w), NEW n, NEW rs,
           NEW q, q = <<Header(n, rs)>>, NEW e, e = After(p, w, Header(n, rs))
    PROVE  /\ Way(p, w, q, e) /\ Whole(e)
           /\ e.state = w.state /\ e.head /\ e.roles = rs /\ e.file = w.file /\ e.person = w.person
<1>1. e = After(p, w, Header(n, rs))
  OBVIOUS
<1>2. e.state = w.state /\ e.head \in BOOLEAN /\ e.head /\ e.roles = rs /\ e.file = w.file /\ e.person = w.person
  BY <1>1, AfterHeader
<1>3. PICK x : x = Header(n, rs)
  OBVIOUS
<1>4. Takes(p, w, x)
  BY <1>3 DEF Takes, Header
<1>5. Way(p, w, q, e)
  BY <1>1, <1>3, <1>4, OneOn
<1>6. Whole(e)
  BY <1>2 DEF Whole
<1> QED BY <1>2, <1>3, <1>5, <1>6

LEMMA OnRole ==
    ASSUME NEW p, NEW w, Whole(w), NEW r, NEW o,
           NEW q, q = <<Role(r, o)>>, NEW e, e = After(p, w, Role(r, o))
    PROVE  /\ Way(p, w, q, e) /\ Whole(e)
           /\ e.state = w.state /\ e.head = w.head /\ e.file = w.file /\ e.person = w.person
           /\ e.roles = Applied(w.roles, Role(r, o))
<1>1. e = After(p, w, Role(r, o))
  OBVIOUS
<1>2. /\ e.state = w.state /\ e.head = w.head /\ e.file = w.file /\ e.person = w.person
      /\ e.roles = Applied(w.roles, Role(r, o))
  BY <1>1, AfterRole DEF Whole
<1>3. PICK x : x = Role(r, o)
  OBVIOUS
<1>4. Takes(p, w, x)
  BY <1>3 DEF Takes, Role
<1>5. Way(p, w, q, e)
  BY <1>1, <1>3, <1>4, OneOn
<1>6. Whole(e)
  BY <1>2 DEF Whole
<1> QED BY <1>2, <1>3, <1>5, <1>6

LEMMA AfterFile ==
    ASSUME NEW p, NEW w, Whole(w), NEW e, e = After(p, w, File)
    PROVE  /\ e.state = IF w.state = Transfer /\ Holds(w.roles, p) THEN LoadIsland ELSE w.state
           /\ e.head = w.head /\ e.file \in BOOLEAN /\ e.file /\ e.roles = w.roles
           /\ e.person = (w.person /\ ~(w.state = Transfer /\ Holds(w.roles, p)))
<1>1. w.head \in BOOLEAN /\ w.file \in BOOLEAN /\ w.person \in BOOLEAN
  BY DEF Whole
<1> QED BY <1>1 DEF After, Walker, File, Applied, Loads

(* What is left when the file, or the game's state, has been read.         *)
Filed(p, w, q, e) ==
    /\ Way(p, w, q, e) /\ Whole(e)
    /\ e.state = IF w.state = Transfer /\ Holds(w.roles, p) THEN LoadIsland ELSE w.state
    /\ e.head = w.head /\ e.file /\ e.roles = w.roles
Peopled(p, w, n, q, e) ==
    /\ Way(p, w, q, e) /\ Whole(e)
    /\ e.state = w.state /\ e.head = w.head /\ e.file = w.file /\ e.roles = w.roles
    /\ e.person = (w.person \/ (n # 0 /\ w.state >= LoadIsland))

LEMMA OnFile ==
    ASSUME NEW p, NEW w, Whole(w), w.head,
           NEW q, q = <<File>>, NEW e, e = After(p, w, File)
    PROVE  Filed(p, w, q, e)
<1>1. e = After(p, w, File)
  OBVIOUS
<1>2. /\ e.state = IF w.state = Transfer /\ Holds(w.roles, p) THEN LoadIsland ELSE w.state
      /\ e.head = w.head /\ e.file \in BOOLEAN /\ e.file /\ e.roles = w.roles
      /\ e.person = (w.person /\ ~(w.state = Transfer /\ Holds(w.roles, p)))
  BY <1>1, AfterFile
<1>3. PICK x : x = File
  OBVIOUS
<1>4. Takes(p, w, x)
  BY <1>3 DEF Takes, File
<1>5. Way(p, w, q, e)
  BY <1>1, <1>3, <1>4, OneOn
<1>6. Whole(e)
  BY <1>2 DEF Whole
<1> QED BY <1>2, <1>5, <1>6, Zenon DEF Filed

LEMMA OnWorld ==
    ASSUME NEW p, NEW w, Whole(w), NEW n,
           NEW q, q = <<World(n)>>, NEW e, e = After(p, w, World(n))
    PROVE  Peopled(p, w, n, q, e)
<1>1. e = After(p, w, World(n))
  OBVIOUS
<1>2. /\ e.state = w.state /\ e.head = w.head /\ e.file = w.file /\ e.roles = w.roles
      /\ e.person = (w.person \/ (n # 0 /\ w.state >= LoadIsland))
  BY <1>1, AfterWorld DEF Whole
<1>3. PICK x : x = World(n)
  OBVIOUS
<1>4. Takes(p, w, x)
  BY <1>3 DEF Takes, World
<1>5. Way(p, w, q, e)
  BY <1>1, <1>3, <1>4, OneOn
<1>6. Whole(e)
  BY <1>2 DEF Whole
<1> QED BY <1>2, <1>5, <1>6, Zenon DEF Peopled

LEMMA OnIdentity ==
    ASSUME NEW p, NEW w, Whole(w),
           NEW q, q = <<Identity>>, NEW e, e = After(p, w, Identity)
    PROVE  /\ Way(p, w, q, e) /\ Whole(e)
           /\ e.state = w.state /\ e.head = w.head /\ e.file = w.file /\ e.roles = w.roles
           /\ e.person = w.person
<1>1. e = After(p, w, Identity)
  OBVIOUS
<1>2. e.state = w.state /\ e.head = w.head /\ e.file = w.file /\ e.roles = w.roles /\ e.person = w.person
  BY <1>1, AfterPlain DEF Whole
<1>3. PICK x : x = Identity
  OBVIOUS
<1>4. Takes(p, w, x)
  BY <1>3 DEF Takes, Identity
<1>5. Way(p, w, q, e)
  BY <1>1, <1>3, <1>4, OneOn
<1>6. Whole(e)
  BY <1>2 DEF Whole
<1> QED BY <1>2, <1>3, <1>5, <1>6

LEMMA OnNothing ==
    ASSUME NEW p, NEW w
    PROVE  Way(p, w, <<>>, w)
BY WayNowhere DEF Lower

LEMMA TakesState ==
    ASSUME NEW p, NEW w, NEW s,
           s >= PrepareSide => w.head,
           s = LoadIsland => Holds(w.roles, p) /\ (w.state >= LoadIsland \/ w.file),
           s = Briefing => w.state >= LoadIsland /\ w.person,
           s = Play <=> w.state = Briefing,
           s = Debriefing <=> w.state = Play,
           w.state = Debriefing => s = Create
    PROVE  Takes(p, w, State(s))
BY DEF Takes, State

LEMMA LeavesWhole ==
    ASSUME NEW a, NEW rs, NEW d, Leaves(a, rs, d)
    PROVE  Whole(d) /\ d.state \in Phases
BY DEF Leaves, Whole

(* ChooseMission.                                                          *)
LEMMA ChooseSends ==
    ASSUME NEW p, NEW a, NEW b, NEW rs, NEW ss \in SlotTable, NEW n \in 1 .. MaxMissions, mission \in Nat,
           a.phase = Create, ~Hearable(a, Briefing),
           b.phase = PrepareSide, b.info = PrepareSide, b.holds = FALSE,
           NEW m, m = <<Header(n, ss)>> \o <<State(PrepareSide)>>
    PROVE  Sends(p, a, b, rs, ss, m)
<1>1. PICK x : x = <<Header(n, ss)>>
  OBVIOUS
<1>2. PICK y : y = <<State(PrepareSide)>>
  OBVIOUS
<1>3. Hearable(b, PrepareSide)
  BY DEF Hearable
<1>4. x \in Seq(Plain(b)) /\ y \in Seq(Plain(b))
  BY <1>1, <1>2, <1>3, PlainOnes, Sequences
<1>5. m \in Seq(Plain(b)) /\ m = x \o y
  BY <1>1, <1>2, <1>4, Sequences
<1>6. ASSUME NEW d, Leaves(a, rs, d)
      PROVE  \E e : Way(p, d, m, e) /\ Leaves(b, ss, e)
  <2>1. Whole(d) /\ d.state \in Phases /\ d.state \notin {Briefing, Play, Debriefing}
    BY <1>6 DEF Leaves, Whole
  <2>20. PICK e : e = After(p, d, Header(n, ss))
    OBVIOUS
  <2>21. Whole(d)
    BY <2>1
  <2>2. /\ Way(p, d, x, e) /\ Whole(e)
                 /\ e.state = d.state /\ e.head /\ e.roles = ss /\ e.file = d.file /\ e.person = d.person
    BY <1>1, <2>20, <2>21, OnHeader
  <2>22. Whole(e)
    BY <2>2
  <2>3. Takes(p, e, State(PrepareSide))
    BY <2>1, <2>2, TakesState
  <2>40. PICK f : f = After(p, e, State(PrepareSide))
    OBVIOUS
  <2>4. /\ Way(p, e, y, f) /\ Whole(f)
        /\ f.state = Turned(p, e, PrepareSide) /\ f.head = e.head /\ f.roles = e.roles
    BY <1>2, <2>22, <2>3, <2>40, OnState
  <2>5. f.state \in Phases \ {Briefing, Play, Debriefing}
    BY <2>1, <2>2, <2>4 DEF Turned
  <2>6. Leaves(b, ss, f)
    BY <2>2, <2>4, <2>5 DEF Leaves, Whole
  <2>7. Way(p, d, m, f)
    BY <1>4, <1>5, <2>2, <2>4, WayOn, Zenon
  <2> QED BY <2>6, <2>7
<1> QED BY <1>5, <1>6, SendsPlain

(* Launch.                                                                 *)
LEMMA LaunchSends ==
    ASSUME NEW p, NEW a, NEW b, NEW rs, mission \in Nat, Core(a), ~Hearable(a, Briefing),
           a.phase = PrepareSide, a.holds = Holds(rs, p), a.holds,
           b.phase = Transfer, b.info = Transfer, b.holds = a.holds, NEW lacks \in BOOLEAN,
           NEW m, m = <<State(Transfer)>> \o When(lacks, <<File>>)
    PROVE  Sends(p, a, b, rs, rs, m)
<1>1. PICK x : x = <<State(Transfer)>>
  OBVIOUS
<1>2. PICK z : z = <<File>>
  OBVIOUS
<1>3. PICK y : y = When(lacks, z)
  OBVIOUS
<1>4. Hearable(b, Transfer)
  BY DEF Hearable
<1>5. x \in Seq(Plain(b)) /\ z \in Seq(Plain(b)) /\ y \in Seq(Plain(b))
  <2>1. x \in Seq(Plain(b)) /\ z \in Seq(Plain(b))
    BY <1>1, <1>2, <1>4, PlainOnes, Sequences
  <2>2. y \in Seq(Plain(b))
    BY <1>3, <2>1, Sequences
  <2> QED BY <2>1, <2>2
<1>6. m \in Seq(Plain(b)) /\ m = x \o y
  BY <1>1, <1>2, <1>3, <1>5, Sequences
<1>7. a.head
  BY DEF Core, OnClient
<1>8. ASSUME NEW d, Leaves(a, rs, d), a.head => d.head
      PROVE  \E e : Way(p, d, m, e) /\ Leaves(b, rs, e)
  <2>1. /\ Whole(d) /\ d.state \in Phases /\ d.state \notin {Briefing, Play, Debriefing}
        /\ d.head /\ d.roles = rs
    BY <1>7, <1>8 DEF Leaves, Whole
  <2>2. Takes(p, d, State(Transfer))
    BY <2>1, TakesState
  <2>30. PICK e : e = After(p, d, State(Transfer))
    OBVIOUS
  <2>31. Whole(d)
    BY <2>1
  <2>3. /\ Way(p, d, x, e) /\ Whole(e)
        /\ e.state = Turned(p, d, Transfer) /\ e.head = d.head /\ e.roles = d.roles /\ e.file = d.file
        /\ e.person = (d.person /\ ~(Transfer = LoadIsland /\ d.state < LoadIsland))
    BY <1>1, <2>2, <2>30, <2>31, OnState
  <2>4. e.state \in Phases \ {Briefing, Play, Debriefing}
    BY <2>1, <2>3 DEF Turned
  <2>5. PICK f : /\ Way(p, e, y, f) /\ Whole(f) /\ f.head /\ f.roles = rs
                 /\ f.state \in Phases \ {Briefing, Play, Debriefing}
    <3>1. CASE lacks
      <4>10. PICK f : f = After(p, e, File)
        OBVIOUS
      <4>11. Whole(e) /\ e.head
        BY <2>1, <2>3
      <4>12. Filed(p, e, z, f)
        BY <1>2, <4>10, <4>11, OnFile
      <4>1. /\ Way(p, e, z, f) /\ Whole(f) /\ f.head = e.head /\ f.roles = e.roles
            /\ f.state = IF e.state = Transfer /\ Holds(e.roles, p) THEN LoadIsland ELSE e.state
        BY <4>12, Zenon DEF Filed
      <4>2. f.state \in Phases \ {Briefing, Play, Debriefing}
        BY <2>4, <4>1
      <4>3. y = z
        BY <1>3, <3>1 DEF When
      <4> QED BY <2>1, <2>3, <4>1, <4>2, <4>3
    <3>2. CASE ~lacks
      <4>1. y = <<>>
        BY <1>3, <3>2 DEF When
      <4>2. Way(p, e, y, e)
        BY <4>1, OnNothing
      <4> QED BY <2>1, <2>3, <2>4, <4>2
    <3> QED BY <3>1, <3>2
  <2>6. Leaves(b, rs, f)
    BY <2>5 DEF Leaves, Whole
  <2>7. Way(p, d, m, f)
    BY <1>5, <1>6, <2>3, <2>5, WayOn, Zenon
  <2> QED BY <2>6, <2>7
<1> QED BY <1>6, <1>8, SendsPlain

(* TransferDone.                                                           *)
LEMMA LoadSends ==
    ASSUME NEW p, NEW a, NEW b, NEW rs, mission \in Nat, Core(a), ~Hearable(a, Briefing),
           a.phase = Transfer, a.holds = Holds(rs, p), a.holds, a.valid,
           b.phase = LoadIsland, b.info = LoadIsland, b.holds = a.holds,
           NEW m, m = <<State(LoadIsland)>>
    PROVE  Sends(p, a, b, rs, rs, m)
<1>1. Hearable(b, LoadIsland)
  BY DEF Hearable
<1>2. m \in Seq(Plain(b))
  BY <1>1, PlainOnes, Sequences
<1>3. a.head /\ a.all
  BY DEF Core, OnClient
<1>4. ASSUME NEW d, Leaves(a, rs, d), a.head => d.head, a.all => d.file
      PROVE  \E e : Way(p, d, m, e) /\ Leaves(b, rs, e)
  <2>1. /\ Whole(d) /\ d.state \in Phases /\ d.state \notin {Briefing, Play, Debriefing}
        /\ d.head /\ d.roles = rs /\ d.file
    BY <1>3, <1>4 DEF Leaves, Whole
  <2>20. Holds(rs, p)
    OBVIOUS
  <2>21. d.head /\ d.file /\ Holds(d.roles, p) /\ d.state # Debriefing /\ d.state # Play /\ d.state # Briefing
    BY <2>1, <2>20
  <2>2. Takes(p, d, State(LoadIsland))
    BY <2>21, TakesState
  <2>30. PICK e : e = After(p, d, State(LoadIsland))
    OBVIOUS
  <2>31. Whole(d)
    BY <2>1
  <2>3. /\ Way(p, d, m, e) /\ Whole(e)
        /\ e.state = Turned(p, d, LoadIsland) /\ e.head = d.head /\ e.roles = d.roles /\ e.file = d.file
        /\ e.person = (d.person /\ ~(LoadIsland = LoadIsland /\ d.state < LoadIsland))
    BY <2>2, <2>30, <2>31, OnState
  <2>4. e.state = LoadIsland
    BY <2>1, <2>3 DEF Turned, Ignores
  <2>5. Leaves(b, rs, e)
    BY <2>1, <2>3, <2>4 DEF Leaves, Whole
  <2> QED BY <2>3, <2>5
<1> QED BY <1>2, <1>4, SendsPlain

(* Load that fails, LeaveDebriefing.                                       *)
LEMMA CreateSends ==
    ASSUME NEW p, NEW a, NEW b, NEW rs, mission \in Nat, ~Hearable(a, Briefing),
           a.phase \in {LoadIsland, Debriefing}, b.phase = Create, b.info = Create, b.holds = a.holds,
           NEW m, m = <<State(Create)>>
    PROVE  Sends(p, a, b, rs, rs, m)
<1>1. Hearable(b, Create)
  BY DEF Hearable
<1>2. m \in Seq(Plain(b))
  BY <1>1, PlainOnes, Sequences
<1>3. ASSUME NEW d, Leaves(a, rs, d)
      PROVE  \E e : Way(p, d, m, e) /\ Leaves(b, rs, e)
  <2>1. Whole(d) /\ d.state \in Phases /\ d.state \notin {Briefing, Play} /\ (d.head => d.roles = rs)
    BY <1>3 DEF Leaves, Whole
  <2>2. Takes(p, d, State(Create))
    BY <2>1, TakesState
  <2>30. PICK e : e = After(p, d, State(Create))
    OBVIOUS
  <2>31. Whole(d)
    BY <2>1
  <2>32. Way(p, d, m, e) /\ Whole(e)
    BY <2>2, <2>30, <2>31, OnState
  <2>33. e.state = Turned(p, d, Create)
    BY <2>30, <2>31, AfterState DEF Whole
  <2>34. e.head = d.head /\ e.roles = d.roles
    BY <2>30, <2>31, AfterState DEF Whole
  <2>3. /\ Way(p, d, m, e) /\ Whole(e)
        /\ e.state = Turned(p, d, Create) /\ e.head = d.head /\ e.roles = d.roles
    BY <2>32, <2>33, <2>34
  <2>4. e.state \in Phases \ {Briefing, Play, Debriefing}
    BY <2>1, <2>3 DEF Turned, Ignores
  <2>5. Leaves(b, rs, e)
    BY <2>1, <2>3, <2>4 DEF Leaves, Whole
  <2> QED BY <2>3, <2>5
<1> QED BY <1>2, <1>3, SendsPlain

(* OnReadyBot.                                                             *)
LEMMA BotSends ==
    ASSUME NEW p, NEW a, NEW b, NEW rs, mission \in Nat, Core(a), SameClient(a, b), ~Hearable(a, Briefing),
           a.phase = LoadIsland, b.phase = Briefing, a.holds \in BOOLEAN, b.holds = a.holds,
           b.info = IF a.holds THEN Briefing ELSE a.info,
           NEW n \in {0} \cup Slots, a.holds => n # 0, NEW given, given = (n # 0),
           NEW m, m = When(given, <<World(n)>>) \o When(a.holds, <<State(Briefing)>>)
    PROVE  Sends(p, a, b, rs, rs, m)
<1>1. PICK x : x = <<World(n)>>
  OBVIOUS
<1>2. PICK y : y = When(given, x)
  OBVIOUS
<1>3. x \in Seq(Plain(b)) /\ y \in Seq(Plain(b))
  BY <1>1, <1>2, PlainOnes, Sequences
<1>4. ASSUME NEW d, Leaves(a, rs, d)
      PROVE  \E e : /\ Way(p, d, y, e) /\ Whole(e) /\ e.state = d.state /\ e.head = d.head /\ e.roles = d.roles
                    /\ e.person = (d.person \/ (n # 0 /\ d.state >= LoadIsland))
  <2>1. Whole(d)
    BY <1>4, LeavesWhole
  <2>2. CASE given
    <3>1. y = x
      BY <1>2, <2>2 DEF When
    <3>2. PICK e : e = After(p, d, World(n))
      OBVIOUS
    <3>4. Peopled(p, d, n, x, e)
      BY <1>1, <2>1, <3>2, OnWorld
    <3>3. /\ Way(p, d, x, e) /\ Whole(e) /\ e.state = d.state /\ e.head = d.head /\ e.roles = d.roles
          /\ e.person = (d.person \/ (n # 0 /\ d.state >= LoadIsland))
      BY <3>4, Zenon DEF Peopled
    <3> QED BY <3>1, <3>3
  <2>3. CASE ~given
    <3>1. y = <<>>
      BY <1>2, <2>3 DEF When
    <3>2. Way(p, d, y, d) /\ d.person = (d.person \/ (n # 0 /\ d.state >= LoadIsland))
      BY <2>1, <2>3, <3>1, OnNothing DEF Whole
    <3> QED BY <2>1, <3>2
  <2> QED BY <2>2, <2>3
<1>5. CASE a.holds
  <2>1. a.info = LoadIsland /\ a.head
    BY <1>5 DEF Core, Views, OnServer, OnClient
  <2>2. Hearable(b, Briefing)
    BY <1>5 DEF Core, Views, OnClient, OnScreen, SameClient, Over, Hearable, Away, Screens
  <2>3. m = y \o <<State(Briefing)>>
    BY <1>1, <1>2, <1>5 DEF When
  <2>4. ASSUME NEW d, Leaves(a, rs, d), a.head => d.head
        PROVE  \E e : Way(p, d, m, e) /\ Leaves(b, rs, e)
    <3>1. d.state = LoadIsland /\ d.head /\ d.roles = rs
      BY <2>1, <2>4 DEF Leaves
    <3>2. PICK e : /\ Way(p, d, y, e) /\ Whole(e) /\ e.state = d.state /\ e.head = d.head /\ e.roles = d.roles
                   /\ e.person = (d.person \/ (n # 0 /\ d.state >= LoadIsland))
      BY <1>4, <2>4
    <3>31. n # 0
      BY <1>5
    <3>33. d.state = LoadIsland => n # 0 /\ d.state >= LoadIsland
      BY <3>31
    <3>32. e.head /\ e.person /\ e.state = LoadIsland
      BY <3>1, <3>2, <3>33, Zenon
    <3>3. Takes(p, e, State(Briefing))
      BY <3>32, TakesState
    <3>4. PICK z : z = <<State(Briefing)>>
      OBVIOUS
    <3>50. PICK f : f = After(p, e, State(Briefing))
      OBVIOUS
    <3>51. Whole(e)
      BY <3>2
    <3>5. /\ Way(p, e, z, f) /\ Whole(f)
          /\ f.state = Turned(p, e, Briefing) /\ f.head = e.head /\ f.roles = e.roles /\ f.file = e.file
          /\ f.person = (e.person /\ ~(Briefing = LoadIsland /\ e.state < LoadIsland))
      BY <3>3, <3>4, <3>50, <3>51, OnState
    <3>6. f.state = Briefing /\ f.person
      <4>1. f.state = Briefing
        BY <3>32, <3>5 DEF Turned, Ignores
      <4>2. f.person
        <5>1. e.head \in BOOLEAN /\ e.file \in BOOLEAN /\ e.person \in BOOLEAN /\ e.person
          BY <3>32, <3>51 DEF Whole
        <5>2. ~Loads(p, e, State(Briefing))
          BY DEF Loads, State
        <5>3. f.person = (e.person /\ ~Loads(p, e, State(Briefing)))
          BY <3>50, <5>1 DEF After, Walker, State
        <5> QED BY <5>1, <5>2, <5>3
      <4> QED BY <4>1, <4>2
    <3>7. Leaves(b, rs, f)
      BY <1>5, <3>1, <3>2, <3>5, <3>6 DEF Leaves, Whole
    <3>8. z \in Seq(Messages) /\ y \in Seq(Messages)
      BY <1>3, <3>4, PlainSeq, QuietOnes, Sequences DEF Messages
    <3>9. Way(p, d, m, f)
      <4>1. m = y \o z
        BY <2>3, <3>4
      <4>2. Way(p, d, y, e)
        BY <3>2
      <4>3. Way(p, e, z, f)
        BY <3>5
      <4> QED BY <3>8, <4>1, <4>2, <4>3, WayOn
    <3> QED BY <3>7, <3>9
  <2> QED BY <1>3, <2>2, <2>3, <2>4, SendsBriefing
<1>6. CASE ~a.holds
  <2>1. m = y
    <3>1. y \o <<>> = y
      BY <1>3
    <3> QED BY <1>1, <1>2, <1>6, <3>1 DEF When
  <2>2. ASSUME NEW d, Leaves(a, rs, d)
        PROVE  \E e : Way(p, d, m, e) /\ Leaves(b, rs, e)
    <3>1. PICK e : /\ Way(p, d, y, e) /\ Whole(e) /\ e.state = d.state /\ e.head = d.head /\ e.roles = d.roles
      BY <1>4, <2>2
    <3>2. b.info <= LoadIsland /\ b.info \in Phases
      BY <1>6 DEF Core, Views, OnServer
    <3>30. e.head \in BOOLEAN /\ e.file \in BOOLEAN /\ e.person \in BOOLEAN
      BY <3>1 DEF Whole
    <3>31. b.info = a.info /\ b.holds = FALSE /\ a.holds = FALSE
      BY <1>6
    <3>32. d.state \in Phases /\ (d.head => d.roles = rs) /\ (a.info = LoadIsland => d.state = LoadIsland)
           /\ d.state \notin {Briefing, Play, Debriefing}
      BY <2>2 DEF Leaves
    <3>3. Leaves(b, rs, e)
      BY <3>1, <3>2, <3>30, <3>31, <3>32 DEF Leaves
    <3> QED BY <2>1, <3>1, <3>3
  <2> QED BY <1>3, <2>1, <2>2, SendsPlain
<1> QED BY <1>5, <1>6

(* StartPlay, EndPlay.                                                     *)
LEMMA PlaySends ==
    ASSUME NEW p, NEW a, NEW b, NEW rs, mission \in Nat, Core(a), SameClient(a, b), ~Hearable(a, Briefing),
           a.holds, b.holds,
           NEW s, \/ s = Play /\ a.phase = Briefing /\ a.info = Play
                  \/ s = Debriefing /\ a.phase = Play,
           b.phase = s, NEW m, m = <<State(s)>>
    PROVE  Sends(p, a, b, rs, rs, m)
<1>1. Hearable(b, s)
  BY DEF Hearable
<1>2. m \in Seq(Plain(b))
  BY <1>1, PlainOnes, Sequences
<1>3. a.head
  BY DEF Core, OnClient
<1>4. ASSUME NEW d, Leaves(a, rs, d), a.head => d.head
      PROVE  \E e : Way(p, d, m, e) /\ Leaves(b, rs, e)
  <2>1. /\ Whole(d) /\ d.state \in Phases /\ d.head /\ d.roles = rs
        /\ d.state = IF s = Play THEN Briefing ELSE Play
    BY <1>3, <1>4 DEF Leaves, Whole
  <2>2. Takes(p, d, State(s))
    BY <2>1, TakesState
  <2>30. PICK e : e = After(p, d, State(s))
    OBVIOUS
  <2>31. Whole(d)
    BY <2>1
  <2>3. /\ Way(p, d, m, e) /\ Whole(e)
        /\ e.state = Turned(p, d, s) /\ e.head = d.head /\ e.roles = d.roles /\ e.file = d.file
    <3>1. Way(p, d, m, e) /\ Whole(e)
      BY <2>2, <2>30, <2>31, OnState
    <3>2. e.state = Turned(p, d, s) /\ e.head = d.head /\ e.roles = d.roles /\ e.file = d.file
      BY <2>30, <2>31, AfterState DEF Whole
    <3> QED BY <3>1, <3>2
  <2>4. e.state = s
    BY <2>1, <2>3 DEF Turned, Ignores
  <2>5. Leaves(b, rs, e)
    BY <2>1, <2>3, <2>4 DEF Leaves, Whole
  <2> QED BY <2>3, <2>5
<1> QED BY <1>2, <1>4, SendsPlain

LEMMA OnWhen ==
    ASSUME NEW p, NEW w, NEW c \in BOOLEAN, NEW q, NEW y, y = When(c, q), NEW d,
           c => Way(p, w, q, d), ~c => d = w
    PROVE  Way(p, w, y, d)
<1>1. ~c => Lower(d, w)
  BY DEF Lower
<1> QED BY <1>1, WayWhen, Zenon

(* Nothing is sent.                                                        *)
LEMMA NothingSends ==
    ASSUME NEW p, NEW a, NEW b, NEW rs, NEW ss, NEW m, m = <<>>,
           \A d : Leaves(a, rs, d) /\ (a.head => d.head) /\ (a.all => d.file) => Leaves(b, ss, d)
    PROVE  Sends(p, a, b, rs, ss, m)
<1>1. m \in Seq(Plain(b)) /\ Free("state", m)
  BY DEF Free
<1>2. ASSUME NEW d, Leaves(a, rs, d), a.head => d.head, a.all => d.file
      PROVE  \E e : Way(p, d, m, e) /\ Leaves(b, ss, e)
  <2>1. Way(p, d, m, d)
    BY OnNothing
  <2> QED BY <1>2, <2>1
<1> QED BY <1>1, <1>2, SendsPlain

(* OnLogin.                                                                *)
LEMMA LoginSends ==
    ASSUME NEW p, NEW a, NEW b, NEW rs \in SlotTable, mission \in Nat, NEW n,
           Core(a), SameClient(a, b), ~Hearable(a, Briefing), ~a.known,
           b.phase = a.phase, b.known = TRUE, b.holds = a.holds,
           b.info = IF a.phase >= PrepareSide THEN PrepareSide ELSE LoggedIn,
           NEW lobby \in BOOLEAN, lobby <=> a.phase >= PrepareSide, lobby => n \in 1 .. MaxMissions,
           NEW x, x = IF a.phase > PrepareRole THEN PrepareRole ELSE a.phase,
           NEW m, m = (<<Identity>> \o When(lobby, <<Header(n, rs)>>)) \o <<State(x)>>
    PROVE  Sends(p, a, b, rs, rs, m)
<1>1. a.info < Transfer /\ a.info \in Phases /\ ~a.holds /\ a.phase # Play
  BY DEF Core, Views, OnServer, OnClient
<1>2. x \in {Create, PrepareSide, PrepareRole} /\ (x >= PrepareSide => lobby)
  BY <1>1 DEF Core, OnServer
<1>3. Hearable(b, x)
  <2>1. a.state # Briefing
    BY <1>1 DEF Core, Views, OnServer, OnClient, OnScreen, Over
  <2> QED BY <1>1, <1>2, <2>1 DEF Hearable, SameClient
<1>4. PICK u : u = <<Identity>>
  OBVIOUS
<1>5. PICK h : h = <<Header(n, rs)>>
  OBVIOUS
<1>6. PICK v : v = When(lobby, h)
  OBVIOUS
<1>7. PICK y : y = <<State(x)>>
  OBVIOUS
<1>8. u \in Seq(Plain(b)) /\ y \in Seq(Plain(b)) /\ (lobby => h \in Seq(Plain(b)))
  <2>1. Identity \in Plain(b) /\ State(x) \in Plain(b)
    BY <1>2, <1>3, PlainOnes
  <2>2. lobby => Header(n, rs) \in Plain(b)
    BY PlainOnes
  <2> QED BY <1>4, <1>5, <1>7, <2>1, <2>2
<1>9. v \in Seq(Plain(b))
  BY <1>6, <1>8 DEF When
<1>10. PICK z : z = u \o v
  OBVIOUS
<1>11. z \in Seq(Plain(b))
  BY <1>8, <1>9, <1>10
<1>12. m = z \o y
  BY <1>4, <1>5, <1>6, <1>7, <1>10
<1>13. m \in Seq(Plain(b))
  BY <1>8, <1>11, <1>12, SeqOn, Zenon
<1>14. ASSUME NEW d, Leaves(a, rs, d)
       PROVE  \E e : Way(p, d, m, e) /\ Leaves(b, rs, e)
  <2>1. d.state \in Phases /\ d.state \notin {Briefing, Play, Debriefing} /\ (d.head => d.roles = rs)
    BY <1>1, <1>14 DEF Leaves
  <2>2. Whole(d)
    BY <1>14 DEF Leaves, Whole
  <2>3. PICK e : e = After(p, d, Identity)
    OBVIOUS
  <2>4. Way(p, d, u, e) /\ Whole(e) /\ e.state = d.state /\ e.head = d.head /\ e.roles = d.roles
    BY <1>4, <2>2, <2>3, OnIdentity
  <2>5. Whole(e)
    BY <2>4
  <2>6. PICK k : k = After(p, e, Header(n, rs))
    OBVIOUS
  <2>7. Way(p, e, h, k) /\ Whole(k) /\ k.state = e.state /\ k.head /\ k.roles = rs
    BY <1>5, <2>5, <2>6, OnHeader
  <2>8. PICK f : f = IF lobby THEN k ELSE e
    OBVIOUS
  <2>9. Way(p, e, v, f)
    BY <1>6, <2>7, <2>8, OnWhen
  <2>10. Whole(f)
    BY <2>5, <2>7, <2>8
  <2>11. f.state = d.state /\ (lobby => f.head) /\ (f.head => f.roles = rs)
    BY <2>1, <2>4, <2>7, <2>8
  <2>12. Takes(p, f, State(x))
    <3>1. x >= PrepareSide => f.head
      BY <1>2, <2>11
    <3>2. x \notin {LoadIsland, Briefing, Play, Debriefing} /\ f.state \notin {Briefing, Play, Debriefing}
      BY <1>2, <2>1, <2>11
    <3> QED BY <3>1, <3>2 DEF Takes, State
  <2>13. PICK g : g = After(p, f, State(x))
    OBVIOUS
  <2>14. Way(p, f, y, g) /\ Whole(g)
    BY <1>7, <2>10, <2>12, <2>13, OnState
  <2>15. g.state = Turned(p, f, x) /\ g.head = f.head /\ g.roles = f.roles
    BY <2>10, <2>13, AfterState DEF Whole
  <2>16. g.state \in Phases \ {Briefing, Play, Debriefing}
    BY <1>2, <2>1, <2>11, <2>15 DEF Turned
  <2>17. Leaves(b, rs, g)
    BY <1>1, <2>11, <2>14, <2>15, <2>16 DEF Leaves, Whole
  <2>18. Way(p, d, z, f)
    BY <1>8, <1>9, <1>10, <2>4, <2>9, WayOn
  <2>19. Way(p, d, m, g)
    BY <1>8, <1>11, <1>12, <2>14, <2>18, WayOn
  <2> QED BY <2>17, <2>19
<1> QED BY <1>13, <1>14, SendsPlain

-----------------------------------------------------------------------------
(* Slots change hands: r goes to w, and o, which w held, to nobody, if he held
   one (c).                                                                    *)
Changed(rs, r, w, c, o)   == [s \in Slots |-> IF c /\ s = o THEN AI ELSE IF s = r THEN w ELSE rs[s]]
Changes(r, w, c, o)       == <<Role(r, w)>> \o When(c, <<Role(o, AI)>>)
Informed(p, d, r, w, c, o) ==
    IF c THEN After(p, After(p, d, Role(r, w)), Role(o, AI)) ELSE After(p, d, Role(r, w))

LEMMA RoleOnes ==
    ASSUME NEW b, mission \in Nat, NEW r \in Slots, NEW w \in Players \cup {AI}, NEW o,
           NEW c \in BOOLEAN, c => o \in Slots,
           NEW m, m = Changes(r, w, c, o)
    PROVE  m \in Seq(Plain(b)) /\ Free("state", m)
<1>1. PICK u : u = <<Role(r, w)>>
  OBVIOUS
<1>2. PICK h : h = <<Role(o, AI)>>
  OBVIOUS
<1>3. PICK v : v = When(c, h)
  OBVIOUS
<1>4. u \in Seq(Plain(b)) /\ (c => h \in Seq(Plain(b)))
  BY <1>1, <1>2, PlainOnes
<1>5. v \in Seq(Plain(b))
  BY <1>3, <1>4 DEF When
<1>6. m = u \o v
  BY <1>1, <1>2, <1>3, Zenon DEF Changes
<1>7. m \in Seq(Plain(b))
  BY <1>4, <1>5, <1>6, SeqOn, Zenon
<1>8. Free("state", m)
  <2>1. Free("state", u) /\ Free("state", h)
    BY <1>1, <1>2 DEF Free, Role
  <2>2. Free("state", v)
    BY <1>3, <2>1 DEF When, Free
  <2> QED BY <1>4, <1>5, <1>6, <2>1, <2>2, FreeOn
<1> QED BY <1>7, <1>8

LEMMA RoleKnown ==
    ASSUME NEW p, NEW rs \in SlotTable, NEW r \in Slots, NEW w, NEW o, NEW c \in BOOLEAN, c => o \in Slots,
           NEW d, Whole(d), NEW f, f = Informed(p, d, r, w, c, o)
    PROVE  /\ Whole(f) /\ f.state = d.state /\ f.head = d.head /\ f.file = d.file /\ f.person = d.person
           /\ d.roles = rs => f.roles = Changed(rs, r, w, c, o)
<1>1. PICK e : e = After(p, d, Role(r, w))
  OBVIOUS
<1>2. /\ Whole(e) /\ e.state = d.state /\ e.head = d.head /\ e.file = d.file /\ e.person = d.person
      /\ e.roles = Applied(d.roles, Role(r, w))
  BY <1>1, AfterRole DEF Whole
<1>3. Whole(e)
  BY <1>2
<1>4. PICK k : k = After(p, e, Role(o, AI))
  OBVIOUS
<1>5. /\ Whole(k) /\ k.state = e.state /\ k.head = e.head /\ k.file = e.file /\ k.person = e.person
      /\ k.roles = Applied(e.roles, Role(o, AI))
  BY <1>3, <1>4, AfterRole DEF Whole
<1>6. f = IF c THEN k ELSE e
  BY <1>1, <1>4 DEF Informed
<1>7. /\ Whole(f) /\ f.state = d.state /\ f.head = d.head /\ f.file = d.file /\ f.person = d.person
  BY <1>2, <1>5, <1>6
<1>8. ASSUME d.roles = rs
      PROVE  f.roles = Changed(rs, r, w, c, o)
  <2>1. PICK t : t = [s \in Slots |-> IF s = r THEN w ELSE rs[s]]
    OBVIOUS
  <2>2. e.roles = t
    BY <1>2, <1>8, <2>1 DEF Applied, Role, SlotTable
  <2>3. CASE c
    <3>1. k.roles = [s \in Slots |-> IF s = o THEN AI ELSE t[s]]
      BY <1>5, <2>1, <2>2, <2>3 DEF Applied, Role
    <3> QED BY <1>6, <2>1, <2>3, <3>1 DEF Changed
  <2>4. CASE ~c
    BY <1>6, <2>1, <2>2, <2>4 DEF Changed
  <2> QED BY <2>3, <2>4
<1> QED BY <1>7, <1>8

LEMMA RoleWay ==
    ASSUME NEW p, mission \in Nat, NEW r \in Slots, NEW w \in Players \cup {AI}, NEW o,
           NEW c \in BOOLEAN, c => o \in Slots, NEW m, m = Changes(r, w, c, o),
           NEW d, Whole(d), NEW f, f = Informed(p, d, r, w, c, o)
    PROVE  Way(p, d, m, f)
<1>1. PICK u : u = <<Role(r, w)>>
  OBVIOUS
<1>2. PICK h : h = <<Role(o, AI)>>
  OBVIOUS
<1>3. PICK v : v = When(c, h)
  OBVIOUS
<1>4. u \in Seq(Messages) /\ (c => h \in Seq(Messages))
  BY <1>1, <1>2, TableOnes DEF Messages
<1>5. v \in Seq(Messages)
  BY <1>3, <1>4 DEF When
<1>6. m = u \o v
  BY <1>1, <1>2, <1>3, Zenon DEF Changes
<1>7. PICK e : e = After(p, d, Role(r, w))
  OBVIOUS
<1>8. Way(p, d, u, e) /\ Whole(e)
  BY <1>1, <1>7, OnRole
<1>9. PICK k : k = After(p, e, Role(o, AI))
  OBVIOUS
<1>10. Way(p, e, h, k)
  <2>1. Whole(e)
    BY <1>8
  <2> QED BY <1>2, <1>9, <2>1, OnRole
<1>11. f = IF c THEN k ELSE e
  BY <1>7, <1>9 DEF Informed
<1>12. Way(p, e, v, f)
  BY <1>3, <1>10, <1>11, OnWhen
<1> QED BY <1>4, <1>5, <1>6, <1>8, <1>12, WayOn

LEMMA RoleSends ==
    ASSUME NEW p, NEW a, NEW b, NEW rs \in SlotTable, NEW ss, mission \in Nat,
           b.phase = a.phase, b.info = a.info, b.holds = a.holds \/ a.phase # Debriefing,
           NEW r \in Slots, NEW w \in Players \cup {AI}, NEW o, NEW c \in BOOLEAN, c => o \in Slots,
           ss = Changed(rs, r, w, c, o),
           NEW m, m = Changes(r, w, c, o)
    PROVE  Sends(p, a, b, rs, ss, m)
<1>1. m \in Seq(Plain(b)) /\ Free("state", m)
  BY RoleOnes
<1>2. ASSUME NEW d, Leaves(a, rs, d)
      PROVE  \E e : Way(p, d, m, e) /\ Leaves(b, ss, e)
  <2>1. Whole(d)
    BY <1>2 DEF Leaves, Whole
  <2>2. PICK f : f = Informed(p, d, r, w, c, o)
    OBVIOUS
  <2>4. /\ Way(p, d, m, f) /\ Whole(f) /\ f.state = d.state /\ f.head = d.head
        /\ f.file = d.file /\ f.person = d.person /\ (d.roles = rs => f.roles = ss)
    <3>1. Way(p, d, m, f)
      BY <2>1, <2>2, RoleWay
    <3> QED BY <2>1, <2>2, <3>1, RoleKnown
  <2>5. Leaves(b, ss, f)
    BY <1>2, <2>4 DEF Leaves, Whole
  <2> QED BY <2>4, <2>5
<1> QED BY <1>1, <1>2, SendsPlain

(* What a player has missed of the start of the mission, up to the briefing. *)
Started(t, v, l) ==
    (When(t, <<State(Transfer)>>) \o When(~v, <<File>>)) \o When(l, <<State(LoadIsland)>>)

Waiting(p, ss, v, d) ==
    /\ Whole(d) /\ d.head /\ d.roles = ss /\ (v => d.file)
    /\ d.state \in Phases \ {Briefing, Play, Debriefing}

Loaded(p, ss, d, x, l) == \E e : Way(p, d, x, e) /\ Waiting(p, ss, TRUE, e) /\ (l => e.state = LoadIsland)

LEMMA StartedOnes ==
    ASSUME NEW b, mission \in Nat, NEW t \in BOOLEAN, NEW v \in BOOLEAN, NEW l \in BOOLEAN,
           t => Hearable(b, Transfer), l => Hearable(b, LoadIsland), NEW x, x = Started(t, v, l)
    PROVE  x \in Seq(Plain(b))
<1>1. PICK u : u = When(t, <<State(Transfer)>>)
  OBVIOUS
<1>2. PICK h : h = When(~v, <<File>>)
  OBVIOUS
<1>3. PICK y : y = When(l, <<State(LoadIsland)>>)
  OBVIOUS
<1>4. u \in Seq(Plain(b))
  BY <1>1, PlainOnes DEF When
<1>5. h \in Seq(Plain(b))
  BY <1>2, PlainOnes DEF When
<1>6. y \in Seq(Plain(b))
  BY <1>3, PlainOnes DEF When
<1>7. x = (u \o h) \o y
  BY <1>1, <1>2, <1>3, Zenon DEF Started
<1> QED BY <1>4, <1>5, <1>6, <1>7

LEMMA StartedWay ==
    ASSUME NEW p, NEW ss, mission \in Nat, NEW t \in BOOLEAN, NEW v \in BOOLEAN, NEW l \in BOOLEAN,
           Holds(ss, p), NEW x, x = Started(t, v, l), NEW d, Waiting(p, ss, v, d)
    PROVE  Loaded(p, ss, d, x, l)
<1>1. PICK u : u = <<State(Transfer)>>
  OBVIOUS
<1>2. PICK h : h = <<File>>
  OBVIOUS
<1>3. PICK y : y = <<State(LoadIsland)>>
  OBVIOUS
<1>4. PICK uu : uu = When(t, u)
  OBVIOUS
<1>5. PICK hh : hh = When(~v, h)
  OBVIOUS
<1>6. PICK yy : yy = When(l, y)
  OBVIOUS
<1>7. uu \in Seq(Messages) /\ hh \in Seq(Messages) /\ yy \in Seq(Messages)
  <2>1. State(Transfer) \in Messages /\ State(LoadIsland) \in Messages /\ File \in Messages
    BY QuietOnes DEF Messages
  <2>2. uu \in Seq(Messages)
    BY <1>1, <1>4, <2>1 DEF When
  <2>3. hh \in Seq(Messages)
    BY <1>2, <1>5, <2>1 DEF When
  <2>4. yy \in Seq(Messages)
    BY <1>3, <1>6, <2>1 DEF When
  <2> QED BY <2>2, <2>3, <2>4
<1>8. PICK z : z = uu \o hh
  OBVIOUS
<1>9. z \in Seq(Messages) /\ x = z \o yy
  <2>1. x = z \o yy
    BY <1>1, <1>2, <1>3, <1>4, <1>5, <1>6, <1>8, Zenon DEF Started
  <2> QED BY <1>7, <1>8, <2>1, SeqOn
<1>10. /\ Whole(d) /\ d.head /\ d.roles = ss /\ (v => d.file)
       /\ d.state \in Phases \ {Briefing, Play, Debriefing}
  BY DEF Waiting
<1>11. Whole(d)
  BY <1>10
<1>12. PICK k : k = After(p, d, State(Transfer))
  OBVIOUS
<1>13. PICK e : e = IF t THEN k ELSE d
  OBVIOUS
<1>14. Takes(p, d, State(Transfer))
  BY <1>10, TakesState
<1>15. Way(p, d, u, k) /\ Whole(k)
  BY <1>1, <1>11, <1>12, <1>14, OnState
<1>16. k.state = Turned(p, d, Transfer) /\ k.head = d.head /\ k.roles = d.roles /\ k.file = d.file
  BY <1>11, <1>12, AfterState DEF Whole
<1>17. k.state \in Phases \ {Briefing, Play, Debriefing}
  BY <1>10, <1>16 DEF Turned
<1>18. Way(p, d, uu, e)
  BY <1>4, <1>13, <1>15, OnWhen
<1>19. /\ e.head /\ e.roles = ss /\ (v => e.file) /\ e.state \in Phases \ {Briefing, Play, Debriefing}
  BY <1>10, <1>13, <1>16, <1>17
<1>20. Whole(e)
  BY <1>11, <1>13, <1>15
<1>21. PICK j : j = After(p, e, File)
  OBVIOUS
<1>22. PICK f : f = IF v THEN e ELSE j
  OBVIOUS
<1>40. Filed(p, e, h, j)
  BY <1>2, <1>19, <1>20, <1>21, OnFile
<1>23. Way(p, e, h, j) /\ Whole(j)
  BY <1>40, Zenon DEF Filed
<1>24. /\ j.state = IF e.state = Transfer /\ Holds(e.roles, p) THEN LoadIsland ELSE e.state
       /\ j.head = e.head /\ j.file /\ j.roles = e.roles
  BY <1>40, Zenon DEF Filed
<1>25. Way(p, e, hh, f)
  <2>1. (~v) \in BOOLEAN
    OBVIOUS
  <2> QED BY <1>5, <1>22, <1>23, <2>1, OnWhen
<1>26. f.head /\ f.roles = ss /\ f.file /\ f.state \in Phases \ {Briefing, Play, Debriefing}
  <2>1. CASE v
    BY <1>19, <1>22, <2>1
  <2>2. CASE ~v
    <3>1. f = j
      BY <1>22, <2>2
    <3>2. j.state = LoadIsland \/ j.state = e.state
      BY <1>24
    <3>3. LoadIsland \in Phases \ {Briefing, Play, Debriefing}
      BY DEF Phases, LoadIsland, Briefing, Play, Debriefing
    <3>4. j.head /\ j.roles = ss /\ j.file
      BY <1>19, <1>24
    <3> QED BY <1>19, <3>1, <3>2, <3>3, <3>4
  <2> QED BY <2>1, <2>2
<1>27. Whole(f)
  BY <1>20, <1>22, <1>23
<1>28. PICK i : i = After(p, f, State(LoadIsland))
  OBVIOUS
<1>29. PICK g : g = IF l THEN i ELSE f
  OBVIOUS
<1>30. Takes(p, f, State(LoadIsland))
  <2>1. Holds(f.roles, p)
    BY <1>26
  <2> QED BY <1>26, <2>1, TakesState
<1>31. Way(p, f, y, i) /\ Whole(i)
  BY <1>3, <1>27, <1>28, <1>30, OnState
<1>32. i.state = Turned(p, f, LoadIsland) /\ i.head = f.head /\ i.roles = f.roles /\ i.file = f.file
  BY <1>27, <1>28, AfterState DEF Whole
<1>33. i.state = LoadIsland
  BY <1>26, <1>32 DEF Turned, Ignores
<1>34. Way(p, f, yy, g)
  BY <1>6, <1>29, <1>31, OnWhen
<1>35. Whole(g)
  BY <1>27, <1>29, <1>31
<1>36. /\ g.head /\ g.roles = ss /\ g.file /\ g.state \in Phases \ {Briefing, Play, Debriefing}
       /\ l => g.state = LoadIsland
  <2>1. CASE l
    <3>1. g = i
      BY <1>29, <2>1
    <3>2. LoadIsland \in Phases \ {Briefing, Play, Debriefing}
      BY DEF Phases, LoadIsland, Briefing, Play, Debriefing
    <3>3. g.state = LoadIsland
      BY <1>33, <3>1
    <3> QED BY <1>26, <1>32, <3>1, <3>2, <3>3
  <2>2. CASE ~l
    BY <1>26, <1>29, <2>2
  <2> QED BY <2>1, <2>2
<1>37. Waiting(p, ss, TRUE, g)
  BY <1>35, <1>36 DEF Waiting
<1>38. Way(p, d, z, f)
  BY <1>7, <1>8, <1>18, <1>25, WayOn
<1>39. Way(p, d, x, g)
  BY <1>7, <1>9, <1>34, <1>38, WayOn
<1> QED BY <1>36, <1>37, <1>39 DEF Loaded

LEMMA SlotNumber ==
    ASSUME NEW r \in Slots
    PROVE  r # 0
<1>1. PICK n : Slots = 1 .. n
  BY SlotsAssumption, Zenon
<1>2. r \in 1 .. n
  BY <1>1
<1> QED BY <1>2

LEMMA HeldWaits ==
    ASSUME NEW p, NEW a, NEW rs, NEW ss, a.phase \in Transfer .. Briefing, a.info \in Phases, a.info < Briefing,
           a.head, a.valid => a.all,
           NEW d, Leaves(a, rs, d), a.head => d.head, a.all => d.file,
           NEW f, Whole(f), f.state = d.state, f.head = d.head, f.file = d.file, d.roles = rs => f.roles = ss
    PROVE  Waiting(p, ss, a.valid, f)
<1>1. d.roles = rs /\ d.head
  BY DEF Leaves
<1>2. d.state \in Phases \ {Briefing, Play, Debriefing}
  BY DEF Leaves
<1> QED BY <1>1, <1>2 DEF Waiting

(* OnClaim for a player that has missed the start of the mission: with it he
   is told all he has missed.                                                *)
CatchUp(a, n) ==
    Started(a.info < Transfer, a.valid, a.phase >= LoadIsland)
    \o When(a.phase = Briefing, <<World(n), State(Briefing)>>)

LEMMA CatchUpSends ==
    ASSUME NEW p, NEW a, NEW b, NEW rs, NEW ss, NEW n \in Slots, mission \in Nat,
           Core(a), SameClient(a, b), Core(b), ~Hearable(a, Briefing), Misses(a, b),
           Holds(ss, p), b.phase = a.phase,
           b.info = IF a.phase >= LoadIsland THEN a.phase ELSE IF a.info > Transfer THEN a.info ELSE Transfer,
           NEW m \in Seq(Plain(b)),
           \A d : Leaves(a, rs, d) /\ (a.head => d.head) /\ (a.all => d.file)
                    => \E e : Way(p, d, m, e) /\ Waiting(p, ss, a.valid, e),
           NEW r, r = m \o CatchUp(a, n)
    PROVE  Sends(p, a, b, rs, ss, r)
<1>1. /\ a.phase \in {Transfer, LoadIsland, Briefing} /\ a.info \in Phases /\ a.info < Briefing
      /\ a.valid \in BOOLEAN /\ a.state # Briefing /\ a.screen \in Screens
      /\ a.screen \notin {"getready", "launched", "mission", "debriefing"}
  BY DEF Misses, Core, Views, OnServer, OnClient, OnScreen, Over
<1>2. \A s \in Phases \ {Briefing} : Hearable(b, s)
  BY <1>1 DEF Hearable, SameClient
<1>3. a.phase = Briefing => Hearable(b, Briefing)
  BY <1>1 DEF Hearable, SameClient, Away, Screens
<1>40. PICK t : t = (a.info < Transfer)
  OBVIOUS
<1>4. t = (a.info < Transfer) /\ t \in BOOLEAN
  BY <1>40
<1>50. PICK l : l = (a.phase >= LoadIsland)
  OBVIOUS
<1>5. l = (a.phase >= LoadIsland) /\ l \in BOOLEAN
  BY <1>50
<1>6. PICK v \in BOOLEAN : v = a.valid
  BY <1>1
<1>7. PICK x : x = Started(t, v, l)
  OBVIOUS
<1>8. x \in Seq(Plain(b))
  <2>1. Hearable(b, Transfer) /\ Hearable(b, LoadIsland)
    BY <1>2
  <2> QED BY <1>4, <1>5, <1>7, <2>1, StartedOnes
<1>9. PICK z : z = m \o x
  OBVIOUS
<1>10. z \in Seq(Plain(b))
  BY <1>8, <1>9, SeqOn
<1>11. ASSUME NEW d, Leaves(a, rs, d), a.head => d.head, a.all => d.file
       PROVE  \E e : Way(p, d, z, e) /\ Waiting(p, ss, TRUE, e) /\ (l => e.state = LoadIsland)
  <2>1. PICK f : Way(p, d, m, f) /\ Waiting(p, ss, v, f)
    BY <1>6, <1>11
  <2>20. Waiting(p, ss, v, f) /\ t \in BOOLEAN /\ l \in BOOLEAN /\ v \in BOOLEAN
    BY <1>4, <1>5, <2>1
  <2>21. Loaded(p, ss, f, x, l)
    BY <1>7, <2>20, StartedWay
  <2>2. PICK e : Way(p, f, x, e) /\ Waiting(p, ss, TRUE, e) /\ (l => e.state = LoadIsland)
    BY <2>21 DEF Loaded
  <2>3. Way(p, d, z, e)
    BY <1>8, <1>9, <2>1, <2>2, WayOn
  <2> QED BY <2>2, <2>3
<1>12. CASE a.phase # Briefing
  <2>1. PICK y : y = When(a.phase = Briefing, <<World(n), State(Briefing)>>)
    OBVIOUS
  <2>2. y = <<>>
    BY <1>12, <2>1 DEF When
  <2>3. r = m \o (x \o y)
    BY <1>4, <1>5, <1>6, <1>7, <2>1, Zenon DEF CatchUp
  <2>4. r = z
    BY <1>8, <1>9, <2>2, <2>3
  <2>5. ASSUME NEW d, Leaves(a, rs, d), a.head => d.head, a.all => d.file
        PROVE  \E e : Way(p, d, r, e) /\ Leaves(b, ss, e)
    <3>1. PICK e : Way(p, d, z, e) /\ Waiting(p, ss, TRUE, e) /\ (l => e.state = LoadIsland)
      BY <1>11, <2>5
    <3>2. Leaves(b, ss, e)
      BY <1>1, <1>5, <1>12, <3>1 DEF Leaves, Waiting, Whole
    <3> QED BY <2>4, <3>1, <3>2
  <2> QED BY <1>10, <2>4, <2>5, SendsPlain
<1>13. CASE a.phase = Briefing
  <2>1. PICK y : y = <<World(n)>>
    OBVIOUS
  <2>2. PICK k : k = <<State(Briefing)>>
    OBVIOUS
  <2>3. y \in Seq(Plain(b)) /\ k \in Seq(Fitting(b))
    <3>1. World(n) \in Plain(b) /\ State(Briefing) \in Fitting(b)
      BY <1>3, <1>13, PlainOnes
    <3> QED BY <2>1, <2>2, <3>1
  <2>4. PICK zz : zz = z \o y
    OBVIOUS
  <2>5. zz \in Seq(Plain(b))
    BY <1>10, <2>3, <2>4, SeqOn
  <2>6. r = zz \o k
    <3>1. <<World(n), State(Briefing)>> = y \o k
      BY <2>1, <2>2
    <3>2. PICK u : u = y \o k
      OBVIOUS
    <3>3. When(a.phase = Briefing, <<World(n), State(Briefing)>>) = u
      BY <1>13, <3>1, <3>2 DEF When
    <3>4. r = m \o (x \o u)
      BY <1>4, <1>5, <1>6, <1>7, <3>3, Zenon DEF CatchUp
    <3>5. /\ m \in Seq(Fitting(b)) /\ x \in Seq(Fitting(b)) /\ y \in Seq(Fitting(b))
      BY <1>8, <2>3, PlainSeq
    <3>6. PICK S : S = Fitting(b)
      OBVIOUS
    <3>7. m \in Seq(S) /\ x \in Seq(S) /\ y \in Seq(S) /\ k \in Seq(S)
      BY <2>3, <3>5, <3>6
    <3>8. m \o (x \o (y \o k)) = ((m \o x) \o y) \o k
      BY ONLY <3>7
    <3> QED BY <1>9, <2>4, <3>2, <3>4, <3>8
  <2>7. ASSUME NEW d, Leaves(a, rs, d), a.head => d.head, a.all => d.file
        PROVE  \E e : Way(p, d, r, e) /\ Leaves(b, ss, e)
    <3>1. PICK e : Way(p, d, z, e) /\ Waiting(p, ss, TRUE, e) /\ (l => e.state = LoadIsland)
      BY <1>11, <2>7
    <3>20. l
      <4>1. a.phase >= LoadIsland
        BY <1>13
      <4> QED BY <1>5, <4>1, Zenon
    <3>2. Whole(e) /\ e.head /\ e.roles = ss /\ e.state = LoadIsland
      BY <3>1, <3>20 DEF Waiting
    <3>3. Whole(e)
      BY <3>2
    <3>4. PICK f : f = After(p, e, World(n))
      OBVIOUS
    <3>40. Peopled(p, e, n, y, f)
      BY <2>1, <3>3, <3>4, OnWorld
    <3>5. /\ Way(p, e, y, f) /\ Whole(f)
          /\ f.state = e.state /\ f.head = e.head /\ f.file = e.file /\ f.roles = e.roles
          /\ f.person = (e.person \/ (n # 0 /\ e.state >= LoadIsland))
      BY <3>40, Zenon DEF Peopled
    <3>6. n # 0
      BY SlotNumber
    <3>61. e.state = LoadIsland => n # 0 /\ e.state >= LoadIsland
      BY <3>6
    <3>7. Whole(f) /\ f.person /\ f.head /\ f.roles = ss /\ f.state = LoadIsland
      BY <3>2, <3>5, <3>61, Zenon
    <3>8. Takes(p, f, State(Briefing))
      BY <3>7, TakesState
    <3>9. PICK g : g = After(p, f, State(Briefing))
      OBVIOUS
    <3>10. Whole(f)
      BY <3>7
    <3>11. /\ Way(p, f, k, g) /\ Whole(g)
           /\ g.state = Turned(p, f, Briefing) /\ g.head = f.head /\ g.roles = f.roles /\ g.file = f.file
      BY <2>2, <3>8, <3>9, <3>10, OnState
    <3>12. g.state = Briefing
      BY <3>7, <3>11 DEF Turned, Ignores
    <3>13. g.person
      <4>1. f.head \in BOOLEAN /\ f.file \in BOOLEAN /\ f.person \in BOOLEAN /\ f.person
        BY <3>7 DEF Whole
      <4>2. ~Loads(p, f, State(Briefing))
        BY DEF Loads, State
      <4>3. g.person = (f.person /\ ~Loads(p, f, State(Briefing)))
        BY <3>9, <4>1 DEF After, Walker, State
      <4> QED BY <4>1, <4>2, <4>3
    <3>14. Leaves(b, ss, g)
      BY <1>13, <3>7, <3>11, <3>12, <3>13 DEF Leaves, Whole
    <3>15. Way(p, d, zz, f)
      BY <1>10, <2>3, <2>4, <3>1, <3>5, WayOn
    <3>16. zz \in Seq(Fitting(b))
      BY <2>5, PlainSeq
    <3>17. Way(p, d, r, g)
      BY <2>3, <2>6, <3>11, <3>15, <3>16, WayOn
    <3> QED BY <3>14, <3>17
  <2> QED BY <1>3, <1>13, <2>2, <2>5, <2>6, <2>7, SendsBriefing
<1> QED BY <1>12, <1>13

-----------------------------------------------------------------------------
(* The invariant.                                                          *)

(* The player as the server has him (x, and whether he holds a slot) and as his
   client (c, with the files f) is.                                          *)
Viewed(s, rep, x, h, c, f) ==
    [phase |-> s, report |-> rep, info |-> x.state, valid |-> x.valid, known |-> x.ident, holds |-> h,
     state |-> c.state, srv |-> c.srv, head |-> c.head # 0, all |-> 1 .. MaxMissions \subseteq f,
     person |-> c.person # 0, ident |-> c.ident, screen |-> c.screen]

Fields == {"state", "srv", "head", "roles", "valid", "jip", "ident", "person", "screen"}

(* His client's record, which the display does not touch.                  *)
Recorded(c, f) ==
    /\ DOMAIN c = Fields /\ c.jip = FALSE /\ c.head \in 0 .. MaxMissions
    /\ c.valid = (c.head # 0 /\ 1 .. MaxMissions \subseteq f)

View(p) == Viewed(state, report, info[p], Holds(roles, p), client[p], files[p])

Fitted(p) ==
    /\ Fits(p, View(p), client[p].roles, roles, toClient[p], toServer[p])
    /\ Recorded(client[p], files[p])

(* The players that have been there since before the mission: for the others the
   server keeps the mission waiting for nobody.  And that have the island: the
   client of the others stays behind.                                        *)
Staying == {p \in Players \ Worldless : info[p].state # None /\ ~info[p].jip}

(* What a player's client asks of the server without a password.           *)
Asks(p) ==
    {m \in Requests :
        /\ m.type # "order"
        /\ m.type = "claim" => m.player \in {AI, p}
        /\ m.type = "ready" => m.state # None}

Calm ==
    /\ master = AI /\ restart = FALSE /\ reassign = FALSE /\ named = FALSE
    /\ state # PrepareRole
    /\ mission = 0 => state = Create
    /\ report => state = LoadIsland
Tabled  == DOMAIN toClient = Players /\ DOMAIN client = Players /\ DOMAIN files = Players
Manned  == \A p \in Players : Holds(roles, p) => info[p].state # None
Asking  == \A p \in Players : toServer[p] \in Seq(Asks(p))
Stored  == Cached = Players => \A p \in Players : 1 .. MaxMissions \subseteq files[p]
Around  == IInv /\ Calm /\ Tabled /\ Manned /\ Asking /\ Stored

PInv == Around /\ \A p \in Staying : Fitted(p)

(* No admin, and missions that take late joiners; loading that fails, fails before
   the bot has reported; and a file on the disk is of the mission, if it is not
   the only one.                                                             *)
Session ==
    /\ Jip /\ Admins = {} /\ LoadErrors \subseteq {"early"}
    /\ Cached = Players \/ MaxMissions <= 1

-----------------------------------------------------------------------------
(* From the state to the view.                                             *)

LEMMA ViewIs ==
    ASSUME NEW p, NEW a, a = View(p)
    PROVE  /\ a.phase = state /\ a.report = report /\ a.info = info[p].state /\ a.valid = info[p].valid
           /\ a.known = info[p].ident /\ a.holds = Holds(roles, p)
           /\ a.state = client[p].state /\ a.srv = client[p].srv /\ a.head = (client[p].head # 0)
           /\ a.all = (1 .. MaxMissions \subseteq files[p]) /\ a.person = (client[p].person # 0)
           /\ a.ident = client[p].ident /\ a.screen = client[p].screen
BY DEF View, Viewed

LEMMA ViewIsNext ==
    ASSUME NEW p, NEW b, b = View(p)'
    PROVE  /\ b.phase = state' /\ b.report = report' /\ b.info = info'[p].state /\ b.valid = info'[p].valid
           /\ b.known = info'[p].ident /\ b.holds = Holds(roles', p)
           /\ b.state = client'[p].state /\ b.srv = client'[p].srv /\ b.head = (client'[p].head # 0)
           /\ b.all = (1 .. MaxMissions \subseteq files'[p]) /\ b.person = (client'[p].person # 0)
           /\ b.ident = client'[p].ident /\ b.screen = client'[p].screen
BY DEF View, Viewed

LEMMA ViewClient ==
    ASSUME NEW p, NEW a, a = View(p), NEW b, b = View(p)', UNCHANGED <<client, files>>
    PROVE  SameClient(a, b)
BY DEF View, Viewed, SameClient

LEMMA ViewServer ==
    ASSUME NEW p, NEW a, a = View(p), NEW b, b = View(p)', UNCHANGED <<state, report, info, roles>>
    PROVE  SameServer(a, b)
BY DEF View, Viewed, SameServer

(* Nothing that concerns the player happens.                               *)
LEMMA Untouched ==
    ASSUME NEW p, Fitted(p), UNCHANGED <<state, report, roles>>, info'[p] = info[p],
           client'[p] = client[p], files'[p] = files[p], toClient'[p] = toClient[p], toServer'[p] = toServer[p]
    PROVE  Fitted(p)'
<1>1. View(p)' = View(p)
  BY DEF View
<1> QED BY <1>1 DEF Fitted

(* The server moves on, and sends the player m.                            *)
LEMMA ServerStep ==
    ASSUME NEW p, Fitted(p), UNCHANGED <<client, files, toServer>>, NEW a, a = View(p), NEW b, b = View(p)',
           NEW m, toClient'[p] = toClient[p] \o m, Passes(a, b), Sends(p, a, b, roles, roles', m)
    PROVE  Fitted(p)'
<1>1. SameClient(a, b)
  BY ViewClient
<1>2. PICK t : t = client[p].roles
  OBVIOUS
<1>3. PICK qc : qc = toClient[p]
  OBVIOUS
<1>4. PICK qs : qs = toServer[p]
  OBVIOUS
<1>5. PICK r : r = qc \o m
  OBVIOUS
<1>6. PICK rs : rs = roles
  OBVIOUS
<1>7. PICK ss : ss = roles'
  OBVIOUS
<1>8. Fits(p, a, t, rs, qc, qs)
  BY <1>2, <1>3, <1>4, <1>6 DEF Fitted
<1>9. Sends(p, a, b, rs, ss, m)
  BY <1>6, <1>7
<1>10. Fits(p, b, t, ss, r, qs)
  BY <1>1, <1>5, <1>8, <1>9, ServerFits
<1>11. client'[p].roles = t /\ toClient'[p] = r /\ toServer'[p] = qs
  BY <1>2, <1>3, <1>4, <1>5
<1>12. Fits(p, View(p)', client'[p].roles, roles', toClient'[p], toServer'[p])
  BY <1>7, <1>10, <1>11
<1>13. Recorded(client'[p], files'[p])
  BY DEF Fitted
<1> QED BY <1>12, <1>13 DEF Fitted

(* It takes what the player has sent first, and sends him m.               *)
LEMMA HeardStep ==
    ASSUME NEW p \in Players, IInv, Fitted(p), NEW t, Heard(p, t), UNCHANGED <<client, files>>,
           NEW a, a = View(p), NEW b, b = View(p)',
           NEW m, toClient'[p] = toClient[p] \o m, Reads(a, b, Head(toServer[p])),
           b.known = a.known \/ (t = "login" /\ b.known), Sends(p, a, b, roles, roles', m)
    PROVE  Fitted(p)'
<1>1. SameClient(a, b)
  BY ViewClient
<1>2. PICK u : u = client[p].roles
  OBVIOUS
<1>3. PICK qc : qc = toClient[p]
  OBVIOUS
<1>4. PICK qs : qs = toServer[p]
  OBVIOUS
<1>5. PICK r : r = qc \o m
  OBVIOUS
<1>6. PICK rs : rs = roles
  OBVIOUS
<1>7. PICK ss : ss = roles'
  OBVIOUS
<1>8. PICK z : z = Tail(qs)
  OBVIOUS
<1>9. Fits(p, a, u, rs, qc, qs)
  BY <1>2, <1>3, <1>4, <1>6 DEF Fitted
<1>10. Sends(p, a, b, rs, ss, m)
  BY <1>6, <1>7
<1>11. qs # <<>> /\ Reads(a, b, Head(qs)) /\ Head(qs).type = t
  BY <1>4 DEF Heard
<1>12. Fits(p, b, u, ss, r, z)
  BY <1>1, <1>5, <1>8, <1>9, <1>10, <1>11, HeardFits
<1>13. toServer'[p] = z
  BY <1>4, <1>8, Unfolded DEF Heard
<1>14. client'[p].roles = u /\ toClient'[p] = r
  BY <1>2, <1>3, <1>5
<1>15. Fits(p, View(p)', client'[p].roles, roles', toClient'[p], toServer'[p])
  BY <1>7, <1>12, <1>13, <1>14
<1>16. Recorded(client'[p], files'[p])
  BY DEF Fitted
<1> QED BY <1>15, <1>16 DEF Fitted

(* The client reads a message, and answers m.                              *)
LEMMA ReadStep ==
    ASSUME NEW p \in Players, Fitted(p), Tabled, toClient[p] # <<>>, toClient' = [toClient EXCEPT ![p] = Tail(@)],
           UNCHANGED roles, NEW a, a = View(p), NEW b, b = View(p)', Learns(a, b, Head(toClient[p])),
           Knows(b, client'[p].roles) = After(p, Knows(a, client[p].roles), Head(toClient[p])),
           NEW m \in Seq(Proper(p, b)), \A k \in 1 .. Len(m) : ~Ranked(m[k]),
           toServer'[p] = toServer[p] \o m, Greeted(b, Tail(toClient[p]), toServer'[p]),
           Recorded(client'[p], files'[p])
    PROVE  Fitted(p)'
<1>1. PICK t : t = client[p].roles
  OBVIOUS
<1>2. PICK u : u = client'[p].roles
  OBVIOUS
<1>3. PICK qc : qc = toClient[p]
  OBVIOUS
<1>4. PICK qs : qs = toServer[p]
  OBVIOUS
<1>5. PICK r : r = Tail(qc)
  OBVIOUS
<1>6. PICK z : z = qs \o m
  OBVIOUS
<1>7. PICK rs : rs = roles
  OBVIOUS
<1>8. Fits(p, a, t, rs, qc, qs)
  BY <1>1, <1>3, <1>4, <1>7 DEF Fitted
<1>9. Knows(b, u) = After(p, Knows(a, t), Head(qc))
  BY <1>1, <1>2, <1>3
<1>10. Learns(a, b, Head(qc)) /\ qc # <<>> /\ Greeted(b, r, z)
  BY <1>3, <1>4, <1>5, <1>6
<1>11. Fits(p, b, u, rs, r, z)
  BY <1>5, <1>6, <1>8, <1>9, <1>10, LearnsFits
<1>12. toClient'[p] = r /\ toServer'[p] = z /\ roles' = rs
  BY <1>3, <1>4, <1>5, <1>6, <1>7 DEF Tabled
<1>13. Fits(p, View(p)', client'[p].roles, roles', toClient'[p], toServer'[p])
  BY <1>2, <1>11, <1>12
<1> QED BY <1>13 DEF Fitted

(* The display, or the player in front of it, moves, and says m.           *)
LEMMA MovedStep ==
    ASSUME NEW p \in Players, Fitted(p), UNCHANGED roles, toClient'[p] = toClient[p],
           client'[p].roles = client[p].roles, Recorded(client'[p], files'[p]),
           NEW a, a = View(p), NEW b, b = View(p)', Moved(a, b),
           NEW m \in Seq(Proper(p, b)), Ordered(Over(b), m), Free("login", m),
           \A k \in 1 .. Len(m) : Ranked(m[k]) => Bound(a) <= Rank(Over(b), m[k]),
           Owes(b) => Owes(a) \/ Owed(m), toServer'[p] = toServer[p] \o m
    PROVE  Fitted(p)'
<1>1. PICK t : t = client[p].roles
  OBVIOUS
<1>3. PICK qc : qc = toClient[p]
  OBVIOUS
<1>4. PICK qs : qs = toServer[p]
  OBVIOUS
<1>6. PICK z : z = qs \o m
  OBVIOUS
<1>7. PICK rs : rs = roles
  OBVIOUS
<1>8. Fits(p, a, t, rs, qc, qs)
  BY <1>1, <1>3, <1>4, <1>7 DEF Fitted
<1>9. a.person \in BOOLEAN
  BY <1>8 DEF Fits, Core, Views
<1>11. Fits(p, b, t, rs, qc, z)
  BY <1>6, <1>8, <1>9, MovedFits
<1>12. toClient'[p] = qc /\ toServer'[p] = z /\ roles' = rs /\ client'[p].roles = t
  BY <1>1, <1>3, <1>4, <1>6, <1>7
<1>13. Fits(p, View(p)', client'[p].roles, roles', toClient'[p], toServer'[p])
  BY <1>11, <1>12
<1> QED BY <1>13 DEF Fitted

(* What the invariant says of a player in the terms of his view.           *)
LEMMA FittedParts ==
    ASSUME NEW p, Fitted(p), NEW a, a = View(p)
    PROVE  /\ Core(a) /\ Reports(p, a, toServer[p]) /\ Told(a, toClient[p])
           /\ Greeted(a, toClient[p], toServer[p])
           /\ toClient[p] \in Seq(Messages) /\ toServer[p] \in Seq(Proper(p, a))
           /\ Recorded(client[p], files[p])
BY Messaged DEF Fitted, Fits, Told, Reports

LEMMA StillPasses ==
    ASSUME NEW a, Core(a)
    PROVE  Passes(a, a)
<1>1. Heeds(a, a) /\ Gains(a, a)
  BY DEF Heeds, Gains
<1>2. Reranks(a, a)
  BY BoundsTyped DEF Reranks
<1> QED BY <1>1, <1>2 DEF Passes

LEMMA SameFields ==
    ASSUME NEW p, NEW a, a = View(p), NEW b, b = View(p)',
           a.phase = b.phase, a.report = b.report, a.info = b.info, a.valid = b.valid, a.known = b.known,
           a.holds = b.holds, UNCHANGED <<client, files>>
    PROVE  a = b
BY DEF View, Viewed

-----------------------------------------------------------------------------
(* What does not depend on the player.                                     *)

LEMMA AskedOf ==
    ASSUME Around, NEW p \in Players, NEW t, Heard(p, t)
    PROVE  /\ Head(toServer[p]) \in Asks(p) /\ Head(toServer[p]) \in Requests /\ Head(toServer[p]).type = t
           /\ toServer[p] # <<>> /\ p \in Present /\ ~report /\ t # "order"
           /\ toServer' = [toServer EXCEPT ![p] = Tail(toServer[p])]
<1>1. toServer[p] \in Seq(Asks(p)) /\ toServer[p] # <<>> /\ Head(toServer[p]).type = t
  BY DEF Around, Asking, Heard
<1>2. Head(toServer[p]) \in Asks(p)
  BY <1>1
<1>3. p \in Present /\ ~report /\ toServer' = [toServer EXCEPT ![p] = Tail(toServer[p])]
  BY DEF Heard
<1> QED BY <1>1, <1>2, <1>3 DEF Asks

LEMMA NoOrders ==
    ASSUME Session, Around, NEW p \in Players
    PROVE  /\ ~OnOrder(p) /\ \A what : ~GiveOrder(p, what)
           /\ \A r, w : ~DragPlayer(p, r, w)
<1>1. ~OnOrder(p)
  <2> SUFFICES ASSUME OnOrder(p) PROVE FALSE
    OBVIOUS
  <2>1. Heard(p, "order")
    BY DEF OnOrder
  <2> QED BY <2>1, AskedOf
<1>2. \A what : ~GiveOrder(p, what)
  BY DEF GiveOrder, Session
<1>3. \A r, w : ~DragPlayer(p, r, w)
  BY PlayersAssumption DEF DragPlayer, Around, Calm
<1> QED BY <1>1, <1>2, <1>3

LEMMA PhaseBegins ==
    ASSUME NEW s, NEW rs, NEW i, NEW q, SetGameState(s, rs, i, q)
    PROVE  state' = s
BY Zenon DEF SetGameState

(* One step, by who takes it.                                              *)
ServerActs(p) == OnLogin(p) \/ OnAskMissionFile(p) \/ OnReady(p) \/ OnReadyBriefing(p) \/ OnClaim(p)
Presses(p)    == \/ \E r \in Slots : ClickSlot(p, r)
                 \/ PressOK(p) \/ PressLaunch(p) \/ PressContinue(p) \/ PressAgain(p)
Simulated == NobodyLeft \/ ChooseMission \/ Launch \/ TransferDone \/ Load \/ StartPlay \/ EndPlay \/ LeaveDebriefing
LEMMA StepCases ==
    ASSUME Session, Around, Next
    PROVE  \/ OnReadyBot \/ Simulated
           \/ \E p \in Players : Join(p) \/ Leave(p) \/ ServerActs(p) \/ ClientMessage(p) \/ Displays(p)
                                 \/ Presses(p) \/ LeaveMission(p)
<1>1. ASSUME NEW p \in Players, ServerMessage(p)
      PROVE  ServerActs(p)
  BY <1>1, NoOrders DEF ServerMessage, ServerActs
<1>2. ASSUME NEW p \in Players, Buttons(p)
      PROVE  Presses(p)
  BY <1>2, NoOrders DEF Buttons, Presses
<1>3. ASSUME SimulateDS
      PROVE  Simulated
  BY <1>3 DEF SimulateDS, Simulated, MissNamed, Around, Calm
<1> QED BY <1>1, <1>2, <1>3, NoOrders DEF Next

(* What the players' sides leave alone.                                    *)
LEMMA PlayersSide ==
    ASSUME NEW p, ClientMessage(p) \/ Displays(p) \/ Presses(p) \/ LeaveMission(p)
    PROVE  UNCHANGED serverVars /\ UNCHANGED info
BY DEF ClientMessage, Displays, Presses, LeaveMission, ReceiveState, ReceiveHeader, ReceiveRole, ReceiveFile,
       ReceivePlayer, ReceiveOther, EnterSetup, LeaveSetup, LeaveGetReady, LeaveDebriefingDisplay, LeaveWait,
       ClickSlot, PressOK, PressLaunch, PressContinue, PressAgain, Frame

LEMMA CalmKept ==
    ASSUME Session, Around, Next
    PROVE  Calm'
<1>0. /\ Calm /\ mission \in 0 .. MaxMissions /\ {restart, reassign, named, loadIsland, report} \subseteq BOOLEAN
      /\ MaxMissions \in Nat
  BY Unfolded, BoundsAssumption DEF Around
<1>1. ASSUME UNCHANGED <<state, restart, reassign, named, report, mission, master>>
      PROVE  Calm'
  BY <1>0, <1>1 DEF Calm
<1>2. ASSUME NEW p \in Players, ClientMessage(p) \/ Displays(p) \/ Presses(p) \/ LeaveMission(p)
      PROVE  Calm'
  BY <1>1, <1>2, PlayersSide DEF serverVars
<1>3. ASSUME NEW p \in Players, Join(p) \/ ServerActs(p)
      PROVE  Calm'
  BY <1>1, <1>3 DEF Join, ServerActs, OnLogin, OnAskMissionFile, OnReady, OnReadyBriefing, OnClaim, serverVars
<1>4. ASSUME NEW p \in Players, Leave(p)
      PROVE  Calm'
  BY <1>0, <1>4 DEF Leave, Calm
<1>5. CASE OnReadyBot
  <2>1. \E i, q : SetGameState(Briefing, roles, i, q)
    BY <1>5, Zenon DEF OnReadyBot
  <2>2. state' = Briefing
    BY <2>1, PhaseBegins
  <2>3. UNCHANGED <<restart, reassign, named, mission, master>> /\ report /\ report' = FALSE
    BY <1>5 DEF OnReadyBot
  <2> QED BY <1>0, <2>2, <2>3 DEF Calm
<1>6. CASE NobodyLeft
  BY <1>0, <1>6 DEF NobodyLeft, Calm
<1>7. CASE ChooseMission
  <2>1. \E i, q : SetGameState(PrepareSide, Unassigned, i, q)
    BY <1>7, Zenon DEF ChooseMission
  <2>2. state' = PrepareSide
    BY <2>1, PhaseBegins
  <2>3. /\ UNCHANGED <<report, master>> /\ named' = FALSE /\ restart' = (restart /\ ~named)
        /\ reassign' = (reassign /\ ~named) /\ mission' = mission + 1 /\ ~report
    BY <1>7 DEF ChooseMission
  <2> QED BY <1>0, <2>2, <2>3 DEF Calm
<1>8. CASE Launch
  <2>1. /\ UNCHANGED <<report, master, named, reassign, mission>> /\ restart' = FALSE /\ state' = Transfer
        /\ ~report /\ state \in {PrepareSide, PrepareRole}
    BY <1>8 DEF Launch
  <2> QED BY <1>0, <2>1 DEF Calm
<1>9. CASE TransferDone
  <2>1. SetGameState(LoadIsland, roles, info, toClient)
    BY <1>9, Zenon DEF TransferDone
  <2>2. UNCHANGED <<report, master, named, restart, reassign, mission>> /\ ~report /\ state = Transfer
    BY <1>9 DEF TransferDone
  <2> QED BY <1>0, <2>1, <2>2, PhaseBegins DEF Calm
<1>10. CASE Load
  <2>1. PICK outcome \in {"read"} \cup LoadErrors :
           /\ report' = (outcome # "early")
           /\ IF outcome = "read" THEN UNCHANGED <<state, info, toClient>>
              ELSE SetGameState(Create, roles, info, toClient)
    BY <1>10, Zenon DEF Load
  <2>2. UNCHANGED <<master, named, restart, reassign, mission>> /\ state = LoadIsland
    BY <1>10 DEF Load
  <2>3. CASE outcome = "read"
    BY <1>0, <2>1, <2>2, <2>3 DEF Calm
  <2>4. CASE outcome # "read"
    <3>1. outcome = "early" /\ SetGameState(Create, roles, info, toClient)
      BY <2>1, <2>4 DEF Session
    <3>2. state' = Create /\ report' = FALSE
      BY <2>1, <3>1, PhaseBegins
    <3> QED BY <1>0, <2>2, <3>2 DEF Calm
  <2> QED BY <2>3, <2>4
<1>11. CASE StartPlay
  <2>1. SetGameState(Play, roles, info, toClient)
    BY <1>11, Zenon DEF StartPlay
  <2>2. UNCHANGED <<report, master, named, restart, reassign, mission>> /\ ~report /\ state = Briefing
    BY <1>11 DEF StartPlay
  <2> QED BY <1>0, <2>1, <2>2, PhaseBegins DEF Calm
<1>12. CASE EndPlay
  <2>1. SetGameState(Debriefing, roles, Destroyed(info), toClient)
    BY <1>12, Zenon DEF EndPlay
  <2>2. UNCHANGED <<report, master, named, restart, reassign, mission>> /\ ~report /\ state = Play
    BY <1>12 DEF EndPlay
  <2> QED BY <1>0, <2>1, <2>2, PhaseBegins DEF Calm
<1>13. CASE LeaveDebriefing
  <2>1. SetGameState(Create, roles, info, toClient)
    BY <1>0, <1>13, Zenon DEF LeaveDebriefing, Calm
  <2>2. UNCHANGED <<report, master, named, restart, reassign, mission>> /\ ~report
    BY <1>0, <1>13 DEF LeaveDebriefing, Calm
  <2> QED BY <1>0, <2>1, <2>2, PhaseBegins DEF Calm
<1> QED BY <1>2, <1>3, <1>4, <1>5, <1>6, <1>7, <1>8, <1>9, <1>10, <1>11, <1>12, <1>13, StepCases DEF Simulated

-----------------------------------------------------------------------------
(* The rest of what does not depend on the player.                         *)

LEMMA PhaseTells ==
    ASSUME NEW s, NEW rs, NEW i, NEW q, SetGameState(s, rs, i, q)
    PROVE  DOMAIN toClient' = Players
<1>1. PICK d, m, to : toClient' = Send(d, to, m)
  BY Zenon DEF SetGameState
<1> QED BY <1>1 DEF Send

LEMMA TabledKept ==
    ASSUME Session, Around, Next
    PROVE  Tabled'
<1>0. Tabled
  BY DEF Around
<1>1. CASE OnReadyBot \/ Simulated
  <2>1. UNCHANGED <<client, files>>
    BY <1>1, Zenon DEF OnReadyBot, Simulated, NobodyLeft, ChooseMission, Launch, TransferDone, Load, StartPlay,
                       EndPlay, LeaveDebriefing
  <2>2. ~(restart /\ reassign)
    BY DEF Around, Calm
  <2>3. \/ UNCHANGED toClient
        \/ \E s, rs, i, q : SetGameState(s, rs, i, q)
        \/ \E q, to, m : toClient' = Send(q, to, m)
    BY <1>1, <2>2, Zenon DEF OnReadyBot, Simulated, NobodyLeft, ChooseMission, Launch, TransferDone, Load, StartPlay,
                       EndPlay, LeaveDebriefing
  <2>4. DOMAIN toClient' = Players
    BY <1>0, <2>3, PhaseTells DEF Tabled, Send
  <2> QED BY <1>0, <2>1, <2>4 DEF Tabled
<1>2. ASSUME NEW p \in Players, Join(p)
      PROVE  Tabled'
  BY <1>0, <1>2 DEF Join, Tabled
<1>3. ASSUME NEW p \in Players, Leave(p)
      PROVE  Tabled'
  <2>1. DOMAIN client' = Players /\ DOMAIN files' = Players
    BY <1>0, <1>3 DEF Leave, Tabled
  <2>2. \/ \E q, to, m : toClient' = Send(q, to, m)
        \/ toClient' = [toClient EXCEPT ![p] = <<>>]
    BY <1>3, Zenon DEF Leave
  <2>3. DOMAIN toClient' = Players
    BY <1>0, <2>2 DEF Tabled, Send
  <2> QED BY <2>1, <2>3 DEF Tabled
<1>4. ASSUME NEW p \in Players, ServerActs(p)
      PROVE  Tabled'
  <2>1. UNCHANGED <<client, files>>
    BY <1>4, Zenon DEF ServerActs, OnLogin, OnAskMissionFile, OnReady, OnReadyBriefing, OnClaim
  <2>2. UNCHANGED toClient \/ \E q, to, m : toClient' = Send(q, to, m)
    <3>1. ASSUME NEW m, toClient' = SendTo(p, m)
          PROVE  \E q, to, n : toClient' = Send(q, to, n)
      BY <3>1, Zenon DEF SendTo
    <3>2. CASE OnLogin(p) \/ OnReady(p)
      <4>1. \E m : toClient' = SendTo(p, m)
        BY <3>2, Zenon DEF OnLogin, OnReady
      <4> QED BY <3>1, <4>1
    <3>3. CASE OnAskMissionFile(p)
      BY <3>3 DEF OnAskMissionFile
    <3>4. CASE OnReadyBriefing(p)
      <4>1. UNCHANGED toClient \/ \E m : toClient' = SendTo(p, m)
        BY <3>4, Zenon DEF OnReadyBriefing
      <4> QED BY <3>1, <4>1
    <3>5. CASE OnClaim(p)
      BY <3>5, Zenon DEF OnClaim
    <3> QED BY <1>4, <3>2, <3>3, <3>4, <3>5 DEF ServerActs
  <2>3. DOMAIN toClient' = Players
    BY <1>0, <2>2 DEF Tabled, Send
  <2> QED BY <1>0, <2>1, <2>3 DEF Tabled
<1>5. ASSUME NEW p \in Players, ClientMessage(p)
      PROVE  Tabled'
  <2>1. toClient' = [toClient EXCEPT ![p] = Tail(@)]
    BY <1>5 DEF ClientMessage, ReceiveState, ReceiveHeader, ReceiveRole, ReceiveFile, ReceivePlayer, ReceiveOther, Receives
  <2>2. files' = files \/ \E x : files' = [files EXCEPT ![p] = x]
    BY <1>5, Zenon DEF ClientMessage, ReceiveState, ReceiveHeader, ReceiveRole, ReceiveFile, ReceivePlayer, ReceiveOther
  <2>3. client' = client \/ \E x : client' = [client EXCEPT ![p] = x]
    BY <1>5 DEF ClientMessage, ReceiveState, ReceiveHeader, ReceiveRole, ReceiveFile, ReceivePlayer, ReceiveOther
  <2> QED BY <1>0, <2>1, <2>2, <2>3 DEF Tabled
<1>6. ASSUME NEW p \in Players, Displays(p) \/ Presses(p) \/ LeaveMission(p)
      PROVE  Tabled'
  <2>1. UNCHANGED <<toClient, files>>
    BY <1>6 DEF Displays, Presses, EnterSetup, LeaveSetup, LeaveGetReady, LeaveDebriefingDisplay, LeaveWait,
                LeaveMission, ClickSlot, PressOK, PressLaunch, PressContinue, PressAgain, Frame
  <2>2. client' = client \/ \E x : client' = [client EXCEPT ![p] = x]
    BY <1>6, Zenon DEF Displays, Presses, EnterSetup, LeaveSetup, LeaveGetReady, LeaveDebriefingDisplay, LeaveWait,
                LeaveMission, ClickSlot, PressOK, PressLaunch, PressContinue, PressAgain, Frame, Show
  <2> QED BY <1>0, <2>1, <2>2 DEF Tabled
<1> QED BY <1>1, <1>2, <1>3, <1>4, <1>5, <1>6, StepCases

LEMMA StoredKept ==
    ASSUME Session, Around, Next
    PROVE  Stored'
<1>0. Stored /\ DOMAIN files = Players
  BY DEF Around, Tabled
<1>1. ASSUME UNCHANGED files
      PROVE  Stored'
  BY <1>0, <1>1 DEF Stored
<1>2. ASSUME NEW p \in Players, ReceiveFile(p)
      PROVE  Stored'
  <2>1. \A o \in Players : files[o] \subseteq files'[o]
    BY <1>0, <1>2 DEF ReceiveFile
  <2> QED BY <1>0, <2>1 DEF Stored
<1>3. CASE OnReadyBot \/ Simulated
  <2>1. UNCHANGED files
    BY <1>3, Zenon DEF OnReadyBot, Simulated, NobodyLeft, ChooseMission, Launch, TransferDone, Load, StartPlay,
                       EndPlay, LeaveDebriefing
  <2> QED BY <1>1, <2>1
<1>4. ASSUME NEW p \in Players, Join(p) \/ Leave(p) \/ ServerActs(p)
      PROVE  Stored'
  <2>1. UNCHANGED files
    BY <1>4, Zenon DEF Join, Leave, ServerActs, OnLogin, OnAskMissionFile, OnReady, OnReadyBriefing, OnClaim
  <2> QED BY <1>1, <2>1
<1>5. ASSUME NEW p \in Players, ClientMessage(p), ~ReceiveFile(p)
      PROVE  Stored'
  <2>1. UNCHANGED files
    BY <1>5, Zenon DEF ClientMessage, ReceiveState, ReceiveHeader, ReceiveRole, ReceivePlayer, ReceiveOther
  <2> QED BY <1>1, <2>1
<1>6. ASSUME NEW p \in Players, Displays(p) \/ Presses(p) \/ LeaveMission(p)
      PROVE  Stored'
  <2>1. UNCHANGED files
    BY <1>6 DEF Displays, Presses, EnterSetup, LeaveSetup, LeaveGetReady, LeaveDebriefingDisplay, LeaveWait,
                LeaveMission, ClickSlot, PressOK, PressLaunch, PressContinue, PressAgain, Frame
  <2> QED BY <1>1, <2>1
<1> QED BY <1>2, <1>3, <1>4, <1>5, <1>6, StepCases

LEMMA Askable ==
    ASSUME NEW p \in Players
    PROVE  /\ Login \in Asks(p)
           /\ \A v \in BOOLEAN : Ask(v) \in Asks(p)
           /\ \A s \in Phases \ {None} : Ready(s) \in Asks(p)
           /\ \A r \in Slots, w \in {AI, p} : Claim(r, w) \in Asks(p)
BY Sendable DEF Asks, Login, Ask, Ready, Claim

LEMMA AskingKept ==
    ASSUME Session, Around, Next
    PROVE  Asking'
<1>0. Asking /\ toServer \in [Players -> Seq(Requests)]
  BY Unfolded DEF Around
<1>1. ASSUME UNCHANGED toServer
      PROVE  Asking'
  BY <1>0, <1>1 DEF Asking, Asks
<1>2. ASSUME NEW p \in Players, NEW q \in Seq(Asks(p)), toServer' = [toServer EXCEPT ![p] = q]
      PROVE  Asking'
  BY <1>0, <1>2 DEF Asking, Asks
<1>3. ASSUME NEW p \in Players, NEW m \in Seq(Asks(p)), Answer(p, m)
      PROVE  Asking'
  <2>1. toServer[p] \o m \in Seq(Asks(p))
    BY <1>0 DEF Asking
  <2>2. toServer' = [toServer EXCEPT ![p] = toServer[p] \o m]
    BY <1>3 DEF Answer
  <2> QED BY <1>2, <2>1, <2>2
<1>4. CASE OnReadyBot \/ Simulated
  <2>1. ~(restart /\ reassign)
    BY DEF Around, Calm
  <2> QED BY <1>1, <1>4, <2>1 DEF OnReadyBot, Simulated, NobodyLeft, ChooseMission, Launch, TransferDone, Load, StartPlay,
              EndPlay, LeaveDebriefing
<1>5. ASSUME NEW p \in Players, Join(p) \/ Leave(p)
      PROVE  Asking'
  <2>1. <<>> \in Seq(Asks(p))
    OBVIOUS
  <2> QED BY <1>2, <1>5, <2>1 DEF Join, Leave
<1>6. ASSUME NEW p \in Players, ServerActs(p)
      PROVE  Asking'
  <2>1. \E t : Heard(p, t)
    BY <1>6 DEF ServerActs, OnLogin, OnAskMissionFile, OnReady, OnReadyBriefing, OnClaim
  <2>2. toServer[p] # <<>> /\ toServer' = [toServer EXCEPT ![p] = Tail(toServer[p])]
    BY <2>1 DEF Heard
  <2>3. Tail(toServer[p]) \in Seq(Asks(p))
    BY <1>0, <2>2 DEF Asking
  <2> QED BY <1>2, <2>2, <2>3
<1>7. ASSUME NEW p \in Players, ClientMessage(p)
      PROVE  Asking'
  <2>1. CASE ReceiveState(p) \/ ReceiveRole(p) \/ ReceiveOther(p)
    BY <1>1, <2>1 DEF ReceiveState, ReceiveRole, ReceiveOther
  <2>2. CASE ReceiveHeader(p)
    <3>1. PICK v : v = (Head(toClient[p]).mission \in files[p])
      OBVIOUS
    <3>2. v \in BOOLEAN
      BY <3>1
    <3>3. Ask(v) \in Asks(p)
      BY <3>2, Askable
    <3>4. <<Ask(v)>> \in Seq(Asks(p))
      BY <3>3
    <3>5. Answer(p, <<Ask(v)>>)
      BY <2>2, <3>1, Zenon DEF ReceiveHeader
    <3> QED BY <1>3, <3>4, <3>5
  <2>3. CASE ReceiveFile(p)
    <3>0. TRUE \in BOOLEAN /\ Briefing \in Phases \ {None}
      OBVIOUS
    <3>1. Ask(TRUE) \in Asks(p) /\ Ready(Briefing) \in Asks(p)
      BY <3>0, Askable, Zenon
    <3>2. <<Ask(TRUE)>> \o <<>> \in Seq(Asks(p)) /\ <<Ask(TRUE)>> \o <<Ready(Briefing)>> \in Seq(Asks(p))
      <4>1. \A x, y \in Asks(p) : <<x>> \o <<>> \in Seq(Asks(p)) /\ <<x>> \o <<y>> \in Seq(Asks(p))
        OBVIOUS
      <4> QED BY <3>1, <4>1, Zenon
    <3>3. \/ Answer(p, <<Ask(TRUE)>> \o <<Ready(Briefing)>>)
          \/ Answer(p, <<Ask(TRUE)>> \o <<>>)
      BY <2>3 DEF ReceiveFile, When
    <3> QED BY <1>3, <3>2, <3>3
  <2>4. CASE ReceivePlayer(p)
    <3>1. <<Login>> \in Seq(Asks(p))
      BY Askable
    <3> QED BY <1>3, <2>4, <3>1 DEF ReceivePlayer
  <2> QED BY <1>7, <2>1, <2>2, <2>3, <2>4 DEF ClientMessage
<1>8. ASSUME NEW p \in Players, Displays(p) \/ Presses(p) \/ LeaveMission(p)
      PROVE  Asking'
  <2>1. \A s \in Phases \ {None} : <<Ready(s)>> \in Seq(Asks(p))
    BY Askable
  <2>2. ASSUME NEW r \in Slots, ClickSlot(p, r)
        PROVE  Asking'
    <3>1. \/ Answer(p, <<Ready(PrepareSide), Claim(r, AI)>>)
          \/ Answer(p, <<Claim(r, p)>>)
      BY <2>2 DEF ClickSlot
    <3>2. Ready(PrepareSide) \in Asks(p) /\ Claim(r, AI) \in Asks(p) /\ Claim(r, p) \in Asks(p)
      BY Askable
    <3>3. <<Ready(PrepareSide), Claim(r, AI)>> \in Seq(Asks(p)) /\ <<Claim(r, p)>> \in Seq(Asks(p))
      BY <3>2
    <3> QED BY <1>3, <3>1, <3>3
  <2>3. CASE PressOK(p) \/ PressLaunch(p) \/ PressContinue(p) \/ PressAgain(p) \/ LeaveMission(p)
    <3>1. PICK s \in {PrepareOK, Play, DebriefingOK, Debriefing} : Answer(p, <<Ready(s)>>)
      BY <2>3 DEF PressOK, PressLaunch, PressContinue, PressAgain, LeaveMission
    <3>2. <<Ready(s)>> \in Seq(Asks(p))
      BY <2>1
    <3> QED BY <1>3, <3>1, <3>2
  <2>4. CASE Displays(p)
    <3>1. UNCHANGED toServer \/ \E s \in {Briefing, Play} : Answer(p, <<Ready(s)>>)
      BY <2>4 DEF Displays, EnterSetup, LeaveSetup, LeaveGetReady, LeaveDebriefingDisplay, LeaveWait
    <3>2. ASSUME NEW s \in {Briefing, Play}, Answer(p, <<Ready(s)>>)
          PROVE  Asking'
      <4>1. <<Ready(s)>> \in Seq(Asks(p))
        BY <2>1
      <4> QED BY <1>3, <3>2, <4>1
    <3> QED BY <1>1, <3>1, <3>2
  <2> QED BY <1>8, <2>2, <2>3, <2>4 DEF Presses
<1> QED BY <1>4, <1>5, <1>6, <1>7, <1>8, StepCases
=============================================================================
