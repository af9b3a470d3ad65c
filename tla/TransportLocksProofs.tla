------------------------ MODULE TransportLocksProofs ------------------------
(***************************************************************************)
(* Proofs about TransportLocks.                                            *)
(*                                                                         *)
(* What a thread still has to do is a sequence of instructions, and an      *)
(* instruction is replaced by others when its time comes.  The inductive    *)
(* invariant says that every such sequence can be walked through from the   *)
(* state the thread is in to one in which it has left everything behind:    *)
(* there are contexts, one before each instruction and one after the last,  *)
(* of which each follows from the one before by what the instruction does    *)
(* when it is carried out to its end, call-backs included.  A context is     *)
(*   lv  how many times the thread is inside of each lock;                  *)
(*   st  for each player, the sets of maps in which he may be found;        *)
(*   ph  how far the peer has been brought down (the game's thread);        *)
(*   sv  whether _server is set (the game's thread).                        *)
(***************************************************************************)
EXTENDS TransportLocks, SequenceTheorems, TLAPS

Facts  == {"user", "open", "route"}
Agreed == {Facts, {}}

Context == [lv : [Locks -> Nat], st : [Players -> SUBSET SUBSET Facts],
            ph : {"up", "stopping", "half", "ended", "down"}, sv : {"open", "shut"}]

Nowhere   == [l \in Locks |-> 0]
Calm      == [p \in Players |-> Agreed]
Up(a, l)  == [lv |-> [a.lv EXCEPT ![l] = @ + 1], st |-> a.st, ph |-> a.ph, sv |-> a.sv]
With(a, S)   == [lv |-> a.lv, st |-> S, ph |-> a.ph, sv |-> a.sv]

(* Without ~NetServer the maps change only with usrCs entered.             *)
NoStop == "shutdown" \notin Ops

Instrs ==
    {<<what, l>> : what \in {"in", "out"}, l \in Locks}
    \cup {<<what, p>> : what \in {"remove", "close", "cancel", "unroute", "register", "admit",
                                  "open", "put", "reconnect", "kick"}, p \in Players}
    \cup {<<what>> : what \in {"prepare", "kickAll", "sleep", "stop", "dispose", "serverPeer", "gone"}}
    \cup {<<"join", s>> : s \in {"sender", "listener"}}
    \cup {<<"each", what, S>> : what \in {"use", "close", "cancel"}, S \in SUBSET Players}

(* In what order the locks are entered, and where the exceptions are.      *)
Rank(l) == IF l = "rcv" THEN 0 ELSE IF l = "usr" THEN 1 ELSE IF l = "pool" THEN 2
           ELSE IF l = "peer" THEN 3 ELSE 4
Above(L, l) == \A h \in Locks : L[h] > 0 => Rank(h) < Rank(l)
MayEnter(t, L, l) ==
    \/ L[l] > 0
    \/ Above(L, l) /\ (l = "pool" /\ t # "main" => "create" \in Ops)
    \/ l \in {"usr", "pool"} /\ \E h \in {"peer"} \cup Players : L[h] > 0
    \/ t = "listener" /\ l = "peer" /\ \E h \in Players : L[h] > 0

NoneOf(L)     == \A p \in Players : L[p] = 0
Only(L, l)    == \A h \in Locks : h # l => L[h] = 0
OnlyOf(L, p)  == \A r \in Players : r # p => L[r] = 0
InAdmission   == [l \in Locks |-> IF l \in {"usr", "pool"} THEN 1 ELSE 0]

Orders(t, L, i) ==
    /\ i[1] = "in" => MayEnter(t, L, i[2])
    /\ i[1] = "out" => L[i[2]] > 0
    /\ i[1] \in {"remove", "close", "cancel"} => OnlyOf(L, i[2])
    /\ i[1] = "cancel" => L[i[2]] > 0
    /\ i[1] = "admit" => t = "listener" /\ "create" \in Ops /\ L = InAdmission
    /\ i[1] = "reconnect" => t = "listener" /\ NoneOf(L) /\ L["peer"] = 0
    /\ i[1] = "prepare" => Only(L, "peer") /\ L["peer"] > 0
    /\ i[1] \in {"kick", "kickAll", "each", "stop", "serverPeer"} => NoneOf(L)
    /\ i[1] = "serverPeer" => L["peer"] = 0
    /\ i[1] \in {"join", "gone"} => "shutdown" \in Ops /\ Only(L, "pool")
    /\ i[1] \in {"join", "gone", "stop", "serverPeer", "dispose"} => t = "main"

Levels(L, i, M) ==
    /\ i[1] = "in" => M = [L EXCEPT ![i[2]] = @ + 1]
    /\ i[1] = "out" => M = [L EXCEPT ![i[2]] = @ - 1]
    /\ i[1] = "admit" => M = Nowhere
    /\ i[1] \notin {"in", "out", "admit"} => M = L

(* What becomes of the maps a player is in.                                *)
Removed(s)  == IF "user" \in s THEN {} ELSE s
Closed(s)   == IF "open" \in s THEN {} ELSE s
Fates(what, s) ==
    CASE what = "remove"   -> {Removed(s)}
      [] what = "cancel"   -> {s, Removed(s)}
      [] what = "close"    -> {Closed(s)}
      [] what = "unroute"  -> {s \ {"route"}}
      [] what = "register" -> {s \cup {"route"}}
      [] what = "open"     -> {s \cup {"open"}}
      [] what = "put"      -> {s \cup {"user"}}
      [] OTHER             -> {s}

Room(L, p) == L[p] <= 3 /\ L["pool"] <= 3 /\ L["usr"] <= 3
Rest(a)    == a.lv["usr"] = 0 => a.st = Calm
MapSteps   == {"remove", "close", "cancel", "unroute", "register", "open", "put"}

Maps(a, i, b) ==
    /\ Rest(a) /\ Rest(b)
    /\ i[1] = "in" => a.lv[i[2]] <= 3
    /\ i = Out("usr") /\ a.lv["usr"] = 1 => \A p \in Players : a.st[p] \subseteq Agreed
    /\ i[1] \in MapSteps \cup {"admit", "reconnect"} => i[1] = "cancel" \/ a.lv["usr"] > 0
    /\ i[1] \in {"remove", "cancel"} =>
          \A s \in a.st[i[2]] : "user" \in s => s = Facts
    /\ i[1] = "remove" => \A s \in a.st[i[2]] : "user" \in s => Room(a.lv, i[2])
    /\ i[1] = "close" =>
          \A s \in a.st[i[2]] : "user" \notin s /\ ("open" \in s => Room(a.lv, i[2]))
    /\ i[1] = "cancel" =>
          /\ a.lv["pool"] <= 3 /\ a.lv["usr"] <= 3
          /\ \A s \in a.st[i[2]] :
                "user" \in s => a.lv[i[2]] <= 3 /\ a.lv["pool"] <= 2 /\ a.lv["usr"] <= 2
    /\ i[1] = "each" => i[2] # "close" /\ a.lv["usr"] <= 2 /\ a.lv["pool"] <= 2
                        /\ (i[2] = "cancel" => a.lv["usr"] = 0)
    /\ i[1] = "serverPeer" => a.lv["usr"] = 0 /\ a.lv["pool"] <= 2
    /\ i[1] \in {"admit", "reconnect"} => \A p \in Players : a.st[p] \subseteq Agreed
    /\ i[1] \notin {"kickAll", "stop", "gone"}
    /\ i[1] \in MapSteps =>
          /\ \A s \in a.st[i[2]] : Fates(i[1], s) \subseteq b.st[i[2]]
          /\ \A r \in Players : r # i[2] => a.st[r] \subseteq b.st[r]
    /\ i[1] \notin MapSteps \cup {"out"} => \A p \in Players : a.st[p] \subseteq b.st[p]
    /\ i[1] = "out" /\ i # Out("usr") => \A p \in Players : a.st[p] \subseteq b.st[p]
    /\ i = Out("usr") /\ a.lv["usr"] # 1 => \A p \in Players : a.st[p] \subseteq b.st[p]

Life(a, i, b) ==
    /\ i[1] = "stop" => a.ph = "up" /\ b.ph = "stopping"
    /\ i = To("join", "sender") => a.ph = "stopping" /\ b.ph = "half"
    /\ i = To("join", "listener") => a.ph = "half" /\ b.ph = "ended"
    /\ i[1] = "dispose" => a.ph = "ended" /\ b.ph \in {"ended", "down"}
    /\ i[1] = "serverPeer" => a.ph \in {"up", "down"} /\ b.ph = "up"
    /\ i[1] = "gone" => /\ a.ph = "up" /\ a.sv = "open" /\ b.sv = "shut"
                        /\ b.ph = IF PoolShared THEN "up" ELSE "ended"
    /\ i[1] \notin {"stop", "join", "dispose", "serverPeer", "gone"} => b.ph = a.ph
    /\ i[1] # "gone" => b.sv = a.sv

Does(t, a, i, b) ==
    /\ i \in Instrs
    /\ Levels(a.lv, i, b.lv)
    /\ Orders(t, a.lv, i)
    /\ NoStop => Maps(a, i, b)
    /\ Life(a, i, b)

Walk(t, q, a, b) ==
    /\ q \in Seq(Instrs)
    /\ \E f \in [0 .. Len(q) -> Context] :
          /\ f[0] = a /\ f[Len(q)] = b
          /\ \A k \in 1 .. Len(q) : Does(t, f[k - 1], q[k], f[k])

Done(a) == /\ a.lv = Nowhere /\ a.st = Calm
           /\ a.sv = "open" => a.ph = "up"
           /\ a.sv = "shut" => PoolShared \/ a.ph = "ended"

(* The state, as a thread sees it.                                         *)
Inside(t) == [l \in Locks |-> IF owner[l] = t THEN depth[l] ELSE 0]
StatusOf(p) == {x \in Facts : \/ x = "user" /\ p \in users
                              \/ x = "open" /\ p \in opened
                              \/ x = "route" /\ p \in routed}
Means(ph) ==
    /\ ph = "up" => peer
    /\ ph = "stopping" => wanted = {}
    /\ ph = "half" => wanted = {} /\ "sender" \notin running
    /\ ph = "ended" => wanted = {} /\ running = {}
    /\ ph = "down" => ~peer /\ wanted = {} /\ running = {}

At(t, a) ==
    /\ a \in Context /\ a.lv = Inside(t)
    /\ NoStop => /\ Rest(a)
                 /\ owner["usr"] = t => \A p \in Players : StatusOf(p) \in a.st[p]
    /\ t = "main" => Means(a.ph) /\ (a.sv = "open" <=> server)
    /\ t # "main" => a.ph = "up" /\ a.sv = "open"

Ready(t) == \E a, b \in Context : At(t, a) /\ Walk(t, todo[t], a, b) /\ Done(b)

Types ==
    /\ owner \in [Locks -> Threads \cup {Nobody}]
    /\ depth \in [Locks -> Nat]
    /\ \A l \in Locks : owner[l] = Nobody <=> depth[l] = 0
    /\ todo \in [Threads -> Seq(Instrs)]
    /\ users \subseteq Players /\ opened \subseteq Players
    /\ routed \subseteq Players /\ kicks \subseteq Players
    /\ wanted \subseteq {"listener", "sender"} /\ running \subseteq {"listener", "sender"}
    /\ peer \in BOOLEAN /\ server \in BOOLEAN
    /\ NoStop => server

(* The inductive invariant.                                                *)
Invariant ==
    /\ Types
    /\ \A t \in Threads : Ready(t)
    /\ NoStop => (owner["usr"] = Nobody => \A p \in Players : StatusOf(p) \in Agreed)
    /\ NoStop => \A l \in Locks : depth[l] <= 4

-----------------------------------------------------------------------------
(* Walks.                                                                  *)

(* Sequences put together.                                                *)
LEMMA Two ==
    ASSUME NEW x, NEW y
    PROVE  <<x>> \o <<y>> = <<x, y>>
<1> DEFINE S == {x, y}
<1>1. PICK q : q = <<x>> \o <<y>>
  OBVIOUS
<1>2. PICK r : r = <<x, y>>
  OBVIOUS
<1>3. q \in Seq(S) /\ Len(q) = 2 /\ q[1] = x /\ q[2] = y
  BY <1>1
<1>4. r \in Seq(S) /\ Len(r) = 2 /\ r[1] = x /\ r[2] = y
  BY <1>2
<1>5. \A k \in 1 .. 2 : q[k] = r[k]
  BY <1>3, <1>4
<1> HIDE DEF S
<1>6. q = r
  BY <1>3, <1>4, <1>5, SeqEqual
<1> QED
  BY <1>1, <1>2, <1>6

(* And three.                                                              *)
LEMMA Three ==
    ASSUME NEW x, NEW y, NEW z
    PROVE  (<<x>> \o <<y>>) \o <<z>> = <<x, y, z>>
<1> DEFINE S == {x, y, z}
<1>1. PICK q : q = <<x, y>> \o <<z>>
  OBVIOUS
<1>2. PICK r : r = <<x, y, z>>
  OBVIOUS
<1>3. q \in Seq(S) /\ Len(q) = 3 /\ q[1] = x /\ q[2] = y /\ q[3] = z
  BY <1>1
<1>4. r \in Seq(S) /\ Len(r) = 3 /\ r[1] = x /\ r[2] = y /\ r[3] = z
  BY <1>2
<1>5. \A k \in 1 .. 3 : q[k] = r[k]
  BY <1>3, <1>4
<1> HIDE DEF S
<1>6. q = r
  BY <1>3, <1>4, <1>5, SeqEqual
<1> QED
  BY <1>1, <1>2, <1>6, Two

(* There is nothing to walk through in an empty sequence.                  *)
LEMMA WalkNothing ==
    ASSUME NEW t, NEW a \in Context
    PROVE  Walk(t, <<>>, a, a)
<1> DEFINE f == [k \in 0 .. 0 |-> a]
<1>1. Len(<<>>) = 0 /\ <<>> \in Seq(Instrs)
  OBVIOUS
<1>2. f \in [0 .. Len(<<>>) -> Context] /\ f[0] = a /\ f[Len(<<>>)] = a
  BY <1>1
<1>3. 1 .. Len(<<>>) = {}
  BY <1>1
<1> QED
  BY <1>1, <1>2, <1>3 DEF Walk

(* A walk through nothing goes nowhere.                                    *)
LEMMA WalkEnds ==
    ASSUME NEW t, NEW a, NEW b, Walk(t, <<>>, a, b)
    PROVE  a = b
<1>1. Len(<<>>) = 0
  OBVIOUS
<1> QED
  BY <1>1 DEF Walk

(* One instruction.                                                        *)
LEMMA WalkOne ==
    ASSUME NEW t, NEW i, NEW a \in Context, NEW b \in Context, Does(t, a, i, b)
    PROVE  Walk(t, <<i>>, a, b)
<1> DEFINE f == [k \in 0 .. 1 |-> IF k = 0 THEN a ELSE b]
<1>1. i \in Instrs
  BY DEF Does
<1>2. <<i>> \in Seq(Instrs) /\ Len(<<i>>) = 1 /\ <<i>>[1] = i
  BY <1>1
<1>3. f \in [0 .. 1 -> Context] /\ f[0] = a /\ f[1] = b
  OBVIOUS
<1>4. \A k \in 1 .. 1 : k = 1 /\ k - 1 = 0
  OBVIOUS
<1>5. \A k \in 1 .. 1 : Does(t, f[k - 1], <<i>>[k], f[k])
  BY <1>2, <1>3, <1>4
<1> HIDE DEF f
<1> QED
  BY <1>2, <1>3, <1>5 DEF Walk

(* One sequence after another.                                             *)
LEMMA WalkOn ==
    ASSUME NEW t, NEW q, NEW r, NEW a, NEW b, NEW m, Walk(t, q, a, m), Walk(t, r, m, b)
    PROVE  Walk(t, q \o r, a, b)
<1>1. PICK f \in [0 .. Len(q) -> Context] :
          /\ f[0] = a /\ f[Len(q)] = m
          /\ \A k \in 1 .. Len(q) : Does(t, f[k - 1], q[k], f[k])
  BY DEF Walk
<1>2. PICK g \in [0 .. Len(r) -> Context] :
          /\ g[0] = m /\ g[Len(r)] = b
          /\ \A k \in 1 .. Len(r) : Does(t, g[k - 1], r[k], g[k])
  BY DEF Walk
<1>3. q \in Seq(Instrs) /\ r \in Seq(Instrs)
  BY DEF Walk
<1>4. PICK s : s = q \o r
  OBVIOUS
<1>5. PICK n : n = Len(q)
  OBVIOUS
<1>6. PICK w : w = Len(r)
  OBVIOUS
<1>7. n \in Nat /\ w \in Nat
  BY <1>3, <1>5, <1>6
<1>8. s \in Seq(Instrs) /\ Len(s) = n + w
  BY <1>3, <1>4, <1>5, <1>6
<1>9. \A k \in 1 .. n + w : s[k] = IF k <= n THEN q[k] ELSE r[k - n]
  BY <1>3, <1>4, <1>5, <1>6
<1> DEFINE h == [k \in 0 .. n + w |-> IF k <= n THEN f[k] ELSE g[k - n]]
<1>10. h \in [0 .. n + w -> Context]
  <2> SUFFICES ASSUME NEW k \in 0 .. n + w PROVE (IF k <= n THEN f[k] ELSE g[k - n]) \in Context
    OBVIOUS
  <2>1. CASE k <= n
    BY <2>1, <1>5, <1>7
  <2>2. CASE ~(k <= n)
    BY <2>2, <1>6, <1>7
  <2> QED
    BY <2>1, <2>2
<1>11. \A k \in 0 .. n : h[k] = f[k]
  BY <1>7
<1>12. \A k \in 0 .. w : h[n + k] = g[k]
  <2> SUFFICES ASSUME NEW k \in 0 .. w PROVE h[n + k] = g[k]
    OBVIOUS
  <2>1. CASE k = 0
    BY <2>1, <1>1, <1>2, <1>5, <1>7
  <2>2. CASE k > 0
    <3>1. n + k \in 0 .. n + w /\ ~(n + k <= n) /\ (n + k) - n = k
      BY <2>2, <1>7
    <3> QED
      BY <3>1
  <2> QED
    BY <2>1, <2>2
<1>13. h[0] = a /\ h[n + w] = b
  <2>1. 0 \in 0 .. n /\ w \in 0 .. w
    BY <1>7
  <2> QED
    BY <2>1, <1>11, <1>12, <1>1, <1>2, <1>6
<1> HIDE DEF h
<1>14. ASSUME NEW k \in 1 .. n + w
       PROVE  Does(t, h[k - 1], s[k], h[k])
  <2>1. CASE k <= n
    <3>1. k \in 1 .. n /\ k \in 0 .. n /\ k - 1 \in 0 .. n
      BY <2>1, <1>7
    <3>2. Does(t, f[k - 1], q[k], f[k])
      BY <3>1, <1>1, <1>5
    <3>3. s[k] = q[k] /\ h[k] = f[k] /\ h[k - 1] = f[k - 1]
      BY <3>1, <1>9, <1>11, <2>1
    <3> QED
      BY <3>2, <3>3
  <2>2. CASE ~(k <= n)
    <3>1. PICK j : j = k - n
      OBVIOUS
    <3>2. /\ j \in 1 .. w /\ j \in 0 .. w /\ j - 1 \in 0 .. w
          /\ k = n + j /\ k - 1 = n + (j - 1)
      BY <3>1, <2>2, <1>7
    <3>3. Does(t, g[j - 1], r[j], g[j])
      BY <3>2, <1>2, <1>6
    <3>4. s[k] = r[j]
      BY <3>1, <1>9, <2>2
    <3>5. h[k] = g[j] /\ h[k - 1] = g[j - 1]
      BY <3>2, <1>12
    <3> QED
      BY <3>3, <3>4, <3>5
  <2> QED
    BY <2>1, <2>2
<1>15. Walk(t, s, a, b)
  BY <1>8, <1>10, <1>13, <1>14 DEF Walk
<1> QED
  BY <1>15, <1>4

(* The first instruction, and what is left after it.                       *)
LEMMA WalkFirst ==
    ASSUME NEW t, NEW q, NEW a, NEW b, Walk(t, q, a, b), q # <<>>
    PROVE  \E m \in Context : Does(t, a, Head(q), m) /\ Walk(t, Tail(q), m, b)
<1>1. PICK f \in [0 .. Len(q) -> Context] :
          /\ f[0] = a /\ f[Len(q)] = b
          /\ \A k \in 1 .. Len(q) : Does(t, f[k - 1], q[k], f[k])
  BY DEF Walk
<1>2. q \in Seq(Instrs)
  BY DEF Walk
<1>3. PICK n : n = Len(q)
  OBVIOUS
<1>4. n \in Nat /\ n >= 1
  BY <1>2, <1>3
<1>5. PICK s : s = Tail(q)
  OBVIOUS
<1>6. s \in Seq(Instrs) /\ Len(s) = n - 1
  BY <1>2, <1>3, <1>4, <1>5
<1>7. \A k \in 1 .. n - 1 : s[k] = q[k + 1]
  BY <1>2, <1>3, <1>4, <1>5
<1>8. Head(q) = q[1]
  BY <1>2
<1> DEFINE g == [k \in 0 .. n - 1 |-> f[k + 1]]
<1>9. \A k \in 0 .. n - 1 : k + 1 \in 0 .. n
  BY <1>4
<1>10. g \in [0 .. n - 1 -> Context]
  BY <1>9, <1>3
<1>11. g[0] = f[1] /\ g[n - 1] = b
  <2>1. 0 \in 0 .. n - 1 /\ 0 + 1 = 1 /\ n - 1 \in 0 .. n - 1 /\ n - 1 + 1 = n
    BY <1>4
  <2> QED
    BY <2>1, <1>1, <1>3
<1>12. \A k \in 0 .. n - 1 : g[k] = f[k + 1]
  OBVIOUS
<1> HIDE DEF g
<1>13. ASSUME NEW k \in 1 .. n - 1 PROVE Does(t, g[k - 1], s[k], g[k])
  <2>1. PICK j : j = k + 1
    OBVIOUS
  <2>2. /\ j \in 1 .. n /\ k \in 0 .. n - 1 /\ k - 1 \in 0 .. n - 1
        /\ j - 1 = k /\ k - 1 + 1 = k
    BY <2>1, <1>4
  <2>3. Does(t, f[j - 1], q[j], f[j])
    BY <2>2, <1>1, <1>3
  <2>4. g[k] = f[j] /\ g[k - 1] = f[j - 1] /\ s[k] = q[j]
    BY <2>1, <2>2, <1>7, <1>12
  <2> QED
    BY <2>3, <2>4
<1>14. Walk(t, s, f[1], b)
  BY <1>6, <1>10, <1>11, <1>13 DEF Walk
<1>15. Does(t, a, Head(q), f[1]) /\ f[1] \in Context
  <2>1. 1 \in 1 .. n /\ 1 - 1 = 0 /\ 1 \in 0 .. n
    BY <1>4
  <2> QED
    BY <2>1, <1>1, <1>3, <1>8
<1> QED
  BY <1>14, <1>15, <1>5

-----------------------------------------------------------------------------
(* Single instructions.                                                    *)

LEMMA SameCode ==
    /\ \A l : In(l) = <<"in", l>> /\ Out(l) = <<"out", l>>
    /\ \A w : Do(w) = <<w>>
    /\ \A w, x : To(w, x) = <<w, x>>
    /\ \A w, S : Each(w, S) = <<"each", w, S>>
BY DEF In, Out, Do, To, Each

(* The parts of a context, and contexts made from others.                  *)
LEMMA Contexts ==
    ASSUME NEW a \in Context
    PROVE  /\ a.lv \in [Locks -> Nat] /\ a.st \in [Players -> SUBSET SUBSET Facts]
           /\ \A l \in Locks : Up(a, l) \in Context
           /\ \A S \in [Players -> SUBSET SUBSET Facts] : With(a, S) \in Context
           /\ \A p \in Players : p \in Locks
<1>1. a.lv \in [Locks -> Nat] /\ a.st \in [Players -> SUBSET SUBSET Facts]
  BY DEF Context
<1>2. ASSUME NEW l \in Locks PROVE Up(a, l) \in Context
  <2>1. [a.lv EXCEPT ![l] = @ + 1] \in [Locks -> Nat]
    BY <1>1
  <2> QED
    BY <2>1 DEF Context, Up
<1>3. \A S \in [Players -> SUBSET SUBSET Facts] : With(a, S) \in Context
  BY DEF Context, With
<1> QED
  BY <1>1, <1>2, <1>3 DEF Locks

(* An enter() that the order of the locks allows.                          *)
LEMMA EnterDoes ==
    ASSUME NEW t \in Threads, NEW a \in Context, NEW l \in Locks, MayEnter(t, a.lv, l),
           NoStop => Rest(a) /\ a.lv[l] <= 3
    PROVE  Does(t, a, In(l), Up(a, l)) /\ (NoStop => Rest(Up(a, l)))
<1>1. a.lv \in [Locks -> Nat] /\ "usr" \in Locks
  BY Contexts DEF Locks
<1>2. In(l) = <<"in", l>> /\ In(l) \in Instrs
  BY DEF In, Instrs
<1>3. Levels(a.lv, In(l), Up(a, l).lv)
  BY <1>2 DEF Levels, Up
<1>4. Orders(t, a.lv, In(l))
  BY <1>2 DEF Orders
<1>5. Life(a, In(l), Up(a, l))
  BY <1>2 DEF Life, Up, To
<1>6. NoStop => Rest(Up(a, l))
  <2>1. Up(a, l).st = a.st
    BY DEF Up
  <2>2. CASE l = "usr"
    <3>1. Up(a, l).lv["usr"] = a.lv["usr"] + 1 /\ a.lv["usr"] \in Nat
      BY <1>1, <2>2 DEF Up
    <3>2. Up(a, l).lv["usr"] # 0
      BY <3>1
    <3> QED
      BY <3>2 DEF Rest
  <2>3. CASE l # "usr"
    <3>1. Up(a, l).lv["usr"] = a.lv["usr"]
      BY <1>1, <2>3 DEF Up
    <3> QED
      BY <3>1, <2>1 DEF Rest
  <2> QED
    BY <2>2, <2>3
<1>7. ASSUME NoStop PROVE Maps(a, In(l), Up(a, l))
  <2>1. Rest(a) /\ Rest(Up(a, l)) /\ a.lv[l] <= 3
    BY <1>6, <1>7
  <2>2. Up(a, l).st = a.st
    BY DEF Up
  <2>3. In(l) # Out("usr")
    BY <1>2 DEF Out
  <2> QED
    BY <1>2, <2>1, <2>2, <2>3 DEF Maps, MapSteps
<1> QED
  BY <1>2, <1>3, <1>4, <1>5, <1>6, <1>7 DEF Does

(* A leave(), which is the inverse of an enter().                          *)
LEMMA LeaveDoes ==
    ASSUME NEW t \in Threads, NEW a \in Context, NEW b \in Context, NEW l \in Locks,
           a.lv = [b.lv EXCEPT ![l] = @ + 1], a.ph = b.ph, a.sv = b.sv,
           NoStop => /\ Rest(a) /\ Rest(b)
                     /\ l = "usr" /\ b.lv["usr"] = 0 => \A r \in Players : a.st[r] \subseteq Agreed
                     /\ ~(l = "usr" /\ b.lv["usr"] = 0) => \A r \in Players : a.st[r] \subseteq b.st[r]
    PROVE  Does(t, a, Out(l), b)
<1>1. b.lv \in [Locks -> Nat] /\ "usr" \in Locks
  BY Contexts DEF Locks
<1>2. Out(l) = <<"out", l>> /\ Out(l) \in Instrs
  BY DEF Out, Instrs
<1>3. a.lv[l] = b.lv[l] + 1 /\ b.lv[l] \in Nat
  BY <1>1
<1>4. a.lv[l] > 0 /\ a.lv[l] - 1 = b.lv[l]
  BY <1>3
<1>5. Levels(a.lv, Out(l), b.lv)
  <2>1. b.lv = [a.lv EXCEPT ![l] = @ - 1]
    BY <1>1, <1>4
  <2> QED
    BY <1>2, <2>1 DEF Levels
<1>6. Orders(t, a.lv, Out(l))
  BY <1>2, <1>4 DEF Orders
<1>7. Life(a, Out(l), b)
  BY <1>2 DEF Life, To
<1>8. ASSUME NoStop PROVE Maps(a, Out(l), b)
  <2>1. Rest(a) /\ Rest(b)
    BY <1>8
  <2>2. Out(l) = Out("usr") <=> l = "usr"
    BY DEF Out
  <2>3. CASE l = "usr" /\ b.lv["usr"] = 0
    <3>1. a.lv["usr"] = 1 /\ \A r \in Players : a.st[r] \subseteq Agreed
      BY <2>3, <1>3, <1>8
    <3> QED
      BY <1>2, <2>1, <2>2, <2>3, <3>1 DEF Maps, MapSteps
  <2>4. CASE ~(l = "usr" /\ b.lv["usr"] = 0)
    <3>1. \A r \in Players : a.st[r] \subseteq b.st[r]
      BY <2>4, <1>8
    <3>2. l = "usr" => a.lv["usr"] # 1
      BY <2>4, <1>3
    <3> QED
      BY <1>2, <2>1, <2>2, <3>1, <3>2 DEF Maps, MapSteps
  <2> QED
    BY <2>3, <2>4
<1> QED
  BY <1>2, <1>5, <1>6, <1>7, <1>8 DEF Does

(* A section around a walk.                                                *)
LEMMA WithinWalk ==
    ASSUME NEW t \in Threads, NEW a \in Context, NEW b \in Context, NEW l \in Locks,
           NEW body, NEW c \in Context, MayEnter(t, a.lv, l),
           Walk(t, body, Up(a, l), c),
           a.lv = b.lv, c.lv = Up(a, l).lv, c.ph = b.ph, c.sv = b.sv,
           NoStop => /\ Rest(a) /\ Rest(b) /\ Rest(c) /\ a.lv[l] <= 3
                     /\ l = "usr" /\ b.lv["usr"] = 0 => \A r \in Players : c.st[r] \subseteq Agreed
                     /\ ~(l = "usr" /\ b.lv["usr"] = 0) => \A r \in Players : c.st[r] \subseteq b.st[r]
    PROVE  Walk(t, Within(l, body), a, b)
<1>1. Up(a, l) \in Context
  BY Contexts
<1>2. Walk(t, <<In(l)>>, a, Up(a, l))
  BY <1>1, EnterDoes, WalkOne
<1>3. c.lv = [b.lv EXCEPT ![l] = @ + 1]
  BY DEF Up
<1>4. Walk(t, <<Out(l)>>, c, b)
  BY <1>3, LeaveDoes, WalkOne
<1>5. Walk(t, <<In(l)>> \o body, a, c)
  BY <1>2, WalkOn
<1>6. Walk(t, (<<In(l)>> \o body) \o <<Out(l)>>, a, b)
  BY <1>4, <1>5, WalkOn
<1> QED
  BY <1>6 DEF Within

(* A section entered and left at once.                                     *)
LEMMA UseWalk ==
    ASSUME NEW t \in Threads, NEW a \in Context, NEW l \in Locks, MayEnter(t, a.lv, l),
           NoStop => Rest(a) /\ a.lv[l] <= 3
    PROVE  Walk(t, Use(l), a, a)
<1> DEFINE c == Up(a, l)
<1>1. c \in Context /\ c.lv = Up(a, l).lv /\ c.ph = a.ph /\ c.sv = a.sv /\ c.st = a.st
  BY Contexts DEF Up
<1>2. Walk(t, <<>>, Up(a, l), c)
  BY <1>1, WalkNothing
<1>3. NoStop => Rest(c)
  BY EnterDoes
<1>4. NoStop /\ a.lv["usr"] = 0 => \A r \in Players : c.st[r] \subseteq Agreed
  BY <1>1 DEF Rest, Calm
<1>5. \A r \in Players : c.st[r] \subseteq a.st[r]
  BY <1>1
<1> HIDE DEF c
<1>6. Walk(t, Within(l, <<>>), a, a)
  BY <1>1, <1>2, <1>3, <1>4, <1>5, WithinWalk
<1> QED
  BY <1>6 DEF Use

(* The maps of one player.                                                 *)
LEMMA PlainDoes ==
    ASSUME NEW t \in Threads, NEW a \in Context, NEW b \in Context, NEW p \in Players,
           NEW what \in {"unroute", "register", "open", "put"},
           a.lv = b.lv, a.ph = b.ph, a.sv = b.sv,
           NoStop => /\ a.lv["usr"] > 0
                     /\ \A s \in a.st[p] : Fates(what, s) \subseteq b.st[p]
                     /\ \A r \in Players : r # p => a.st[r] \subseteq b.st[r]
    PROVE  Does(t, a, To(what, p), b)
<1>1. a.lv \in [Locks -> Nat] /\ "usr" \in Locks
  BY Contexts DEF Locks
<1>2. To(what, p) = <<what, p>> /\ To(what, p) \in Instrs
  BY DEF To, Instrs
<1>3. Levels(a.lv, To(what, p), b.lv)
  BY <1>2 DEF Levels
<1>4. Orders(t, a.lv, To(what, p))
  BY <1>2 DEF Orders
<1>5. Life(a, To(what, p), b)
  BY <1>2 DEF Life, To
<1>6. ASSUME NoStop PROVE Maps(a, To(what, p), b)
  <2>1. a.lv["usr"] > 0 /\ Rest(a) /\ Rest(b)
    BY <1>6, <1>1 DEF Rest
  <2>2. To(what, p) # Out("usr")
    BY <1>2 DEF Out
  <2> QED
    BY <1>2, <2>1, <2>2, <1>6 DEF Maps, MapSteps
<1> QED
  BY <1>2, <1>3, <1>4, <1>5, <1>6 DEF Does

(* finishDestroyPlayer takes a number from the user map.                   *)
LEMMA RemoveDoes ==
    ASSUME NEW t \in Threads, NEW a \in Context, NEW b \in Context, NEW p \in Players,
           a.lv = b.lv, a.ph = b.ph, a.sv = b.sv, OnlyOf(a.lv, p),
           NoStop => /\ a.lv["usr"] > 0
                     /\ \A s \in a.st[p] : "user" \in s => s = Facts /\ Room(a.lv, p)
                     /\ \A s \in a.st[p] : Removed(s) \in b.st[p]
                     /\ \A r \in Players : r # p => a.st[r] \subseteq b.st[r]
    PROVE  Does(t, a, To("remove", p), b)
<1>1. a.lv \in [Locks -> Nat] /\ "usr" \in Locks
  BY Contexts DEF Locks
<1>2. To("remove", p) = <<"remove", p>> /\ To("remove", p) \in Instrs
  BY DEF To, Instrs
<1>3. Levels(a.lv, To("remove", p), b.lv)
  BY <1>2 DEF Levels
<1>4. Orders(t, a.lv, To("remove", p))
  BY <1>2 DEF Orders
<1>5. Life(a, To("remove", p), b)
  BY <1>2 DEF Life, To
<1>6. ASSUME NoStop PROVE Maps(a, To("remove", p), b)
  <2>1. a.lv["usr"] > 0 /\ Rest(a) /\ Rest(b)
    BY <1>6, <1>1 DEF Rest
  <2>2. To("remove", p) # Out("usr")
    BY <1>2 DEF Out
  <2>3. \A s \in a.st[p] : Fates("remove", s) \subseteq b.st[p]
    BY <1>6 DEF Fates
  <2> QED
    BY <1>2, <2>1, <2>2, <2>3, <1>6 DEF Maps, MapSteps
<1> QED
  BY <1>2, <1>3, <1>4, <1>5, <1>6 DEF Does

(* NetChannelBasic::close, of a channel whose player is no longer in the user map.*)
LEMMA CloseDoes ==
    ASSUME NEW t \in Threads, NEW a \in Context, NEW b \in Context, NEW p \in Players,
           a.lv = b.lv, a.ph = b.ph, a.sv = b.sv, OnlyOf(a.lv, p),
           NoStop => /\ a.lv["usr"] > 0
                     /\ \A s \in a.st[p] : "user" \notin s /\ ("open" \in s => Room(a.lv, p))
                     /\ \A s \in a.st[p] : Closed(s) \in b.st[p]
                     /\ \A r \in Players : r # p => a.st[r] \subseteq b.st[r]
    PROVE  Does(t, a, To("close", p), b)
<1>1. a.lv \in [Locks -> Nat] /\ "usr" \in Locks
  BY Contexts DEF Locks
<1>2. To("close", p) = <<"close", p>> /\ To("close", p) \in Instrs
  BY DEF To, Instrs
<1>3. Levels(a.lv, To("close", p), b.lv)
  BY <1>2 DEF Levels
<1>4. Orders(t, a.lv, To("close", p))
  BY <1>2 DEF Orders
<1>5. Life(a, To("close", p), b)
  BY <1>2 DEF Life, To
<1>6. ASSUME NoStop PROVE Maps(a, To("close", p), b)
  <2>1. a.lv["usr"] > 0 /\ Rest(a) /\ Rest(b)
    BY <1>6, <1>1 DEF Rest
  <2>2. To("close", p) # Out("usr")
    BY <1>2 DEF Out
  <2>3. \A s \in a.st[p] : Fates("close", s) \subseteq b.st[p]
    BY <1>6 DEF Fates
  <2> QED
    BY <1>2, <2>1, <2>2, <2>3, <1>6 DEF Maps, MapSteps
<1> QED
  BY <1>2, <1>3, <1>4, <1>5, <1>6 DEF Does

(* cancelAllMessages, whose call-back may destroy the player.              *)
LEMMA CancelDoes ==
    ASSUME NEW t \in Threads, NEW a \in Context, NEW b \in Context, NEW p \in Players,
           a.lv = b.lv, a.ph = b.ph, a.sv = b.sv, OnlyOf(a.lv, p), a.lv[p] > 0,
           NoStop => /\ Rest(a) /\ Rest(b) /\ a.lv["pool"] <= 3 /\ a.lv["usr"] <= 3
                     /\ \A s \in a.st[p] : "user" \in s =>
                           s = Facts /\ a.lv[p] <= 3 /\ a.lv["pool"] <= 2 /\ a.lv["usr"] <= 2
                     /\ \A s \in a.st[p] : s \in b.st[p] /\ Removed(s) \in b.st[p]
                     /\ \A r \in Players : r # p => a.st[r] \subseteq b.st[r]
    PROVE  Does(t, a, To("cancel", p), b)
<1>1. a.lv \in [Locks -> Nat] /\ "usr" \in Locks
  BY Contexts DEF Locks
<1>2. To("cancel", p) = <<"cancel", p>> /\ To("cancel", p) \in Instrs
  BY DEF To, Instrs
<1>3. Levels(a.lv, To("cancel", p), b.lv)
  BY <1>2 DEF Levels
<1>4. Orders(t, a.lv, To("cancel", p))
  BY <1>2 DEF Orders
<1>5. Life(a, To("cancel", p), b)
  BY <1>2 DEF Life, To
<1>6. ASSUME NoStop PROVE Maps(a, To("cancel", p), b)
  <2>2. To("cancel", p) # Out("usr")
    BY <1>2 DEF Out
  <2>3. \A s \in a.st[p] : Fates("cancel", s) \subseteq b.st[p]
    BY <1>6 DEF Fates
  <2> QED
    BY <1>2, <2>2, <2>3, <1>6 DEF Maps, MapSteps
<1> QED
  BY <1>2, <1>3, <1>4, <1>5, <1>6 DEF Does

(* Instructions that leave the levels and the maps alone.                  *)
LEMMA QuietDoes ==
    ASSUME NEW t \in Threads, NEW a \in Context, NEW b \in Context, NEW i \in Instrs,
           i[1] \in {"kick", "each", "kickAll", "prepare", "sleep", "reconnect",
                     "stop", "join", "dispose", "serverPeer", "gone"},
           a.lv = b.lv, a.st = b.st, Orders(t, a.lv, i), Life(a, i, b),
           NoStop =>
             /\ Rest(a)
             /\ i[1] = "each" => i[2] # "close" /\ a.lv["usr"] <= 2 /\ a.lv["pool"] <= 2
                                 /\ (i[2] = "cancel" => a.lv["usr"] = 0)
             /\ i[1] = "serverPeer" => a.lv["usr"] = 0 /\ a.lv["pool"] <= 2
             /\ i[1] = "reconnect" => a.lv["usr"] > 0 /\ \A p \in Players : a.st[p] \subseteq Agreed
             /\ i[1] \notin {"kickAll", "stop", "gone"}
    PROVE  Does(t, a, i, b)
<1>1. Levels(a.lv, i, b.lv)
  BY DEF Levels
<1>2. ASSUME NoStop PROVE Maps(a, i, b)
  <2>1. i # Out("usr")
    BY DEF Out
  <2>2. Rest(b)
    BY <1>2 DEF Rest
  <2> QED
    BY <2>1, <2>2, <1>2 DEF Maps, MapSteps
<1> QED
  BY <1>1, <1>2 DEF Does

-----------------------------------------------------------------------------
(* Sections that may be entered.                                           *)
LEMMA EnterPlayer ==
    ASSUME NEW t, NEW L \in [Locks -> Nat], NEW p \in Players, OnlyOf(L, p)
    PROVE  MayEnter(t, L, p) /\ p \in Locks
<1>1. p \in Locks /\ p \notin {"usr", "pool", "peer", "rcv"}
  BY LocksAssumption DEF Locks
<1>2. CASE L[p] > 0
  BY <1>1, <1>2 DEF MayEnter
<1>3. CASE ~(L[p] > 0)
  <2>1. ASSUME NEW h \in Locks, L[h] > 0 PROVE Rank(h) < Rank(p)
    <3>1. h \notin Players
      <4>1. SUFFICES ASSUME h \in Players PROVE FALSE
        OBVIOUS
      <4>2. h = p
        BY <4>1, <2>1 DEF OnlyOf
      <4> QED
        BY <4>2, <1>3, <2>1
    <3>2. h \in {"usr", "pool", "peer", "rcv"}
      BY <3>1 DEF Locks
    <3> QED
      BY <3>2, <1>1 DEF Rank
  <2>2. Above(L, p)
    BY <2>1 DEF Above
  <2> QED
    BY <2>2, <1>1 DEF MayEnter
<1> QED
  BY <1>2, <1>3

(* finishDestroyPlayer.                                                    *)
LEMMA FinishWalk ==
    ASSUME NEW t \in Threads, NEW a \in Context, NEW b \in Context, NEW p \in Players,
           a.lv = b.lv, a.ph = b.ph, a.sv = b.sv, OnlyOf(a.lv, p), MayEnter(t, a.lv, "usr"),
           NoStop => /\ Rest(a) /\ Rest(b) /\ a.lv["usr"] <= 3
                     /\ \A s \in a.st[p] : "user" \in s =>
                           s = Facts /\ a.lv[p] <= 3 /\ a.lv["pool"] <= 3 /\ a.lv["usr"] <= 2
                     /\ \A s \in a.st[p] : Removed(s) \in b.st[p]
                     /\ \A r \in Players : r # p => a.st[r] \subseteq b.st[r]
    PROVE  Walk(t, FinishDestroy(p), a, b)
<1> DEFINE S == [r \in Players |-> IF r = p THEN {Removed(s) : s \in a.st[p]} ELSE a.st[r]]
           u == Up(a, "usr")
           c == With(u, S)
<1>1. /\ a.lv \in [Locks -> Nat] /\ a.st \in [Players -> SUBSET SUBSET Facts]
      /\ "usr" \in Locks /\ "pool" \in Locks /\ p \in Locks /\ p # "usr" /\ p # "pool"
  BY Contexts, LocksAssumption DEF Locks
<1>2. S \in [Players -> SUBSET SUBSET Facts]
  BY <1>1 DEF Removed
<1>3. u \in Context /\ c \in Context
  <2>1. u \in Context
    BY <1>1, Contexts
  <2> QED
    BY <2>1, <1>2, Contexts
<1>4. /\ u.lv = [a.lv EXCEPT !["usr"] = @ + 1] /\ u.st = a.st /\ u.ph = a.ph /\ u.sv = a.sv
      /\ c.lv = u.lv /\ c.st = S /\ c.ph = a.ph /\ c.sv = a.sv
  BY DEF Up, With
<1>5. S[p] = {Removed(s) : s \in a.st[p]} /\ \A r \in Players : r # p => S[r] = a.st[r]
  OBVIOUS
<1> HIDE DEF S, u, c
<1>6. /\ u.lv["usr"] = a.lv["usr"] + 1 /\ u.lv["pool"] = a.lv["pool"] /\ u.lv[p] = a.lv[p]
      /\ u.lv["usr"] > 0
  BY <1>1, <1>4
<1>7. OnlyOf(u.lv, p)
  <2>1. \A r \in Players : r # "usr" /\ r \in Locks
    BY LocksAssumption DEF Locks
  <2> QED
    BY <2>1, <1>1, <1>4 DEF OnlyOf
<1>8. ASSUME NoStop, NEW s \in a.st[p], "user" \in s PROVE s = Facts /\ Room(u.lv, p)
  <2>1. s = Facts /\ a.lv[p] <= 3 /\ a.lv["pool"] <= 3 /\ a.lv["usr"] <= 2
    BY <1>8
  <2>2. a.lv["usr"] \in Nat
    BY <1>1
  <2> QED
    BY <2>1, <2>2, <1>6 DEF Room
<1>9. Does(t, u, To("remove", p), c)
  <2>1. \A s \in u.st[p] : Removed(s) \in c.st[p]
    BY <1>4, <1>5
  <2>2. \A r \in Players : r # p => u.st[r] \subseteq c.st[r]
    BY <1>4, <1>5
  <2>3. NoStop => \A s \in u.st[p] : "user" \in s => s = Facts /\ Room(u.lv, p)
    BY <1>4, <1>8
  <2> QED
    BY <2>1, <2>2, <2>3, <1>3, <1>4, <1>6, <1>7, RemoveDoes
<1>10. Walk(t, <<To("remove", p)>>, Up(a, "usr"), c)
  BY <1>9, <1>3, WalkOne DEF u
<1>11. NoStop => Rest(c)
  BY <1>4, <1>6 DEF Rest
<1>12. ASSUME NoStop, b.lv["usr"] = 0, NEW r \in Players PROVE c.st[r] \subseteq Agreed
  <2>1. a.st = Calm
    BY <1>12 DEF Rest
  <2>2. a.st[r] = Agreed /\ a.st[p] = Agreed
    BY <2>1 DEF Calm
  <2>3. CASE r = p
    BY <2>2, <2>3, <1>4, <1>5 DEF Agreed, Removed
  <2>4. CASE r # p
    BY <2>2, <2>4, <1>4, <1>5
  <2> QED
    BY <2>3, <2>4
<1>13. ASSUME NoStop, NEW r \in Players PROVE c.st[r] \subseteq b.st[r]
  <2>1. CASE r = p
    BY <2>1, <1>4, <1>5, <1>13
  <2>2. CASE r # p
    BY <2>2, <1>4, <1>5, <1>13
  <2> QED
    BY <2>1, <2>2
<1>14. c.lv = Up(a, "usr").lv /\ c.ph = b.ph /\ c.sv = b.sv
  BY <1>4 DEF u
<1>15. Walk(t, Within("usr", <<To("remove", p)>>), a, b)
  BY <1>1, <1>3, <1>10, <1>11, <1>12, <1>13, <1>14, WithinWalk
<1> QED
  BY <1>15 DEF FinishDestroy

(* destroyPlayerCallback, in which NetServer::finishDestroyPlayer may be called. *)
LEMMA CallbackWalk ==
    ASSUME NEW t \in Threads, NEW a \in Context, NEW b \in Context, NEW p \in Players,
           a.lv = b.lv, a.ph = b.ph, a.sv = b.sv, OnlyOf(a.lv, p),
           \E h \in {"peer"} \cup Players : a.lv[h] > 0,
           NoStop => /\ Rest(a) /\ Rest(b) /\ a.lv["pool"] <= 3 /\ a.lv["usr"] <= 3
                     /\ \A s \in a.st[p] : "user" \in s =>
                           s = Facts /\ a.lv[p] <= 3 /\ a.lv["pool"] <= 2 /\ a.lv["usr"] <= 2
                     /\ \A s \in a.st[p] : s \in b.st[p] /\ Removed(s) \in b.st[p]
                     /\ \A r \in Players : r # p => a.st[r] \subseteq b.st[r],
           NEW body, body \in {FinishDestroy(p), <<>>}
    PROVE  Walk(t, Within("pool", body), a, b)
<1> DEFINE u == Up(a, "pool")
           c == With(u, b.st)
<1>1. /\ a.lv \in [Locks -> Nat] /\ b.st \in [Players -> SUBSET SUBSET Facts]
      /\ "usr" \in Locks /\ "pool" \in Locks /\ p \in Locks /\ p # "usr" /\ p # "pool"
      /\ "peer" \in Locks /\ Players \subseteq Locks /\ "pool" \notin Players
  BY Contexts, LocksAssumption DEF Locks
<1>2. u \in Context /\ c \in Context
  <2>1. u \in Context
    BY <1>1, Contexts
  <2> QED
    BY <2>1, <1>1, Contexts
<1>3. /\ u.lv = [a.lv EXCEPT !["pool"] = @ + 1] /\ u.st = a.st /\ u.ph = a.ph /\ u.sv = a.sv
      /\ c.lv = u.lv /\ c.st = b.st /\ c.ph = a.ph /\ c.sv = a.sv
  BY DEF Up, With
<1> HIDE DEF u, c
<1>4. /\ u.lv["pool"] = a.lv["pool"] + 1 /\ u.lv["usr"] = a.lv["usr"] /\ u.lv[p] = a.lv[p]
  BY <1>1, <1>3
<1>5. \A h \in {"peer"} \cup Players : u.lv[h] = a.lv[h]
  BY <1>1, <1>3
<1>6. OnlyOf(u.lv, p)
  BY <1>5 DEF OnlyOf
<1>7. MayEnter(t, a.lv, "pool") /\ MayEnter(t, u.lv, "usr")
  BY <1>5 DEF MayEnter
<1>8. NoStop => Rest(u) /\ Rest(c)
  BY <1>3, <1>4 DEF Rest
<1>9. ASSUME NoStop, NEW s \in u.st[p], "user" \in s
      PROVE  s = Facts /\ u.lv[p] <= 3 /\ u.lv["pool"] <= 3 /\ u.lv["usr"] <= 2
  <2>1. s = Facts /\ a.lv[p] <= 3 /\ a.lv["pool"] <= 2 /\ a.lv["usr"] <= 2
    BY <1>9, <1>3
  <2>2. a.lv["pool"] \in Nat
    BY <1>1
  <2> QED
    BY <2>1, <2>2, <1>4
<1>10. CASE body = FinishDestroy(p)
  <2>1. NoStop => u.lv["usr"] <= 3 /\ \A s \in u.st[p] : Removed(s) \in c.st[p]
    BY <1>3, <1>4
  <2>2. NoStop => \A r \in Players : r # p => u.st[r] \subseteq c.st[r]
    BY <1>3
  <2>3. Walk(t, FinishDestroy(p), u, c)
    BY <1>2, <1>3, <1>6, <1>7, <1>8, <1>9, <2>1, <2>2, FinishWalk
  <2>4. Walk(t, body, Up(a, "pool"), c)
    BY <2>3, <1>10 DEF u
  <2>5. c.lv = Up(a, "pool").lv /\ c.ph = b.ph /\ c.sv = b.sv /\ \A r \in Players : c.st[r] \subseteq b.st[r]
    BY <1>3 DEF u
  <2> QED
    BY <2>4, <2>5, <1>1, <1>2, <1>7, <1>8, WithinWalk
<1>11. CASE body = <<>>
  <2>1. Walk(t, body, Up(a, "pool"), u)
    BY <1>2, <1>11, WalkNothing DEF u
  <2>2. u.lv = Up(a, "pool").lv /\ u.ph = b.ph /\ u.sv = b.sv
    BY <1>3 DEF u
  <2>3. ASSUME NoStop, NEW r \in Players PROVE u.st[r] \subseteq b.st[r]
    <3>1. CASE r = p
      <4>1. \A s \in a.st[p] : s \in b.st[p]
        BY <2>3
      <4> QED
        BY <4>1, <3>1, <1>3
    <3>2. CASE r # p
      BY <3>2, <2>3, <1>3
    <3> QED
      BY <3>1, <3>2
  <2> QED
    BY <2>1, <2>2, <2>3, <1>1, <1>2, <1>7, <1>8, WithinWalk
<1> QED
  BY <1>10, <1>11

(* NetChannelBasic::close, once the channel is marked as closed.           *)
LEMMA CloseWalk ==
    ASSUME NEW t \in Threads, NEW a \in Context, NEW b \in Context, NEW p \in Players,
           a.lv = b.lv, a.ph = b.ph, a.sv = b.sv, OnlyOf(a.lv, p),
           NoStop => /\ Rest(a) /\ Rest(b) /\ a.lv["usr"] > 0
                     /\ \A s \in a.st[p] : "user" \notin s /\ "open" \notin s
                     /\ Room(a.lv, p) /\ {} \in b.st[p]
                     /\ \A r \in Players : r # p => a.st[r] \subseteq b.st[r]
    PROVE  Walk(t, Within(p, <<To("cancel", p)>>) \o <<To("unroute", p)>> \o Use(p), a, b)
<1> DEFINE u == Up(a, p)
<1>1. /\ a.lv \in [Locks -> Nat] /\ a.st \in [Players -> SUBSET SUBSET Facts]
      /\ "usr" \in Locks /\ "pool" \in Locks /\ p \in Locks /\ p # "usr" /\ p # "pool"
      /\ Players \subseteq Locks
  BY Contexts, LocksAssumption DEF Locks
<1>2. u \in Context
  BY <1>1, Contexts
<1>3. /\ u.lv = [a.lv EXCEPT ![p] = @ + 1] /\ u.st = a.st /\ u.ph = a.ph /\ u.sv = a.sv
  BY DEF Up
<1> HIDE DEF u
<1>4. /\ u.lv["pool"] = a.lv["pool"] /\ u.lv["usr"] = a.lv["usr"] /\ u.lv[p] = a.lv[p] + 1
      /\ u.lv[p] > 0
  BY <1>1, <1>3
<1>5. OnlyOf(u.lv, p)
  BY <1>1, <1>3 DEF OnlyOf
<1>6. MayEnter(t, a.lv, p)
  BY <1>1, EnterPlayer
<1>7. NoStop => Rest(u)
  BY <1>3, <1>4 DEF Rest
<1>8. Does(t, u, To("cancel", p), u)
  <2>1. NoStop => u.lv["pool"] <= 3 /\ u.lv["usr"] <= 3
    BY <1>4 DEF Room
  <2>2. NoStop => \A s \in u.st[p] : "user" \notin s /\ Removed(s) = s
    BY <1>3 DEF Removed
  <2> QED
    BY <1>2, <1>4, <1>5, <1>7, <2>1, <2>2, CancelDoes
<1>9. Walk(t, <<To("cancel", p)>>, Up(a, p), u)
  BY <1>8, <1>2, WalkOne DEF u
<1>10. Walk(t, Within(p, <<To("cancel", p)>>), a, a)
  <2>1. u.lv = Up(a, p).lv /\ u.ph = a.ph /\ u.sv = a.sv /\ \A r \in Players : u.st[r] \subseteq a.st[r]
    BY <1>3 DEF u
  <2>2. NoStop => a.lv[p] <= 3
    BY DEF Room
  <2> QED
    BY <2>1, <2>2, <1>1, <1>2, <1>6, <1>7, <1>9, WithinWalk
<1>11. Does(t, a, To("unroute", p), b)
  <2>1. ASSUME NoStop, NEW s \in a.st[p] PROVE Fates("unroute", s) \subseteq b.st[p]
    <3>1. s \in SUBSET Facts /\ "user" \notin s /\ "open" \notin s
      BY <2>1, <1>1
    <3>2. s \ {"route"} = {}
      BY <3>1 DEF Facts
    <3>3. Fates("unroute", s) = {{}}
      BY <3>2 DEF Fates
    <3> QED
      BY <3>3, <2>1
  <2>2. "unroute" \in {"unroute", "register", "open", "put"}
    OBVIOUS
  <2> QED
    BY <2>1, <2>2, PlainDoes
<1>12. Walk(t, <<To("unroute", p)>>, a, b)
  BY <1>11, WalkOne
<1>13. Walk(t, Use(p), b, b)
  <2>1. NoStop => b.lv[p] <= 3
    BY DEF Room
  <2> QED
    BY <2>1, <1>1, <1>6, UseWalk
<1>14. Walk(t, Within(p, <<To("cancel", p)>>) \o <<To("unroute", p)>>, a, b)
  BY <1>10, <1>12, WalkOn
<1> QED
  BY <1>13, <1>14, WalkOn

-----------------------------------------------------------------------------
(* The handlers.  All of them are entered with nothing held, and leave
   nothing behind.                                                         *)
Base(h, v) == [lv |-> Nowhere, st |-> Calm, ph |-> h, sv |-> v]

(* The contexts between two handlers.                                      *)
LEMMA BaseIs ==
    ASSUME NEW h \in {"up", "stopping", "half", "ended", "down"}, NEW v \in {"open", "shut"}
    PROVE  /\ Base(h, v) \in Context /\ Rest(Base(h, v))
           /\ \A l \in Locks : Base(h, v).lv[l] = 0
           /\ Base(h, v).lv = Nowhere /\ Base(h, v).st = Calm
           /\ Base(h, v).ph = h /\ Base(h, v).sv = v
BY DEF Base, Context, Nowhere, Calm, Agreed, Facts, Rest

(* A context with one lock more.                                           *)
LEMMA UpIs ==
    ASSUME NEW a \in Context, NEW l \in Locks
    PROVE  /\ Up(a, l) \in Context /\ Up(a, l).lv[l] = a.lv[l] + 1
           /\ \A h \in Locks : h # l => Up(a, l).lv[h] = a.lv[h]
           /\ Up(a, l).st = a.st /\ Up(a, l).ph = a.ph /\ Up(a, l).sv = a.sv
           /\ Rest(a) => Rest(Up(a, l))
<1>1. a.lv \in [Locks -> Nat] /\ Up(a, l) \in Context
  BY Contexts
<1>2. /\ Up(a, l).lv[l] = a.lv[l] + 1
      /\ \A h \in Locks : h # l => Up(a, l).lv[h] = a.lv[h]
      /\ Up(a, l).st = a.st /\ Up(a, l).ph = a.ph /\ Up(a, l).sv = a.sv
  BY <1>1 DEF Up
<1>3. ASSUME Rest(a) PROVE Rest(Up(a, l))
  <2>1. "usr" \in Locks
    BY DEF Locks
  <2>2. CASE l = "usr"
    <3>1. Up(a, l).lv["usr"] = a.lv["usr"] + 1 /\ a.lv["usr"] \in Nat
      BY <1>1, <1>2, <2>1, <2>2
    <3>2. Up(a, l).lv["usr"] # 0
      BY <3>1
    <3> QED
      BY <3>2 DEF Rest
  <2>3. CASE l # "usr"
    BY <2>1, <2>3, <1>2, <1>3 DEF Rest
  <2> QED
    BY <2>2, <2>3
<1> QED
  BY <1>1, <1>2, <1>3

(* A section whose inside changes nothing.                                 *)
LEMMA SectionWalk ==
    ASSUME NEW t \in Threads, NEW a \in Context, NEW l \in Locks, NEW body,
           MayEnter(t, a.lv, l), Walk(t, body, Up(a, l), Up(a, l)),
           NoStop => Rest(a) /\ a.lv[l] <= 3
    PROVE  Walk(t, Within(l, body), a, a)
<1> DEFINE c == Up(a, l)
<1>1. c \in Context /\ c.lv = Up(a, l).lv /\ c.ph = a.ph /\ c.sv = a.sv /\ c.st = a.st
      /\ (Rest(a) => Rest(c))
  BY UpIs
<1>2. Walk(t, body, Up(a, l), c)
  OBVIOUS
<1>3. NoStop /\ a.lv["usr"] = 0 => \A r \in Players : c.st[r] \subseteq Agreed
  BY <1>1 DEF Rest, Calm
<1>4. \A r \in Players : c.st[r] \subseteq a.st[r]
  BY <1>1
<1> HIDE DEF c
<1> QED
  BY <1>1, <1>2, <1>3, <1>4, WithinWalk

(* The locks that are not channels.                                        *)
LEMMA LockNames ==
    /\ {"usr", "pool", "peer", "rcv"} \subseteq Locks /\ Players \subseteq Locks
    /\ \A p \in Players : p \notin {"usr", "pool", "peer", "rcv"}
BY LocksAssumption DEF Locks

(* With nothing held every section may be entered, poolLock by the game and by
   who lets players in.                                                     *)
LEMMA EnterFirst ==
    ASSUME NEW t, NEW L, \A h \in Locks : L[h] = 0, NEW l \in Locks, l = "pool" => t = "main"
    PROVE  MayEnter(t, L, l)
BY DEF MayEnter, Above

(* A packet with data.                                                     *)
LEMMA DataWalk ==
    ASSUME NEW t \in Threads, NEW p \in Players
    PROVE  Walk(t, Data(p), Base("up", "open"), Base("up", "open"))
<1> DEFINE z == Base("up", "open")
<1>1. z \in Context /\ Rest(z) /\ (\A l \in Locks : z.lv[l] = 0)
  BY BaseIs
<1> HIDE DEF z
<1>2. ASSUME NEW l \in Locks, l # "pool" PROVE Walk(t, Use(l), z, z)
  BY <1>1, <1>2, EnterFirst, UseWalk
<1>3. Walk(t, Use("peer"), z, z) /\ Walk(t, Use(p), z, z) /\ Walk(t, Use("rcv"), z, z)
  BY <1>2, LockNames
<1>4. Walk(t, Use("peer") \o Use(p), z, z)
  BY <1>3, WalkOn
<1>5. Walk(t, (Use("peer") \o Use(p)) \o Use("rcv"), z, z)
  BY <1>3, <1>4, WalkOn
<1> QED
  BY <1>5 DEF Data, z

(* A channel's section inside of another one.                              *)
LEMMA UseInside ==
    ASSUME NEW t \in Threads, NEW a \in Context, Rest(a), \A l \in Locks : a.lv[l] = 0,
           NEW p \in Players, NEW l \in {"usr", "peer"}
    PROVE  Walk(t, Within(l, Use(p)), a, a) /\ Walk(t, Use(p), Up(a, l), Up(a, l))
<1>1. l \in Locks /\ p \in Locks /\ p # l /\ l # "pool"
  BY LockNames
<1> DEFINE u == Up(a, l)
<1>2. u \in Context /\ Rest(u) /\ \A h \in Locks : h # l => u.lv[h] = 0
  BY <1>1, UpIs
<1>3. OnlyOf(u.lv, p)
  BY <1>2, LockNames DEF OnlyOf
<1>4. u.lv \in [Locks -> Nat] /\ u.lv[p] = 0
  BY <1>2, <1>1, Contexts
<1> HIDE DEF u
<1>5. MayEnter(t, u.lv, p)
  BY <1>3, <1>4, EnterPlayer
<1>6. Walk(t, Use(p), u, u)
  BY <1>1, <1>2, <1>4, <1>5, UseWalk
<1>7. MayEnter(t, a.lv, l) /\ a.lv[l] <= 3
  BY <1>1, EnterFirst
<1> QED
  BY <1>1, <1>6, <1>7, SectionWalk DEF u

(* checkConnectivity.                                                      *)
LEMMA CheckWalk ==
    ASSUME NEW t \in Threads, NEW p \in Players
    PROVE  Walk(t, Check(p), Base("up", "open"), Base("up", "open"))
BY BaseIs, UseInside DEF Check

(* SendMsg.                                                                *)
LEMMA SendWalk ==
    ASSUME NEW t \in Threads, NEW p \in Players
    PROVE  Walk(t, Send(p), Base("up", "open"), Base("up", "open"))
BY BaseIs, UseInside DEF Send

(* finishDestroyPlayer inside of usrCs.                                    *)
LEMMA FinishInside ==
    ASSUME NEW t \in Threads, NEW a \in Context, Rest(a), \A l \in Locks : a.lv[l] = 0,
           NEW p \in Players
    PROVE  Walk(t, FinishDestroy(p), Up(a, "usr"), Up(a, "usr"))
<1>1. "usr" \in Locks /\ "pool" \in Locks /\ p \in Locks /\ p # "usr"
  BY LockNames
<1> DEFINE u == Up(a, "usr")
<1>2. u \in Context /\ Rest(u) /\ u.st = a.st /\ u.lv["usr"] = 1 /\ \A h \in Locks : h # "usr" => u.lv[h] = 0
  <2>1. u \in Context /\ Rest(u) /\ u.st = a.st /\ u.lv["usr"] = a.lv["usr"] + 1
    BY <1>1, UpIs
  <2>2. \A h \in Locks : h # "usr" => u.lv[h] = a.lv[h]
    BY <1>1, UpIs
  <2> QED
    BY <1>1, <2>1, <2>2
<1> HIDE DEF u
<1>3. OnlyOf(u.lv, p)
  BY <1>2, LockNames DEF OnlyOf
<1>4. MayEnter(t, u.lv, "usr")
  BY <1>2 DEF MayEnter
<1>5. u.st = Calm
  BY <1>1, <1>2 DEF Rest
<1>6. \A s \in u.st[p] : s \in {Facts, {}} /\ Removed(s) \in u.st[p]
  BY <1>5 DEF Calm, Agreed, Removed
<1>7. \A s \in u.st[p] : "user" \in s => s = Facts
  BY <1>6
<1>8. u.lv["usr"] <= 2 /\ u.lv["usr"] <= 3 /\ u.lv[p] <= 3 /\ u.lv["pool"] <= 3
  BY <1>1, <1>2
<1>9. Walk(t, FinishDestroy(p), u, u)
  BY <1>2, <1>3, <1>4, <1>6, <1>7, <1>8, FinishWalk
<1> QED
  BY <1>9 DEF u

(* A DESTROY_PLAYER message.                                               *)
LEMMA DestroyWalk ==
    ASSUME NEW t \in Threads, NEW p \in Players
    PROVE  Walk(t, Destroy(p), Base("up", "open"), Base("up", "open"))
<1> DEFINE z == Base("up", "open")
<1>1. z \in Context /\ Rest(z) /\ (\A l \in Locks : z.lv[l] = 0)
  BY BaseIs
<1> HIDE DEF z
<1>2. ASSUME NEW l \in Locks, l # "pool" PROVE Walk(t, Use(l), z, z) /\ MayEnter(t, z.lv, l)
  BY <1>1, <1>2, EnterFirst, UseWalk
<1>3. Walk(t, Use("peer"), z, z) /\ Walk(t, Use(p), z, z)
  BY <1>2, LockNames
<1>4. Walk(t, Within("usr", FinishDestroy(p)), z, z)
  <2>1. Walk(t, FinishDestroy(p), Up(z, "usr"), Up(z, "usr"))
    BY <1>1, FinishInside
  <2>2. "usr" \in Locks /\ MayEnter(t, z.lv, "usr") /\ z.lv["usr"] <= 3
    BY <1>1, <1>2, LockNames
  <2> QED
    BY <1>1, <2>1, <2>2, SectionWalk
<1>5. Walk(t, Use("peer") \o Use(p), z, z)
  BY <1>3, WalkOn
<1>6. Walk(t, (Use("peer") \o Use(p)) \o Within("usr", FinishDestroy(p)), z, z)
  BY <1>4, <1>5, WalkOn
<1> QED
  BY <1>6 DEF Destroy, z

(* GetConnectionInfo finds a channel that dropped.                         *)
LEMMA DropWalk ==
    ASSUME NEW t \in Threads, NEW p \in Players
    PROVE  Walk(t, Drop(p), Base("up", "open"), Base("up", "open"))
<1> DEFINE z == Base("up", "open")
<1>1. z \in Context /\ Rest(z) /\ (\A l \in Locks : z.lv[l] = 0)
  BY BaseIs
<1> HIDE DEF z
<1>2. "usr" \in Locks /\ MayEnter(t, z.lv, "usr") /\ z.lv["usr"] <= 3
  BY <1>1, EnterFirst, LockNames
<1>3. Walk(t, Use(p), Up(z, "usr"), Up(z, "usr"))
  BY <1>1, UseInside
<1>4. Walk(t, FinishDestroy(p), Up(z, "usr"), Up(z, "usr"))
  BY <1>1, FinishInside
<1>5. Walk(t, Use(p) \o FinishDestroy(p), Up(z, "usr"), Up(z, "usr"))
  BY <1>3, <1>4, WalkOn
<1>6. Walk(t, Within("usr", Use(p) \o FinishDestroy(p)), z, z)
  BY <1>1, <1>2, <1>5, SectionWalk
<1> QED
  BY <1>6 DEF Drop, z

(* udpSend.                                                                *)
LEMMA TransmitWalk ==
    ASSUME NEW t \in Threads
    PROVE  Walk(t, Transmit, Base("up", "open"), Base("up", "open"))
<1> DEFINE z == Base("up", "open")
           u == Up(z, "peer")
<1>1. z \in Context /\ Rest(z) /\ (\A l \in Locks : z.lv[l] = 0)
  BY BaseIs
<1> HIDE DEF z
<1>2. "peer" \in Locks /\ MayEnter(t, z.lv, "peer") /\ z.lv["peer"] <= 3
  BY <1>1, EnterFirst, LockNames
<1>3. u \in Context /\ Rest(u) /\ u.lv["peer"] = z.lv["peer"] + 1 /\ \A h \in Locks : h # "peer" => u.lv[h] = z.lv[h]
  BY <1>1, <1>2, UpIs
<1>4. u.lv["peer"] > 0 /\ Only(u.lv, "peer")
  BY <1>1, <1>2, <1>3 DEF Only
<1> HIDE DEF u
<1>5. Do("prepare") = <<"prepare">> /\ Do("prepare") \in Instrs
  BY DEF Do, Instrs
<1>6. Does(t, u, Do("prepare"), u)
  <2>1. Orders(t, u.lv, Do("prepare"))
    BY <1>4, <1>5 DEF Orders
  <2>2. Life(u, Do("prepare"), u)
    BY <1>5 DEF Life, To
  <2> QED
    BY <1>3, <1>5, <2>1, <2>2, QuietDoes
<1>7. Walk(t, <<Do("prepare")>>, u, u)
  BY <1>3, <1>6, WalkOne
<1>8. Walk(t, Within("peer", <<Do("prepare")>>), z, z)
  BY <1>1, <1>2, <1>7, SectionWalk DEF u
<1> QED
  BY <1>8 DEF Transmit, z

(* KickOff.                                                                *)
LEMMA KickWalk ==
    ASSUME NEW t \in Threads, NEW p \in Players
    PROVE  Walk(t, Kick(p), Base("up", "open"), Base("up", "open"))
<1> DEFINE z == Base("up", "open")
           u == Up(z, "usr")
<1>1. z \in Context /\ Rest(z) /\ (\A l \in Locks : z.lv[l] = 0)
  BY BaseIs
<1> HIDE DEF z
<1>2. "usr" \in Locks /\ MayEnter(t, z.lv, "usr") /\ z.lv["usr"] <= 3
  BY <1>1, EnterFirst, LockNames
<1>3. u \in Context /\ Rest(u) /\ \A h \in Locks : h # "usr" => u.lv[h] = z.lv[h]
  BY <1>1, <1>2, UpIs
<1>4. NoneOf(u.lv)
  BY <1>1, <1>3, LockNames DEF NoneOf
<1> HIDE DEF u
<1>5. To("kick", p) = <<"kick", p>> /\ To("kick", p) \in Instrs
  BY DEF To, Instrs
<1>6. Does(t, u, To("kick", p), u)
  <2>1. Orders(t, u.lv, To("kick", p))
    BY <1>4, <1>5 DEF Orders
  <2>2. Life(u, To("kick", p), u)
    BY <1>5 DEF Life, To
  <2> QED
    BY <1>3, <1>5, <2>1, <2>2, QuietDoes
<1>7. Walk(t, <<To("kick", p)>>, u, u)
  BY <1>3, <1>6, WalkOne
<1>8. Walk(t, Within("usr", <<To("kick", p)>>), z, z)
  BY <1>1, <1>2, <1>7, SectionWalk DEF u
<1> QED
  BY <1>8 DEF Kick, z

(* ProcessPlayers: the game's call-backs enter usrCs once more.            *)
LEMMA ProcessWalk ==
    ASSUME NEW t \in Threads, NEW p \in Players, NEW q \in Players
    PROVE  /\ Walk(t, ProcessPlayers(Send(p)), Base("up", "open"), Base("up", "open"))
           /\ Walk(t, ProcessPlayers(Send(p) \o Kick(q)), Base("up", "open"), Base("up", "open"))
<1> DEFINE z == Base("up", "open")
           u == Up(z, "usr")
           w == Up(u, "usr")
<1>1. z \in Context /\ Rest(z) /\ (\A l \in Locks : z.lv[l] = 0)
  BY BaseIs
<1> HIDE DEF z
<1>2. "usr" \in Locks /\ MayEnter(t, z.lv, "usr") /\ z.lv["usr"] <= 3
  BY <1>1, EnterFirst, LockNames
<1>3. u \in Context /\ Rest(u) /\ u.lv["usr"] = 1 /\ \A h \in Locks : h # "usr" => u.lv[h] = 0
  <2>1. u \in Context /\ Rest(u) /\ u.lv["usr"] = z.lv["usr"] + 1
    BY <1>1, <1>2, UpIs
  <2>2. \A h \in Locks : h # "usr" => u.lv[h] = z.lv[h]
    BY <1>1, <1>2, UpIs
  <2> QED
    BY <1>1, <1>2, <2>1, <2>2
<1> HIDE DEF u
<1>4. MayEnter(t, u.lv, "usr") /\ u.lv["usr"] <= 3
  BY <1>3 DEF MayEnter
<1>5. w \in Context /\ Rest(w) /\ \A h \in Locks : h # "usr" => w.lv[h] = 0
  <2>1. w \in Context /\ Rest(w)
    BY <1>2, <1>3, UpIs
  <2>2. \A h \in Locks : h # "usr" => w.lv[h] = u.lv[h]
    BY <1>2, <1>3, UpIs
  <2> QED
    BY <1>3, <2>1, <2>2
<1> HIDE DEF w
<1>6. Walk(t, Send(p), u, u)
  <2>1. p \in Locks /\ p # "usr" /\ OnlyOf(w.lv, p)
    BY <1>5, LockNames DEF OnlyOf
  <2>2. w.lv[p] = 0 /\ w.lv \in [Locks -> Nat]
    BY <1>5, <2>1, Contexts
  <2>3. MayEnter(t, w.lv, p)
    BY <2>1, <2>2, EnterPlayer
  <2>4. Walk(t, Use(p), w, w)
    BY <1>5, <2>1, <2>2, <2>3, UseWalk
  <2>5. Walk(t, Within("usr", Use(p)), u, u)
    BY <1>2, <1>3, <1>4, <2>4, SectionWalk DEF w
  <2> QED
    BY <2>5 DEF Send
<1>7. Walk(t, Kick(q), u, u)
  <2>1. NoneOf(w.lv)
    BY <1>5, LockNames DEF NoneOf
  <2>2. To("kick", q) = <<"kick", q>> /\ To("kick", q) \in Instrs
    BY DEF To, Instrs
  <2>3. Orders(t, w.lv, To("kick", q))
    BY <2>1, <2>2 DEF Orders
  <2>4. Life(w, To("kick", q), w)
    BY <2>2 DEF Life, To
  <2>5. Does(t, w, To("kick", q), w)
    BY <1>5, <2>2, <2>3, <2>4, QuietDoes
  <2>6. Walk(t, <<To("kick", q)>>, w, w)
    BY <1>5, <2>5, WalkOne
  <2>7. Walk(t, Within("usr", <<To("kick", q)>>), u, u)
    BY <1>2, <1>3, <1>4, <2>6, SectionWalk DEF w
  <2> QED
    BY <2>7 DEF Kick
<1>8. Walk(t, Send(p) \o Kick(q), u, u)
  BY <1>6, <1>7, WalkOn
<1>9. Walk(t, Within("usr", Send(p)), z, z)
  BY <1>1, <1>2, <1>6, SectionWalk DEF u
<1>10. Walk(t, Within("usr", Send(p) \o Kick(q)), z, z)
  BY <1>1, <1>2, <1>8, SectionWalk DEF u
<1> QED
  BY <1>9, <1>10 DEF ProcessPlayers, z

(* ProcessUserMessages.                                                    *)
LEMMA ReceiveWalk ==
    ASSUME NEW t \in Threads
    PROVE  Walk(t, Receive, Base("up", "open"), Base("up", "open"))
<1> DEFINE z == Base("up", "open")
           u == Up(z, "rcv")
<1>1. z \in Context /\ Rest(z) /\ (\A l \in Locks : z.lv[l] = 0)
  BY BaseIs
<1> HIDE DEF z
<1>2. /\ "rcv" \in Locks /\ MayEnter(t, z.lv, "rcv") /\ z.lv["rcv"] <= 3
      /\ "usr" \in Locks
  BY <1>1, EnterFirst, LockNames
<1>3. u \in Context /\ Rest(u) /\ \A h \in Locks : h # "rcv" => u.lv[h] = z.lv[h]
  BY <1>1, <1>2, UpIs
<1>4. \A h \in Locks : u.lv[h] > 0 => h = "rcv"
  BY <1>1, <1>3
<1> HIDE DEF u
<1>5. MayEnter(t, u.lv, "usr")
  BY <1>4 DEF MayEnter, Above, Rank
<1>6. u.lv["usr"] <= 3
  BY <1>1, <1>2, <1>3
<1>7. Walk(t, Use("usr"), u, u)
  BY <1>2, <1>3, <1>5, <1>6, UseWalk
<1>8. Walk(t, Within("rcv", Use("usr")), z, z)
  BY <1>1, <1>2, <1>7, SectionWalk DEF u
<1> QED
  BY <1>8 DEF Receive, z

(* A RECONNECT_PLAYER message.                                             *)
LEMMA ReconnectWalk ==
    ASSUME NEW p \in Players
    PROVE  Walk("listener", Reconnect(p), Base("up", "open"), Base("up", "open"))
<1> DEFINE t == "listener"
           z == Base("up", "open")
           u == Up(z, "usr")
<1>0. t \in Threads
  BY DEF Threads
<1>1. z \in Context /\ Rest(z) /\ (\A l \in Locks : z.lv[l] = 0)
  BY BaseIs
<1> HIDE DEF z
<1>2. "usr" \in Locks /\ MayEnter(t, z.lv, "usr") /\ z.lv["usr"] <= 3
  BY <1>1, EnterFirst, LockNames
<1>3. /\ u \in Context /\ Rest(u) /\ u.lv["usr"] = z.lv["usr"] + 1 /\ u.st = z.st
      /\ \A h \in Locks : h # "usr" => u.lv[h] = z.lv[h]
  BY <1>1, <1>2, UpIs
<1>4. NoneOf(u.lv) /\ u.lv["peer"] = 0
  BY <1>1, <1>3, LockNames DEF NoneOf
<1>5. u.lv["usr"] > 0
  BY <1>1, <1>2, <1>3
<1>6. \A r \in Players : u.st[r] \subseteq Agreed
  BY <1>1, <1>2, <1>3 DEF Rest, Calm
<1> HIDE DEF u
<1>7. To("reconnect", p) = <<"reconnect", p>> /\ To("reconnect", p) \in Instrs
  BY DEF To, Instrs
<1>8. Does(t, u, To("reconnect", p), u)
  <2>1. Orders(t, u.lv, To("reconnect", p))
    BY <1>4, <1>7 DEF Orders
  <2>2. Life(u, To("reconnect", p), u)
    BY <1>7 DEF Life, To
  <2> QED
    BY <1>0, <1>3, <1>5, <1>6, <1>7, <2>1, <2>2, QuietDoes
<1>9. Walk(t, <<To("reconnect", p)>>, u, u)
  BY <1>3, <1>8, WalkOne
<1>10. Walk(t, Within("usr", <<To("reconnect", p)>>), z, z)
  BY <1>0, <1>1, <1>2, <1>9, SectionWalk DEF u
<1>11. ASSUME NEW l \in Locks, l # "pool" PROVE Walk(t, Use(l), z, z)
  BY <1>0, <1>1, <1>11, EnterFirst, UseWalk
<1>12. Walk(t, Use("peer"), z, z) /\ Walk(t, Use(p), z, z)
  BY <1>11, LockNames
<1>13. Walk(t, Use("peer") \o Within("usr", <<To("reconnect", p)>>), z, z)
  BY <1>10, <1>12, WalkOn
<1>14. Walk(t, (Use("peer") \o Within("usr", <<To("reconnect", p)>>)) \o Use(p), z, z)
  BY <1>12, <1>13, WalkOn
<1> QED
  BY <1>14 DEF Reconnect, z, t

(* A request to join: what is left to do with both locks entered ends with both
   of them left.                                                           *)
LEMMA AdmissionWalk ==
    ASSUME NEW p \in Players, "create" \in Ops,
           NEW a \in Context, NEW b \in Context, NoStop => Rest(a) /\ Rest(b),
           \A l \in Locks : a.lv[l] = 0, b.lv = Nowhere, b.ph = a.ph, b.sv = a.sv
    PROVE  Walk("listener", <<In("usr"), In("pool"), To("admit", p)>>, a, b)
<1> DEFINE t == "listener"
           u == Up(a, "usr")
           w == Up(u, "pool")
<1>0. t \in Threads
  BY DEF Threads
<1>1. {"usr", "pool"} \subseteq Locks
  BY LockNames
<1>2. /\ u \in Context /\ (NoStop => Rest(u)) /\ u.lv["usr"] = a.lv["usr"] + 1 /\ u.st = a.st
      /\ u.ph = a.ph /\ u.sv = a.sv /\ \A h \in Locks : h # "usr" => u.lv[h] = a.lv[h]
  BY <1>1, UpIs
<1>3. /\ w \in Context /\ (NoStop => Rest(w)) /\ w.lv["pool"] = u.lv["pool"] + 1 /\ w.st = u.st
      /\ w.ph = u.ph /\ w.sv = u.sv /\ \A h \in Locks : h # "pool" => w.lv[h] = u.lv[h]
  BY <1>1, <1>2, UpIs
<1>4. Does(t, a, In("usr"), u)
  <2>1. MayEnter(t, a.lv, "usr") /\ a.lv["usr"] <= 3
    BY <1>1, EnterFirst
  <2> QED
    BY <1>0, <1>1, <2>1, EnterDoes
<1>5. Does(t, u, In("pool"), w)
  <2>1. \A h \in Locks : u.lv[h] > 0 => h = "usr"
    BY <1>2
  <2>2. MayEnter(t, u.lv, "pool")
    BY <2>1 DEF MayEnter, Above, Rank
  <2>3. u.lv["pool"] <= 3
    BY <1>1, <1>2
  <2> QED
    BY <1>0, <1>1, <1>2, <2>2, <2>3, EnterDoes
<1>6. w.lv = InAdmission
  <2>1. w.lv \in [Locks -> Nat] /\ InAdmission \in [Locks -> Nat]
    BY <1>3, Contexts DEF InAdmission
  <2>2. \A h \in Locks : w.lv[h] = InAdmission[h]
    BY <1>1, <1>2, <1>3 DEF InAdmission
  <2> QED
    BY <2>1, <2>2
<1> HIDE DEF u, w
<1>7. w.lv["usr"] = 1 /\ (NoStop => w.st = Calm /\ b.st = Calm)
  <2>1. b.lv["usr"] = 0
    BY <1>1 DEF Nowhere
  <2> QED
    BY <2>1, <1>1, <1>2, <1>3, <1>6 DEF Rest, InAdmission
<1>8. Does(t, w, To("admit", p), b)
  <2>1. To("admit", p) = <<"admit", p>> /\ To("admit", p) \in Instrs
    BY DEF To, Instrs
  <2>2. Orders(t, w.lv, To("admit", p))
    BY <1>6, <2>1 DEF Orders
  <2>3. Life(w, To("admit", p), b)
    BY <1>2, <1>3, <2>1 DEF Life, To
  <2>4. Levels(w.lv, To("admit", p), b.lv)
    BY <2>1 DEF Levels
  <2>5. ASSUME NoStop PROVE Maps(w, To("admit", p), b)
    <3>1. \A r \in Players : w.st[r] = Agreed /\ b.st[r] = Agreed
      BY <1>7, <2>5 DEF Calm
    <3>2. To("admit", p) # Out("usr")
      BY <2>1 DEF Out
    <3>3. w.lv["usr"] > 0 /\ Rest(w)
      BY <1>3, <1>7, <2>5
    <3> QED
      BY <2>1, <2>5, <3>1, <3>2, <3>3 DEF Maps, MapSteps
  <2> QED
    BY <2>1, <2>2, <2>3, <2>4, <2>5 DEF Does
<1>9. Walk(t, <<In("usr")>>, a, u) /\ Walk(t, <<In("pool")>>, u, w) /\ Walk(t, <<To("admit", p)>>, w, b)
  BY <1>2, <1>3, <1>4, <1>5, <1>8, WalkOne
<1>10. Walk(t, <<In("usr")>> \o <<In("pool")>>, a, w)
  BY <1>9, WalkOn
<1>11. Walk(t, (<<In("usr")>> \o <<In("pool")>>) \o <<To("admit", p)>>, a, b)
  BY <1>9, <1>10, WalkOn
<1>12. (<<In("usr")>> \o <<In("pool")>>) \o <<To("admit", p)>> = <<In("usr"), In("pool"), To("admit", p)>>
  BY Three
<1> QED
  BY <1>11, <1>12 DEF t

(* A CREATE_PLAYER message.                                                *)
LEMMA CreateWalk ==
    ASSUME NEW p \in Players, "create" \in Ops
    PROVE  Walk("listener", Create(p), Base("up", "open"), Base("up", "open"))
<1> DEFINE z == Base("up", "open")
<1>1. z \in Context /\ Rest(z) /\ (\A l \in Locks : z.lv[l] = 0) /\ z.lv = Nowhere
  BY BaseIs
<1> HIDE DEF z
<1>2. Walk("listener", <<In("usr"), In("pool"), To("admit", p)>>, z, z)
  BY <1>1, AdmissionWalk
<1>3. Walk("listener", Use("peer"), z, z)
  <2>1. "peer" \in Locks /\ MayEnter("listener", z.lv, "peer") /\ z.lv["peer"] <= 3
    BY <1>1, EnterFirst, LockNames
  <2> QED
    BY <1>1, <2>1, UseWalk DEF Threads
<1>4. Walk("listener", Use("peer") \o <<In("usr"), In("pool"), To("admit", p)>>, z, z)
  BY <1>2, <1>3, WalkOn
<1> QED
  BY <1>4 DEF Create, z

(* The game's thread: the life of the peer.                                *)
Stage(a, h) == [lv |-> a.lv, st |-> a.st, ph |-> h, sv |-> a.sv]
Stages      == {"up", "stopping", "half", "ended", "down"}

(* A context at another stage of the life of the peer.                     *)
LEMMA StageIs ==
    ASSUME NEW a \in Context, NEW h \in Stages
    PROVE  /\ Stage(a, h) \in Context /\ Stage(a, h).lv = a.lv /\ Stage(a, h).st = a.st
           /\ Stage(a, h).ph = h /\ Stage(a, h).sv = a.sv
           /\ Rest(a) => Rest(Stage(a, h))
BY DEF Stage, Stages, Context, Rest

(* NetPeerUDP::close.                                                      *)
LEMMA ClosePeerWalk ==
    ASSUME "shutdown" \in Ops, NEW a \in Context, Only(a.lv, "pool"), a.ph = "up"
    PROVE  Walk("main", ClosePeer, a, Stage(a, "ended"))
<1> DEFINE t == "main"
           u == Up(a, "peer")
           v == Stage(u, "stopping")
           b == Stage(a, "stopping")
           c == Stage(a, "half")
           d == Stage(a, "ended")
<1>0. t \in Threads /\ ~NoStop /\ {"peer", "pool", "usr"} \subseteq Locks
  BY LockNames DEF Threads, NoStop
<1>1. /\ u \in Context /\ u.ph = "up" /\ u.sv = a.sv /\ u.st = a.st
      /\ \A h \in Locks : h # "peer" => u.lv[h] = a.lv[h]
  BY <1>0, UpIs
<1>2. /\ v \in Context /\ v.lv = u.lv /\ v.st = u.st /\ v.ph = "stopping" /\ v.sv = u.sv
  BY <1>1, StageIs DEF Stages
<1>3. /\ b \in Context /\ b.lv = a.lv /\ b.st = a.st /\ b.ph = "stopping" /\ b.sv = a.sv
      /\ c \in Context /\ c.lv = a.lv /\ c.st = a.st /\ c.ph = "half" /\ c.sv = a.sv
      /\ d \in Context /\ d.lv = a.lv /\ d.st = a.st /\ d.ph = "ended" /\ d.sv = a.sv
  BY StageIs DEF Stages
<1>4. MayEnter(t, a.lv, "peer")
  BY DEF MayEnter, Above, Only, Rank
<1>5. NoneOf(u.lv)
  <2>1. \A p \in Players : p \in Locks /\ p # "peer" /\ p # "pool"
    BY LockNames
  <2> QED
    BY <2>1, <1>1 DEF NoneOf, Only
<1>6. v.lv = Up(a, "peer").lv
  BY <1>2
<1> HIDE DEF u, v, b, c, d
<1>7. Does(t, u, Do("stop"), v)
  <2>1. Do("stop") = <<"stop">> /\ Do("stop") \in Instrs
    BY DEF Do, Instrs
  <2>2. Orders(t, u.lv, Do("stop"))
    BY <1>5, <2>1 DEF Orders
  <2>3. Life(u, Do("stop"), v)
    BY <1>1, <1>2, <2>1 DEF Life, To
  <2> QED
    BY <1>0, <1>1, <1>2, <2>1, <2>2, <2>3, QuietDoes
<1>8. Walk(t, Within("peer", <<Do("stop")>>), a, b)
  <2>1. Walk(t, <<Do("stop")>>, Up(a, "peer"), v)
    BY <1>1, <1>2, <1>7, WalkOne DEF u
  <2> QED
    BY <1>0, <1>1, <1>2, <1>3, <1>4, <1>6, <2>1, WithinWalk
<1>9. Does(t, b, To("join", "sender"), c) /\ Does(t, c, To("join", "listener"), d)
  <2>1. ASSUME NEW s \in {"sender", "listener"}
        PROVE  To("join", s) = <<"join", s>> /\ To("join", s) \in Instrs /\ To("join", s)[1] = "join"
    BY DEF To, Instrs
  <2>2. ASSUME NEW s \in {"sender", "listener"} PROVE Orders(t, a.lv, To("join", s))
    BY <2>1 DEF Orders
  <2>3. To("join", "sender") # To("join", "listener")
    BY DEF To
  <2>4. Life(b, To("join", "sender"), c) /\ Life(c, To("join", "listener"), d)
    BY <1>3, <2>1, <2>3 DEF Life
  <2> QED
    BY <1>0, <1>3, <2>1, <2>2, <2>4, QuietDoes
<1>10. Walk(t, <<To("join", "sender"), To("join", "listener")>>, b, d)
  <2>1. Walk(t, <<To("join", "sender")>>, b, c) /\ Walk(t, <<To("join", "listener")>>, c, d)
    BY <1>3, <1>9, WalkOne
  <2>2. Walk(t, <<To("join", "sender")>> \o <<To("join", "listener")>>, b, d)
    BY <2>1, WalkOn
  <2> QED
    BY <2>2, Two
<1>11. Walk(t, Use("peer"), d, d)
  BY <1>0, <1>3, <1>4, UseWalk
<1>12. Walk(t, Within("peer", <<Do("stop")>>) \o <<To("join", "sender"), To("join", "listener")>>, a, d)
  BY <1>8, <1>10, WalkOn
<1>13. Walk(t, (Within("peer", <<Do("stop")>>) \o <<To("join", "sender"), To("join", "listener")>>) \o Use("peer"), a, d)
  BY <1>11, <1>12, WalkOn
<1> QED
  BY <1>13 DEF ClosePeer, d, t

(* The peer that has been closed is let go.                                *)
LEMMA DisposeDoes ==
    ASSUME NEW a \in Context, NEW h \in {"ended", "down"}, a.ph = "ended", NoStop => Rest(a)
    PROVE  Does("main", a, Do("dispose"), Stage(a, h))
<1>1. Do("dispose") = <<"dispose">> /\ Do("dispose") \in Instrs
  BY DEF Do, Instrs
<1>2. Orders("main", a.lv, Do("dispose"))
  BY <1>1 DEF Orders
<1>3. /\ Stage(a, h) \in Context /\ Stage(a, h).lv = a.lv /\ Stage(a, h).st = a.st
      /\ Stage(a, h).ph = h /\ Stage(a, h).sv = a.sv
  BY StageIs DEF Stages
<1>4. Life(a, Do("dispose"), Stage(a, h))
  BY <1>1, <1>3 DEF Life, To
<1> QED
  BY <1>1, <1>2, <1>3, <1>4, QuietDoes DEF Threads

(* CancelAllMessages, which may create a peer.                             *)
LEMMA CancelMessagesWalk ==
    ASSUME NEW a \in Context, Rest(a), \A l \in Locks : a.lv[l] = 0, a.ph \in {"up", "down"}
    PROVE  Walk("main", CancelMessages, a, Stage(a, "up"))
<1> DEFINE t == "main"
           u == Up(a, "pool")
           v == Stage(u, "up")
           b == Stage(a, "up")
<1>0. t \in Threads /\ {"peer", "pool", "usr"} \subseteq Locks
  BY LockNames DEF Threads
<1>1. /\ u \in Context /\ u.ph = a.ph /\ u.sv = a.sv /\ u.st = a.st /\ Rest(u)
      /\ u.lv["pool"] = a.lv["pool"] + 1
      /\ \A h \in Locks : h # "pool" => u.lv[h] = a.lv[h]
  BY <1>0, UpIs
<1>2. /\ v \in Context /\ v.lv = u.lv /\ v.st = u.st /\ v.ph = "up" /\ v.sv = u.sv /\ Rest(v)
  BY <1>1, StageIs DEF Stages
<1>3. /\ b \in Context /\ b.lv = a.lv /\ b.st = a.st /\ b.ph = "up" /\ b.sv = a.sv /\ Rest(b)
  BY StageIs DEF Stages
<1>4. MayEnter(t, a.lv, "pool") /\ a.lv["pool"] <= 3
  BY <1>0, EnterFirst
<1>5. NoneOf(u.lv) /\ u.lv["usr"] = 0 /\ u.lv["peer"] = 0 /\ u.lv["pool"] <= 2
  BY <1>0, <1>1, LockNames DEF NoneOf
<1>6. v.lv = Up(a, "pool").lv
  BY <1>2
<1>7. a.lv["usr"] = 0 /\ b.lv["usr"] = 0
  BY <1>0, <1>3
<1> HIDE DEF u, v, b
<1>8. Does(t, u, Do("serverPeer"), v)
  <2>1. Do("serverPeer") = <<"serverPeer">> /\ Do("serverPeer") \in Instrs
    BY DEF Do, Instrs
  <2>2. Orders(t, u.lv, Do("serverPeer"))
    BY <1>5, <2>1 DEF Orders
  <2>3. Life(u, Do("serverPeer"), v)
    BY <1>1, <1>2, <2>1 DEF Life, To
  <2> QED
    BY <1>0, <1>1, <1>2, <1>5, <2>1, <2>2, <2>3, QuietDoes
<1>9. Walk(t, <<Do("serverPeer")>>, Up(a, "pool"), v)
  BY <1>1, <1>2, <1>8, WalkOne DEF u
<1>10. \A r \in Players : v.st[r] \subseteq b.st[r]
  BY <1>1, <1>2, <1>3
<1>11. Walk(t, Within("pool", <<Do("serverPeer")>>), a, b)
  BY <1>0, <1>1, <1>2, <1>3, <1>4, <1>6, <1>9, <1>10, WithinWalk
<1> QED
  BY <1>11 DEF CancelMessages, b, t

(* ~NetServer.                                                             *)
LEMMA ShutdownWalk ==
    ASSUME "shutdown" \in Ops
    PROVE  Walk("main", Shutdown, Base("up", "open"), Base(IF PoolShared THEN "up" ELSE "ended", "shut"))
<1> DEFINE t == "main"
           z == Base("up", "open")
           e == IF PoolShared THEN "up" ELSE "ended"
           y == Base(e, "shut")
           s == Base("ended", "open")
           d == Base("down", "open")
<1>0. t \in Threads /\ ~NoStop /\ {"peer", "pool", "usr"} \subseteq Locks /\ e \in Stages
  BY LockNames DEF Threads, NoStop, Stages
<1>1. /\ z \in Context /\ Rest(z) /\ (\A l \in Locks : z.lv[l] = 0) /\ z.ph = "up" /\ z.sv = "open"
      /\ z.lv = Nowhere /\ z.st = Calm
  BY BaseIs
<1>2. /\ y \in Context /\ Rest(y) /\ (\A l \in Locks : y.lv[l] = 0) /\ y.ph = e /\ y.sv = "shut"
      /\ y.lv = Nowhere /\ y.st = Calm
  BY <1>0, BaseIs DEF Stages
<1>3. /\ d \in Context /\ Rest(d) /\ (\A l \in Locks : d.lv[l] = 0) /\ d.ph = "down" /\ d.sv = "open"
      /\ d.lv = Nowhere /\ d.st = Calm
  BY BaseIs
<1>4. Stage(d, "up") = z
  BY <1>3 DEF Stage, Base
<1> HIDE DEF z, y, d, e
<1>5. ASSUME NEW l \in Locks PROVE MayEnter(t, z.lv, l) /\ MayEnter(t, d.lv, l)
  BY <1>1, <1>3, <1>5, EnterFirst
<1>6. Walk(t, Within("usr", <<Do("kickAll")>>), z, z)
  <2> DEFINE u == Up(z, "usr")
  <2>1. u \in Context /\ \A h \in Locks : h # "usr" => u.lv[h] = z.lv[h]
    BY <1>0, <1>1, UpIs
  <2>2. NoneOf(u.lv)
    BY <1>1, <2>1, LockNames DEF NoneOf
  <2> HIDE DEF u
  <2>3. Do("kickAll") = <<"kickAll">> /\ Do("kickAll") \in Instrs
    BY DEF Do, Instrs
  <2>4. Orders(t, u.lv, Do("kickAll")) /\ Life(u, Do("kickAll"), u)
    BY <2>2, <2>3 DEF Orders, Life, To
  <2>5. Does(t, u, Do("kickAll"), u)
    BY <1>0, <2>1, <2>3, <2>4, QuietDoes
  <2>6. Walk(t, <<Do("kickAll")>>, u, u)
    BY <2>1, <2>5, WalkOne
  <2> QED
    BY <1>0, <1>1, <1>5, <2>6, SectionWalk DEF u
<1>7. Walk(t, <<Do("sleep")>>, z, z)
  <2>1. Do("sleep") = <<"sleep">> /\ Do("sleep") \in Instrs
    BY DEF Do, Instrs
  <2>2. Orders(t, z.lv, Do("sleep")) /\ Life(z, Do("sleep"), z)
    BY <2>1 DEF Orders, Life, To
  <2>3. Does(t, z, Do("sleep"), z)
    BY <1>0, <1>1, <2>1, <2>2, QuietDoes
  <2> QED
    BY <1>1, <2>3, WalkOne
<1>8. Walk(t, Within("pool", ClosePeer \o Use("peer") \o <<Do("dispose")>>), z, d)
  <2> DEFINE u == Up(z, "pool")
             v == Stage(u, "ended")
             w == Stage(v, "down")
  <2>1. /\ u \in Context /\ u.ph = "up" /\ u.sv = "open" /\ u.st = Calm
        /\ \A h \in Locks : h # "pool" => u.lv[h] = z.lv[h]
    BY <1>0, <1>1, UpIs
  <2>2. Only(u.lv, "pool")
    BY <1>1, <2>1 DEF Only
  <2>3. /\ v \in Context /\ v.lv = u.lv /\ v.st = Calm /\ v.ph = "ended" /\ v.sv = "open"
        /\ w \in Context /\ w.lv = u.lv /\ w.st = Calm /\ w.ph = "down" /\ w.sv = "open"
    BY <2>1, StageIs DEF Stages
  <2>4. w.lv = Up(z, "pool").lv
    BY <2>3
  <2> HIDE DEF u, v
  <2>5. Walk(t, ClosePeer, u, v)
    BY <2>1, <2>2, ClosePeerWalk DEF v
  <2>6. Walk(t, Use("peer"), v, v)
    <3>1. MayEnter(t, v.lv, "peer")
      BY <2>2, <2>3 DEF MayEnter, Above, Only, Rank
    <3> QED
      BY <1>0, <2>3, <3>1, UseWalk
  <2>7. Walk(t, <<Do("dispose")>>, v, w)
    <3>1. Does(t, v, Do("dispose"), w)
      BY <1>0, <2>3, DisposeDoes
    <3> QED
      BY <2>3, <3>1, WalkOne
  <2> HIDE DEF w
  <2>8. Walk(t, ClosePeer \o Use("peer"), u, v)
    BY <2>5, <2>6, WalkOn
  <2>9. Walk(t, (ClosePeer \o Use("peer")) \o <<Do("dispose")>>, Up(z, "pool"), w)
    BY <2>7, <2>8, WalkOn DEF u
  <2> QED
    BY <1>0, <1>1, <1>3, <1>5, <2>3, <2>4, <2>9, WithinWalk
<1>9. Walk(t, CancelMessages, d, z)
  BY <1>3, <1>4, CancelMessagesWalk
<1>10. Walk(t, Within("pool", <<Do("gone")>>), z, y)
  <2> DEFINE u == Up(z, "pool")
             v == [lv |-> u.lv, st |-> u.st, ph |-> e, sv |-> "shut"]
  <2>1. /\ u \in Context /\ u.ph = "up" /\ u.sv = "open" /\ u.st = Calm
        /\ \A h \in Locks : h # "pool" => u.lv[h] = z.lv[h]
    BY <1>0, <1>1, UpIs
  <2>2. Only(u.lv, "pool")
    BY <1>1, <2>1 DEF Only
  <2>3. v \in Context /\ v.lv = u.lv /\ v.st = u.st /\ v.ph = e /\ v.sv = "shut"
    BY <1>0, <2>1 DEF Context, Stages
  <2>4. v.lv = Up(z, "pool").lv
    BY <2>3
  <2> HIDE DEF u, v
  <2>5. Do("gone") = <<"gone">> /\ Do("gone") \in Instrs
    BY DEF Do, Instrs
  <2>6. Orders(t, u.lv, Do("gone"))
    BY <2>2, <2>5 DEF Orders
  <2>7. Life(u, Do("gone"), v)
    BY <2>1, <2>3, <2>5 DEF Life, To, e
  <2>8. Does(t, u, Do("gone"), v)
    BY <1>0, <2>1, <2>3, <2>5, <2>6, <2>7, QuietDoes
  <2>9. Walk(t, <<Do("gone")>>, Up(z, "pool"), v)
    BY <2>1, <2>3, <2>8, WalkOne DEF u
  <2> QED
    BY <1>0, <1>1, <1>2, <1>5, <2>3, <2>4, <2>9, WithinWalk
<1> DEFINE W1 == Within("usr", <<Do("kickAll")>>)
           W2 == <<Do("sleep")>>
           W3 == Within("pool", ClosePeer \o Use("peer") \o <<Do("dispose")>>)
           W4 == Within("pool", <<Do("gone")>>)
<1>11. Walk(t, W1, z, z) /\ Walk(t, W2, z, z) /\ Walk(t, W3, z, d) /\ Walk(t, W4, z, y)
  BY <1>6, <1>7, <1>8, <1>10
<1>12. Shutdown = (((W1 \o W2) \o W3) \o CancelMessages) \o W4
  BY DEF Shutdown
<1> HIDE DEF W1, W2, W3, W4
<1>13. Walk(t, W1 \o W2, z, z)
  BY <1>11, WalkOn
<1>14. Walk(t, (W1 \o W2) \o W3, z, d)
  BY <1>11, <1>13, WalkOn
<1>15. Walk(t, ((W1 \o W2) \o W3) \o CancelMessages, z, z)
  BY <1>9, <1>14, WalkOn
<1>16. Walk(t, (((W1 \o W2) \o W3) \o CancelMessages) \o W4, z, y)
  BY <1>11, <1>15, WalkOn
<1> QED
  BY <1>12, <1>16 DEF z, y, e, t

-----------------------------------------------------------------------------
(* The steps.                                                              *)

LEMMA WalkIsCode ==
    ASSUME NEW t, NEW q, NEW a, NEW b, Walk(t, q, a, b)
    PROVE  q \in Seq(Instrs)
BY DEF Walk

(* The threads.                                                            *)
LEMMA ThreadNames ==
    /\ Threads = {"listener", "sender", "main"}
    /\ \A t \in Threads : t # Nobody
BY LocksAssumption DEF Threads

(* A thread that does nothing, whose sections stay its own and who sees no other
   maps and no peer further up than before, goes on as it would have.       *)
LEMMA OthersReady ==
    ASSUME NEW u \in Threads, Ready(u), todo'[u] = todo[u],
           \A l \in Locks : owner[l] = u <=> owner'[l] = u,
           \A l \in Locks : owner[l] = u => depth'[l] = depth[l],
           NoStop /\ owner["usr"] = u => \A p \in Players : StatusOf(p)' = StatusOf(p),
           u = "main" => (server' <=> server) /\ \A h \in Stages : Means(h) => Means(h)'
    PROVE  Ready(u)'
<1>1. PICK a \in Context, b \in Context : At(u, a) /\ Walk(u, todo[u], a, b) /\ Done(b)
  BY DEF Ready
<1>2. Walk(u, todo'[u], a, b)
  BY <1>1
<1>3. Inside(u)' = Inside(u)
  BY DEF Inside
<1>4. a.lv = Inside(u)'
  BY <1>1, <1>3 DEF At
<1>5. ASSUME NoStop
      PROVE  Rest(a) /\ (owner'["usr"] = u => \A p \in Players : StatusOf(p)' \in a.st[p])
  <2>1. "usr" \in Locks
    BY DEF Locks
  <2>2. Rest(a) /\ (owner["usr"] = u => \A p \in Players : StatusOf(p) \in a.st[p])
    BY <1>1, <1>5 DEF At
  <2> QED
    BY <2>1, <2>2, <1>5
<1>6. ASSUME u = "main" PROVE Means(a.ph)' /\ (a.sv = "open" <=> server')
  <2>1. Means(a.ph) /\ (a.sv = "open" <=> server)
    BY <1>1, <1>6 DEF At
  <2>2. PICK h \in Stages : h = a.ph
    BY DEF Context, Stages
  <2>3. Means(h) /\ (server' <=> server)
    BY <2>1, <2>2, <1>6
  <2>4. Means(h)'
    BY <2>3, <1>6
  <2> QED
    BY <2>1, <2>2, <2>3, <2>4 DEF Means
<1>7. u # "main" => a.ph = "up" /\ a.sv = "open"
  BY <1>1 DEF At
<1>8. At(u, a)'
  BY <1>4, <1>5, <1>6, <1>7 DEF At
<1> QED
  BY <1>1, <1>2, <1>8 DEF Ready

(* The thread itself goes on with what the instruction is replaced by.     *)
LEMMA ReadyNext ==
    ASSUME Types, NEW t \in Threads, NEW code, NEW c \in Context, NEW m, NEW b \in Context,
           At(t, c)', Walk(t, code, c, m), Walk(t, Tail(todo[t]), m, b), Done(b),
           todo' = [todo EXCEPT ![t] = code \o Tail(@)]
    PROVE  Ready(t)'
<1>1. PICK q : q = code \o Tail(todo[t])
  OBVIOUS
<1>2. todo'[t] = q
  BY <1>1 DEF Types
<1>3. Walk(t, q, c, b)
  BY <1>1, WalkOn
<1>4. Walk(t, todo'[t], c, b)
  BY <1>2, <1>3
<1> QED
  BY <1>4 DEF Ready

(* The contexts before and after the instruction that is next.             *)
LEMMA StepContext ==
    ASSUME Invariant, NEW t \in Threads, todo[t] # <<>>
    PROVE  \E a, m, b \in Context :
              /\ At(t, a) /\ Does(t, a, Head(todo[t]), m)
              /\ Walk(t, Tail(todo[t]), m, b) /\ Done(b)
<1>1. PICK a \in Context, b \in Context : At(t, a) /\ Walk(t, todo[t], a, b) /\ Done(b)
  BY DEF Invariant, Ready
<1>2. PICK m \in Context : Does(t, a, Head(todo[t]), m) /\ Walk(t, Tail(todo[t]), m, b)
  BY <1>1, WalkFirst
<1> QED
  BY <1>1, <1>2

(* Every step that leaves the locks alone.                                 *)
LEMMA StepKeeps ==
    ASSUME Invariant, NEW t \in Threads, UNCHANGED locks,
           NEW code, NEW c \in Context, NEW m, NEW b \in Context,
           Walk(t, code, c, m), Walk(t, Tail(todo[t]), m, b), Done(b),
           todo' = [todo EXCEPT ![t] = code \o Tail(@)],
           c.lv = Inside(t),
           NoStop => Rest(c),
           NoStop /\ owner["usr"] = t => \A p \in Players : StatusOf(p)' \in c.st[p],
           NoStop /\ owner["usr"] # t => \A p \in Players : StatusOf(p)' = StatusOf(p),
           t = "main" => Means(c.ph)' /\ (c.sv = "open" <=> server'),
           t # "main" => c.ph = "up" /\ c.sv = "open" /\ UNCHANGED peers,
           users' \subseteq Players, opened' \subseteq Players, routed' \subseteq Players, kicks' \subseteq Players,
           wanted' \subseteq {"listener", "sender"}, running' \subseteq {"listener", "sender"},
           peer' \in BOOLEAN, server' \in BOOLEAN, NoStop => server'
    PROVE  Invariant'
<1>1. Types /\ owner' = owner /\ depth' = depth
  BY DEF Invariant, locks
<1>2. Inside(t)' = Inside(t)
  BY <1>1 DEF Inside
<1>3. At(t, c)'
  BY <1>1, <1>2 DEF At
<1>4. Ready(t)'
  BY <1>1, <1>3, ReadyNext
<1>5. ASSUME NEW u \in Threads, u # t PROVE Ready(u)'
  <2>1. Ready(u) /\ todo'[u] = todo[u]
    BY <1>1, <1>5 DEF Invariant, Types
  <2>2. NoStop /\ owner["usr"] = u => \A p \in Players : StatusOf(p)' = StatusOf(p)
    BY <1>5
  <2>3. ASSUME u = "main" PROVE (server' <=> server) /\ \A h \in Stages : Means(h) => Means(h)'
    <3>1. UNCHANGED peers
      BY <2>3, <1>5
    <3> QED
      BY <3>1 DEF peers, Means
  <2> QED
    BY <1>1, <2>1, <2>2, <2>3, OthersReady
<1>6. \A u \in Threads : Ready(u)'
  BY <1>4, <1>5
<1>7. todo' \in [Threads -> Seq(Instrs)]
  <2>1. Walk(t, code \o Tail(todo[t]), c, b)
    BY WalkOn
  <2>2. PICK q : q = code \o Tail(todo[t])
    OBVIOUS
  <2>3. q \in Seq(Instrs)
    BY <2>1, <2>2, WalkIsCode
  <2>4. todo' = [todo EXCEPT ![t] = q]
    BY <2>2
  <2> QED
    BY <1>1, <2>3, <2>4 DEF Types
<1>8. Types'
  BY <1>1, <1>7 DEF Types
<1>9. ASSUME NoStop, owner'["usr"] = Nobody, NEW p \in Players PROVE StatusOf(p)' \in Agreed
  <2>1. owner["usr"] # t
    BY <1>1, <1>9, ThreadNames
  <2>2. StatusOf(p) \in Agreed
    BY <1>1, <1>9 DEF Invariant
  <2> QED
    BY <2>1, <2>2, <1>9
<1>10. NoStop => \A l \in Locks : depth'[l] <= 4
  BY <1>1 DEF Invariant
<1> QED
  BY <1>6, <1>8, <1>9, <1>10 DEF Invariant

(* And the peer.                                                           *)
LEMMA ChannelStep ==
    ASSUME Invariant, NEW t \in Threads, UNCHANGED locks, UNCHANGED peers,
           NEW code, NEW a \in Context, NEW c \in Context, NEW m, NEW b \in Context, At(t, a),
           Walk(t, code, c, m), Walk(t, Tail(todo[t]), m, b), Done(b),
           todo' = [todo EXCEPT ![t] = code \o Tail(@)],
           c.lv = a.lv, c.ph = a.ph, c.sv = a.sv,
           NoStop => Rest(c),
           NoStop /\ owner["usr"] = t => \A p \in Players : StatusOf(p)' \in c.st[p],
           NoStop /\ owner["usr"] # t => \A p \in Players : StatusOf(p)' = StatusOf(p),
           users' \subseteq Players, opened' \subseteq Players, routed' \subseteq Players, kicks' \subseteq Players
    PROVE  Invariant'
<1>1. /\ wanted' \subseteq {"listener", "sender"} /\ running' \subseteq {"listener", "sender"}
      /\ peer' \in BOOLEAN /\ server' \in BOOLEAN /\ (NoStop => server')
  BY DEF Invariant, Types, peers
<1>2. ASSUME t = "main" PROVE Means(c.ph)' /\ (c.sv = "open" <=> server')
  BY <1>2 DEF At, Means, peers
<1>3. t # "main" => c.ph = "up" /\ c.sv = "open" /\ UNCHANGED peers
  BY DEF At
<1>4. c.lv = Inside(t)
  BY DEF At
<1> QED
  BY <1>1, <1>2, <1>3, <1>4, StepKeeps

(* An instruction that does nothing itself.                                *)
LEMMA QuietStep ==
    ASSUME Invariant, NEW t \in Threads, UNCHANGED locks, UNCHANGED peers, UNCHANGED <<users, opened, routed>>,
           kicks' \subseteq Players,
           NEW code, NEW a \in Context, NEW m, NEW b \in Context, At(t, a),
           Walk(t, code, a, m), Walk(t, Tail(todo[t]), m, b), Done(b),
           todo' = [todo EXCEPT ![t] = code \o Tail(@)]
    PROVE  Invariant'
<1>1. \A p \in Players : StatusOf(p)' = StatusOf(p)
  BY DEF StatusOf
<1>2. /\ users' \subseteq Players /\ opened' \subseteq Players /\ routed' \subseteq Players
  BY DEF Invariant, Types
<1>3. NoStop => Rest(a)
  BY DEF At
<1>4. NoStop /\ owner["usr"] = t => \A p \in Players : StatusOf(p)' \in a.st[p]
  BY <1>1 DEF At
<1> QED
  BY <1>1, <1>2, <1>3, <1>4, ChannelStep

OfPlayer == {"remove", "close", "cancel", "unroute", "register", "admit", "open", "put", "reconnect", "kick"}

(* The parts of an instruction.                                            *)
LEMMA Shape ==
    ASSUME NEW i \in Instrs
    PROVE  /\ i[1] \in {"in", "out"} => i[2] \in Locks /\ i = <<i[1], i[2]>>
           /\ i[1] \in OfPlayer => i[2] \in Players /\ i = <<i[1], i[2]>>
           /\ i[1] = "join" => i[2] \in {"sender", "listener"} /\ i = <<i[1], i[2]>>
           /\ i[1] = "each" => i[2] \in {"use", "close", "cancel"} /\ i[3] \subseteq Players
<1>1. CASE i \in {<<what, l>> : what \in {"in", "out"}, l \in Locks}
  BY <1>1 DEF OfPlayer
<1>2. CASE i \in {<<what, p>> : what \in {"remove", "close", "cancel", "unroute", "register", "admit",
                                  "open", "put", "reconnect", "kick"}, p \in Players}
  BY <1>2 DEF OfPlayer
<1>3. CASE i \in {<<what>> : what \in {"prepare", "kickAll", "sleep", "stop", "dispose", "serverPeer", "gone"}}
  BY <1>3 DEF OfPlayer
<1>4. CASE i \in {<<"join", s>> : s \in {"sender", "listener"}}
  BY <1>4 DEF OfPlayer
<1>5. CASE i \in {<<"each", what, S>> : what \in {"use", "close", "cancel"}, S \in SUBSET Players}
  BY <1>5 DEF OfPlayer
<1> QED
  BY <1>1, <1>2, <1>3, <1>4, <1>5 DEF Instrs

(* Nothing is put in place of an instruction.                              *)
LEMMA CodeAfter ==
    ASSUME NEW t, NEW m \in Context, NEW q, NEW b, Walk(t, q, m, b)
    PROVE  <<>> \o q = q /\ q \in Seq(Instrs)
<1>1. q \in Seq(Instrs)
  BY WalkIsCode
<1> QED
  BY <1>1, ConcatEmptySeq

(* The sections a thread is in are its own, and nobody else's.             *)
LEMMA InsideIs ==
    ASSUME Types, NEW t \in Threads, NEW a, At(t, a)
    PROVE  \A l \in Locks : a.lv[l] = (IF owner[l] = t THEN depth[l] ELSE 0) /\ (a.lv[l] > 0 <=> owner[l] = t)
<1>1. \A l \in Locks : a.lv[l] = IF owner[l] = t THEN depth[l] ELSE 0
  BY DEF At, Inside
<1>2. \A l \in Locks : owner[l] = t => depth[l] \in Nat /\ depth[l] # 0
  BY ThreadNames DEF Types
<1> QED
  BY <1>1, <1>2

(* A section is entered.                                                   *)
LEMMA EnterKeeps ==
    ASSUME Invariant, NEW t \in Threads, Enter(t)
    PROVE  Invariant'
<1>0. Types /\ todo[t] # <<>>
  BY DEF Enter, Is, Invariant
<1>1. PICK a \in Context, m \in Context, b \in Context :
         At(t, a) /\ Does(t, a, Head(todo[t]), m) /\ Walk(t, Tail(todo[t]), m, b) /\ Done(b)
  BY <1>0, StepContext
<1>2. PICK i : i = Head(todo[t])
  OBVIOUS
<1>3. i \in Instrs /\ i[1] = "in"
  BY <1>1, <1>2 DEF Does, Enter, Is
<1>4. PICK l \in Locks : i = <<"in", l>> /\ i[1] = "in" /\ i[2] = l
  BY <1>3, Shape
<1>5. /\ owner[l] \in {Nobody, t}
      /\ owner' = [owner EXCEPT ![l] = t] /\ depth' = [depth EXCEPT ![l] = @ + 1]
      /\ todo' = [todo EXCEPT ![t] = <<>> \o Tail(@)]
      /\ UNCHANGED <<channels, peers>>
  BY <1>2, <1>4 DEF Enter, Instr, Continue
<1>6. /\ owner \in [Locks -> Threads \cup {Nobody}] /\ depth \in [Locks -> Nat]
      /\ \A h \in Locks : owner[h] = Nobody <=> depth[h] = 0
  BY <1>0 DEF Types
<1>7. Levels(a.lv, i, m.lv) /\ (NoStop => Maps(a, i, m)) /\ Life(a, i, m)
  BY <1>1, <1>2 DEF Does
<1>8. m.lv = [a.lv EXCEPT ![l] = @ + 1]
  BY <1>4, <1>7 DEF Levels
<1>9. a.lv = Inside(t) /\ a.lv \in [Locks -> Nat]
  BY <1>1, Contexts DEF At
<1>10. m.lv = Inside(t)'
  <2>1. \A h \in Locks : Inside(t)'[h] = IF owner'[h] = t THEN depth'[h] ELSE 0
    BY DEF Inside
  <2>2. \A h \in Locks : a.lv[h] = IF owner[h] = t THEN depth[h] ELSE 0
    BY <1>9 DEF Inside
  <2>3. a.lv[l] = depth[l]
    BY <2>2, <1>5, <1>6, ThreadNames
  <2>4. \A h \in Locks : m.lv[h] = Inside(t)'[h]
    <3> SUFFICES ASSUME NEW h \in Locks PROVE m.lv[h] = Inside(t)'[h]
      OBVIOUS
    <3>1. CASE h = l
      BY <3>1, <2>1, <2>3, <1>5, <1>6, <1>8, <1>9
    <3>2. CASE h # l
      BY <3>2, <2>1, <2>2, <1>5, <1>6, <1>8, <1>9
    <3> QED
      BY <3>1, <3>2
  <2>5. Inside(t)' = [h \in Locks |-> Inside(t)'[h]]
    BY DEF Inside
  <2> QED
    BY <2>4, <2>5, <1>8, <1>9
<1>11. \A p \in Players : StatusOf(p)' = StatusOf(p)
  BY <1>5 DEF StatusOf, channels
<1>12. "usr" \in Locks
  BY LockNames
<1>13. ASSUME NoStop, owner'["usr"] = t, NEW p \in Players PROVE StatusOf(p)' \in m.st[p]
  <2>1. a.st[p] \subseteq m.st[p] /\ Rest(a)
    <3>1. i # Out("usr")
      BY <1>4 DEF Out
    <3> QED
      BY <3>1, <1>4, <1>7, <1>13 DEF Maps, MapSteps
  <2>2. CASE owner["usr"] = t
    BY <2>1, <2>2, <1>1, <1>11, <1>13 DEF At
  <2>3. CASE owner["usr"] # t
    <3>1. owner["usr"] = Nobody
      BY <2>3, <1>5, <1>6, <1>12, <1>13
    <3>2. StatusOf(p) \in Agreed
      BY <3>1, <1>13 DEF Invariant
    <3>3. a.lv["usr"] = 0
      BY <2>3, <1>9, <1>12 DEF Inside
    <3>4. a.st[p] = Agreed
      BY <3>3, <2>1 DEF Rest, Calm
    <3> QED
      BY <2>1, <3>2, <3>4, <1>11
  <2> QED
    BY <2>2, <2>3
<1>14. m.ph = a.ph /\ m.sv = a.sv
  BY <1>4, <1>7 DEF Life
<1>15. At(t, m)'
  <2>1. NoStop => Rest(m)
    BY <1>7 DEF Maps
  <2>2. t = "main" => Means(m.ph)' /\ (m.sv = "open" <=> server')
    BY <1>1, <1>5, <1>14 DEF At, Means, peers
  <2>3. t # "main" => m.ph = "up" /\ m.sv = "open"
    BY <1>1, <1>14 DEF At
  <2> QED
    BY <1>10, <1>13, <2>1, <2>2, <2>3 DEF At
<1>16. Ready(t)'
  BY <1>0, <1>1, <1>5, <1>15, WalkNothing, ReadyNext
<1>17. ASSUME NEW u \in Threads, u # t PROVE Ready(u)'
  <2>1. Ready(u) /\ todo'[u] = todo[u]
    BY <1>0, <1>5, <1>17 DEF Invariant, Types
  <2>2. \A h \in Locks : owner[h] = u <=> owner'[h] = u
    BY <1>5, <1>6, <1>17, ThreadNames
  <2>3. \A h \in Locks : owner[h] = u => depth'[h] = depth[h]
    BY <1>5, <1>6, <1>17, ThreadNames
  <2>4. (server' <=> server) /\ \A h \in Stages : Means(h) => Means(h)'
    BY <1>5 DEF peers, Means
  <2> QED
    BY <1>11, <2>1, <2>2, <2>3, <2>4, OthersReady
<1>18. Types'
  <2>1. owner' \in [Locks -> Threads \cup {Nobody}] /\ depth' \in [Locks -> Nat]
    BY <1>5, <1>6
  <2>2. \A h \in Locks : owner'[h] = Nobody <=> depth'[h] = 0
    <3> SUFFICES ASSUME NEW h \in Locks PROVE owner'[h] = Nobody <=> depth'[h] = 0
      OBVIOUS
    <3>1. CASE h = l
      <4>1. owner'[h] = t /\ depth'[h] = depth[l] + 1 /\ depth[l] \in Nat
        BY <3>1, <1>5, <1>6
      <4>2. depth'[h] # 0
        BY <4>1
      <4> QED
        BY <4>1, <4>2, ThreadNames
    <3>2. CASE h # l
      BY <3>2, <1>5, <1>6
    <3> QED
      BY <3>1, <3>2
  <2>3. todo' \in [Threads -> Seq(Instrs)]
    <3>1. <<>> \o Tail(todo[t]) = Tail(todo[t]) /\ Tail(todo[t]) \in Seq(Instrs)
      BY <1>1, CodeAfter
    <3> QED
      BY <3>1, <1>0, <1>5 DEF Types
  <2> QED
    BY <2>1, <2>2, <2>3, <1>0, <1>5 DEF Types, channels, peers
<1>19. ASSUME NoStop, owner'["usr"] = Nobody, NEW p \in Players PROVE StatusOf(p)' \in Agreed
  <2>1. owner["usr"] = Nobody
    BY <1>5, <1>6, <1>12, <1>19, ThreadNames
  <2> QED
    BY <2>1, <1>11, <1>19 DEF Invariant
<1>20. ASSUME NoStop, NEW h \in Locks PROVE depth'[h] <= 4
  <2>1. CASE h = l
    <3>1. a.lv[l] <= 3
      BY <1>4, <1>7, <1>20 DEF Maps
    <3>2. a.lv[l] = depth[l]
      BY <1>5, <1>6, <1>9, ThreadNames DEF Inside
    <3> QED
      BY <2>1, <3>1, <3>2, <1>5, <1>6
  <2>2. CASE h # l
    BY <2>2, <1>5, <1>6, <1>20 DEF Invariant
  <2> QED
    BY <2>1, <2>2
<1> QED
  BY <1>16, <1>17, <1>18, <1>19, <1>20 DEF Invariant

(* A section is left.                                                      *)
LEMMA LeaveKeeps ==
    ASSUME Invariant, NEW t \in Threads, Leave(t)
    PROVE  Invariant'
<1>0. Types /\ todo[t] # <<>>
  BY DEF Leave, Is, Invariant
<1>1. PICK a \in Context, m \in Context, b \in Context :
         At(t, a) /\ Does(t, a, Head(todo[t]), m) /\ Walk(t, Tail(todo[t]), m, b) /\ Done(b)
  BY <1>0, StepContext
<1>2. PICK i : i = Head(todo[t])
  OBVIOUS
<1>3. i \in Instrs /\ i[1] = "out"
  BY <1>1, <1>2 DEF Does, Leave, Is
<1>4. PICK l \in Locks : i = <<"out", l>> /\ i[1] = "out" /\ i[2] = l
  BY <1>3, Shape
<1>5. /\ depth' = [depth EXCEPT ![l] = @ - 1]
      /\ owner' = [owner EXCEPT ![l] = IF depth[l] = 1 THEN Nobody ELSE @]
      /\ todo' = [todo EXCEPT ![t] = <<>> \o Tail(@)]
      /\ UNCHANGED <<channels, peers>>
  BY <1>2, <1>4 DEF Leave, Instr, Continue
<1>6. /\ owner \in [Locks -> Threads \cup {Nobody}] /\ depth \in [Locks -> Nat]
      /\ \A h \in Locks : owner[h] = Nobody <=> depth[h] = 0
  BY <1>0 DEF Types
<1>7. /\ Levels(a.lv, i, m.lv) /\ Orders(t, a.lv, i) /\ (NoStop => Maps(a, i, m)) /\ Life(a, i, m)
  BY <1>1, <1>2 DEF Does
<1>8. m.lv = [a.lv EXCEPT ![l] = @ - 1] /\ a.lv[l] > 0
  BY <1>4, <1>7 DEF Levels, Orders
<1>9. a.lv = Inside(t) /\ a.lv \in [Locks -> Nat]
  BY <1>1, Contexts DEF At
<1>10. owner[l] = t /\ depth[l] = a.lv[l] /\ depth[l] \in Nat /\ depth[l] > 0
  BY <1>6, <1>8, <1>9 DEF Inside
<1>11. m.lv = Inside(t)'
  <2>1. \A h \in Locks : Inside(t)'[h] = IF owner'[h] = t THEN depth'[h] ELSE 0
    BY DEF Inside
  <2>2. \A h \in Locks : a.lv[h] = IF owner[h] = t THEN depth[h] ELSE 0
    BY <1>9 DEF Inside
  <2>3. \A h \in Locks : m.lv[h] = Inside(t)'[h]
    <3> SUFFICES ASSUME NEW h \in Locks PROVE m.lv[h] = Inside(t)'[h]
      OBVIOUS
    <3>1. CASE h = l /\ depth[l] = 1
      <4>1. owner'[h] = Nobody /\ m.lv[h] = 0
        BY <3>1, <1>5, <1>6, <1>8, <1>9, <1>10
      <4> QED
        BY <4>1, <2>1, ThreadNames
    <3>2. CASE h = l /\ depth[l] # 1
      <4>1. owner'[h] = t /\ m.lv[h] = depth'[h]
        BY <3>2, <1>5, <1>6, <1>8, <1>9, <1>10
      <4> QED
        BY <4>1, <2>1
    <3>3. CASE h # l
      BY <3>3, <2>1, <2>2, <1>5, <1>6, <1>8, <1>9
    <3> QED
      BY <3>1, <3>2, <3>3
  <2>4. Inside(t)' = [h \in Locks |-> Inside(t)'[h]]
    BY DEF Inside
  <2>5. m.lv = [h \in Locks |-> m.lv[h]]
    BY <1>8, <1>9
  <2> QED
    BY <2>3, <2>4, <2>5
<1>12. \A p \in Players : StatusOf(p)' = StatusOf(p)
  BY <1>5 DEF StatusOf, channels
<1>13. "usr" \in Locks /\ (i = Out("usr") <=> l = "usr")
  BY <1>4, LockNames DEF Out
<1>14. ASSUME NoStop, owner'["usr"] = t, NEW p \in Players PROVE StatusOf(p)' \in m.st[p]
  <2>1. owner["usr"] = t
    BY <1>5, <1>6, <1>10, <1>13, <1>14, ThreadNames
  <2>2. l = "usr" => a.lv["usr"] # 1
    BY <1>5, <1>6, <1>10, <1>13, <1>14, ThreadNames
  <2>3. a.st[p] \subseteq m.st[p]
    BY <2>2, <1>4, <1>7, <1>13, <1>14 DEF Maps
  <2> QED
    BY <2>1, <2>3, <1>1, <1>12, <1>14 DEF At
<1>15. m.ph = a.ph /\ m.sv = a.sv
  BY <1>4, <1>7 DEF Life
<1>16. At(t, m)'
  <2>1. NoStop => Rest(m)
    BY <1>7 DEF Maps
  <2>2. t = "main" => Means(m.ph)' /\ (m.sv = "open" <=> server')
    BY <1>1, <1>5, <1>15 DEF At, Means, peers
  <2>3. t # "main" => m.ph = "up" /\ m.sv = "open"
    BY <1>1, <1>15 DEF At
  <2> QED
    BY <1>11, <1>14, <2>1, <2>2, <2>3 DEF At
<1>17. Ready(t)'
  BY <1>0, <1>1, <1>5, <1>16, WalkNothing, ReadyNext
<1>18. ASSUME NEW u \in Threads, u # t PROVE Ready(u)'
  <2>1. Ready(u) /\ todo'[u] = todo[u]
    BY <1>0, <1>5, <1>18 DEF Invariant, Types
  <2>2. \A h \in Locks : owner[h] = u <=> owner'[h] = u
    BY <1>5, <1>6, <1>10, <1>18, ThreadNames
  <2>3. \A h \in Locks : owner[h] = u => depth'[h] = depth[h]
    BY <1>5, <1>6, <1>10, <1>18, ThreadNames
  <2>4. (server' <=> server) /\ \A h \in Stages : Means(h) => Means(h)'
    BY <1>5 DEF peers, Means
  <2> QED
    BY <1>12, <2>1, <2>2, <2>3, <2>4, OthersReady
<1>19. Types'
  <2>1. owner' \in [Locks -> Threads \cup {Nobody}] /\ depth' \in [Locks -> Nat]
    <3>1. depth[l] - 1 \in Nat
      BY <1>10
    <3> QED
      BY <3>1, <1>5, <1>6
  <2>2. \A h \in Locks : owner'[h] = Nobody <=> depth'[h] = 0
    <3> SUFFICES ASSUME NEW h \in Locks PROVE owner'[h] = Nobody <=> depth'[h] = 0
      OBVIOUS
    <3>1. CASE h = l
      <4>1. owner'[h] = (IF depth[l] = 1 THEN Nobody ELSE t) /\ depth'[h] = depth[l] - 1
        BY <3>1, <1>5, <1>6, <1>10
      <4>2. depth[l] = 1 <=> depth'[h] = 0
        BY <4>1, <1>10
      <4> QED
        BY <4>1, <4>2, ThreadNames
    <3>2. CASE h # l
      BY <3>2, <1>5, <1>6
    <3> QED
      BY <3>1, <3>2
  <2>3. todo' \in [Threads -> Seq(Instrs)]
    <3>1. <<>> \o Tail(todo[t]) = Tail(todo[t]) /\ Tail(todo[t]) \in Seq(Instrs)
      BY <1>1, CodeAfter
    <3> QED
      BY <3>1, <1>0, <1>5 DEF Types
  <2> QED
    BY <2>1, <2>2, <2>3, <1>0, <1>5 DEF Types, channels, peers
<1>20. ASSUME NoStop, owner'["usr"] = Nobody, NEW p \in Players PROVE StatusOf(p)' \in Agreed
  <2>1. CASE owner["usr"] = Nobody
    BY <2>1, <1>12, <1>20 DEF Invariant
  <2>2. CASE owner["usr"] # Nobody
    <3>1. l = "usr" /\ a.lv["usr"] = 1
      BY <2>2, <1>5, <1>6, <1>10, <1>13, <1>20, ThreadNames
    <3>2. a.st[p] \subseteq Agreed
      BY <3>1, <1>7, <1>13, <1>20 DEF Maps
    <3>3. StatusOf(p) \in a.st[p]
      BY <3>1, <1>1, <1>10, <1>20 DEF At
    <3> QED
      BY <3>2, <3>3, <1>12
  <2> QED
    BY <2>1, <2>2
<1>21. ASSUME NoStop, NEW h \in Locks PROVE depth'[h] <= 4
  <2>1. depth[h] <= 4 /\ depth[h] \in Nat
    BY <1>6, <1>21 DEF Invariant
  <2>2. depth'[h] = depth[h] \/ depth'[h] = depth[h] - 1
    BY <1>5, <1>6
  <2> QED
    BY <2>1, <2>2
<1> QED
  BY <1>17, <1>18, <1>19, <1>20, <1>21 DEF Invariant

(* An instruction that leaves the levels alone.                            *)
LEMMA Begin ==
    ASSUME Invariant, NEW t \in Threads, NEW what, Is(t, what), what \notin {"in", "out", "admit"}
    PROVE  \E a, m, b \in Context : \E i \in Instrs :
              /\ i = Head(todo[t]) /\ i[1] = what /\ Instr(t) = i
              /\ At(t, a) /\ Does(t, a, i, m)
              /\ Walk(t, Tail(todo[t]), m, b) /\ Done(b)
              /\ m.lv = a.lv
              /\ what \notin {"stop", "join", "dispose", "serverPeer", "gone"} => m.ph = a.ph /\ m.sv = a.sv
<1>1. PICK a \in Context, m \in Context, b \in Context :
         At(t, a) /\ Does(t, a, Head(todo[t]), m) /\ Walk(t, Tail(todo[t]), m, b) /\ Done(b)
  BY StepContext DEF Is
<1>2. PICK i : i = Head(todo[t])
  OBVIOUS
<1>3. i \in Instrs /\ i[1] = what /\ Instr(t) = i
  BY <1>1, <1>2 DEF Does, Is, Instr
<1>4. Does(t, a, i, m)
  BY <1>1, <1>2
<1>5. m.lv = a.lv
  BY <1>3, <1>4 DEF Does, Levels
<1>6. what \notin {"stop", "join", "dispose", "serverPeer", "gone"} => m.ph = a.ph /\ m.sv = a.sv
  BY <1>3, <1>4 DEF Does, Life
<1> QED
  BY <1>1, <1>2, <1>3, <1>4, <1>5, <1>6

(* The maps change only with usrCs entered.                                *)
LEMMA MapsAtUsr ==
    ASSUME Types, NEW t \in Threads, NEW a, At(t, a), NEW i, NEW m, Maps(a, i, m),
           i[1] \in MapSteps \cup {"reconnect"}, i[1] # "cancel"
    PROVE  owner["usr"] = t /\ a.lv["usr"] > 0
<1>1. a.lv["usr"] > 0
  BY DEF Maps
<1> QED
  BY <1>1, InsideIs, LockNames

(* An instruction that changes a map and is replaced by nothing.           *)
LEMMA FateStep ==
    ASSUME Invariant, NEW t \in Threads, UNCHANGED locks, UNCHANGED peers,
           NEW a \in Context, NEW m \in Context, NEW b \in Context, At(t, a),
           NEW what \in MapSteps, NEW p \in Players, Does(t, a, <<what, p>>, m),
           Walk(t, Tail(todo[t]), m, b), Done(b),
           todo' = [todo EXCEPT ![t] = <<>> \o Tail(@)],
           StatusOf(p)' \in Fates(what, StatusOf(p)),
           \A r \in Players : r # p => StatusOf(r)' = StatusOf(r),
           what = "cancel" => StatusOf(p)' = StatusOf(p),
           users' \subseteq Players, opened' \subseteq Players, routed' \subseteq Players, kicks' \subseteq Players
    PROVE  Invariant'
<1> DEFINE i == <<what, p>>
<1>1. i[1] = what /\ i[2] = p /\ Does(t, a, i, m)
  OBVIOUS
<1> HIDE DEF i
<1>2. m.lv = a.lv /\ m.ph = a.ph /\ m.sv = a.sv
  BY <1>1 DEF Does, Levels, Life, MapSteps
<1>3. NoStop => Rest(m) /\ Maps(a, i, m)
  BY <1>1 DEF Does, Maps
<1>4. ASSUME NoStop, owner["usr"] = t, NEW r \in Players PROVE StatusOf(r)' \in m.st[r]
  <2>1. StatusOf(r) \in a.st[r] /\ StatusOf(p) \in a.st[p]
    BY <1>4 DEF At
  <2>2. \A s \in a.st[p] : Fates(what, s) \subseteq m.st[p]
    BY <1>1, <1>3, <1>4 DEF Maps
  <2>3. r # p => a.st[r] \subseteq m.st[r]
    BY <1>1, <1>3, <1>4 DEF Maps
  <2>4. CASE r = p
    <3>1. PICK s \in a.st[p] : s = StatusOf(p)
      BY <2>1
    <3>2. StatusOf(p)' \in Fates(what, s)
      BY <3>1
    <3> QED
      BY <3>2, <2>2, <2>4
  <2>5. CASE r # p
    BY <2>1, <2>3, <2>5
  <2> QED
    BY <2>4, <2>5
<1>5. ASSUME NoStop, owner["usr"] # t, NEW r \in Players PROVE StatusOf(r)' = StatusOf(r)
  <2>1. what = "cancel"
    <3>1. SUFFICES ASSUME what # "cancel" PROVE FALSE
      OBVIOUS
    <3>2. owner["usr"] = t
      BY <3>1, <1>1, <1>3, <1>5, MapsAtUsr DEF Invariant
    <3> QED
      BY <3>2, <1>5
  <2> QED
    BY <2>1
<1> QED
  BY <1>2, <1>3, <1>4, <1>5, WalkNothing, ChannelStep

(* unregisterChannel.                                                      *)
LEMMA UnrouteKeeps ==
    ASSUME Invariant, NEW t \in Threads, Unroute(t)
    PROVE  Invariant'
<1>1. PICK a \in Context, m \in Context, b \in Context, i \in Instrs :
         /\ i[1] = "unroute" /\ Instr(t) = i
         /\ At(t, a) /\ Does(t, a, i, m) /\ Walk(t, Tail(todo[t]), m, b) /\ Done(b)
  BY Begin DEF Unroute
<1>2. PICK p \in Players : i = <<"unroute", p>> /\ Instr(t)[2] = p
  BY <1>1, Shape DEF OfPlayer
<1>3. /\ routed' = routed \ {p} /\ UNCHANGED <<locks, users, opened, kicks, peers>>
      /\ todo' = [todo EXCEPT ![t] = <<>> \o Tail(@)]
  BY <1>2 DEF Unroute, Continue
<1>4. StatusOf(p)' = StatusOf(p) \ {"route"} /\ \A r \in Players : r # p => StatusOf(r)' = StatusOf(r)
  BY <1>3 DEF StatusOf, Facts
<1>5. StatusOf(p)' \in Fates("unroute", StatusOf(p))
  BY <1>4 DEF Fates
<1>6. /\ users' \subseteq Players /\ opened' \subseteq Players
      /\ routed' \subseteq Players /\ kicks' \subseteq Players
  BY <1>3 DEF Invariant, Types
<1>7. "unroute" \in MapSteps /\ Does(t, a, <<"unroute", p>>, m)
  BY <1>1, <1>2 DEF MapSteps
<1> QED
  BY <1>1, <1>3, <1>4, <1>5, <1>6, <1>7, FateStep

(* registerChannel.                                                        *)
LEMMA RegisterKeeps ==
    ASSUME Invariant, NEW t \in Threads, Register(t)
    PROVE  Invariant'
<1>1. PICK a \in Context, m \in Context, b \in Context, i \in Instrs :
         /\ i[1] = "register" /\ Instr(t) = i
         /\ At(t, a) /\ Does(t, a, i, m) /\ Walk(t, Tail(todo[t]), m, b) /\ Done(b)
  BY Begin DEF Register
<1>2. PICK p \in Players : i = <<"register", p>> /\ Instr(t)[2] = p
  BY <1>1, Shape DEF OfPlayer
<1>3. /\ routed' = routed \cup {p} /\ UNCHANGED <<locks, users, opened, kicks, peers>>
      /\ todo' = [todo EXCEPT ![t] = <<>> \o Tail(@)]
  BY <1>2 DEF Register, Continue
<1>4. StatusOf(p)' = StatusOf(p) \cup {"route"} /\ \A r \in Players : r # p => StatusOf(r)' = StatusOf(r)
  BY <1>3 DEF StatusOf, Facts
<1>5. StatusOf(p)' \in Fates("register", StatusOf(p))
  BY <1>4 DEF Fates
<1>6. /\ users' \subseteq Players /\ opened' \subseteq Players
      /\ routed' \subseteq Players /\ kicks' \subseteq Players
  BY <1>3 DEF Invariant, Types
<1>7. "register" \in MapSteps /\ Does(t, a, <<"register", p>>, m)
  BY <1>1, <1>2 DEF MapSteps
<1> QED
  BY <1>1, <1>3, <1>4, <1>5, <1>6, <1>7, FateStep

(* NetChannelBasic::open.                                                  *)
LEMMA OpenKeeps ==
    ASSUME Invariant, NEW t \in Threads, Open(t)
    PROVE  Invariant'
<1>1. PICK a \in Context, m \in Context, b \in Context, i \in Instrs :
         /\ i[1] = "open" /\ Instr(t) = i
         /\ At(t, a) /\ Does(t, a, i, m) /\ Walk(t, Tail(todo[t]), m, b) /\ Done(b)
  BY Begin DEF Open
<1>2. PICK p \in Players : i = <<"open", p>> /\ Instr(t)[2] = p
  BY <1>1, Shape DEF OfPlayer
<1>3. /\ opened' = opened \cup {p} /\ UNCHANGED <<locks, users, routed, kicks, peers>>
      /\ todo' = [todo EXCEPT ![t] = <<>> \o Tail(@)]
  BY <1>2 DEF Open, Continue
<1>4. StatusOf(p)' = StatusOf(p) \cup {"open"} /\ \A r \in Players : r # p => StatusOf(r)' = StatusOf(r)
  BY <1>3 DEF StatusOf, Facts
<1>5. StatusOf(p)' \in Fates("open", StatusOf(p))
  BY <1>4 DEF Fates
<1>6. /\ users' \subseteq Players /\ opened' \subseteq Players
      /\ routed' \subseteq Players /\ kicks' \subseteq Players
  BY <1>3 DEF Invariant, Types
<1>7. "open" \in MapSteps /\ Does(t, a, <<"open", p>>, m)
  BY <1>1, <1>2 DEF MapSteps
<1> QED
  BY <1>1, <1>3, <1>4, <1>5, <1>6, <1>7, FateStep

(* The player is put into the user map.                                    *)
LEMMA PutKeeps ==
    ASSUME Invariant, NEW t \in Threads, Put(t)
    PROVE  Invariant'
<1>1. PICK a \in Context, m \in Context, b \in Context, i \in Instrs :
         /\ i[1] = "put" /\ Instr(t) = i
         /\ At(t, a) /\ Does(t, a, i, m) /\ Walk(t, Tail(todo[t]), m, b) /\ Done(b)
  BY Begin DEF Put
<1>2. PICK p \in Players : i = <<"put", p>> /\ Instr(t)[2] = p
  BY <1>1, Shape DEF OfPlayer
<1>3. /\ users' = users \cup {p} /\ UNCHANGED <<locks, opened, routed, kicks, peers>>
      /\ todo' = [todo EXCEPT ![t] = <<>> \o Tail(@)]
  BY <1>2 DEF Put, Continue
<1>4. StatusOf(p)' = StatusOf(p) \cup {"user"} /\ \A r \in Players : r # p => StatusOf(r)' = StatusOf(r)
  BY <1>3 DEF StatusOf, Facts
<1>5. StatusOf(p)' \in Fates("put", StatusOf(p))
  BY <1>4 DEF Fates
<1>6. /\ users' \subseteq Players /\ opened' \subseteq Players
      /\ routed' \subseteq Players /\ kicks' \subseteq Players
  BY <1>3 DEF Invariant, Types
<1>7. "put" \in MapSteps /\ Does(t, a, <<"put", p>>, m)
  BY <1>1, <1>2 DEF MapSteps
<1> QED
  BY <1>1, <1>3, <1>4, <1>5, <1>6, <1>7, FateStep

(* finishDestroyPlayer: the player whose number is found leaves the user map, and a channel that is
   open without a player is closed next. *)
LEMMA RemoveKeeps ==
    ASSUME Invariant, NEW t \in Threads, RemoveUser(t)
    PROVE  Invariant'
<1>0. Types
  BY DEF Invariant
<1>1. PICK a \in Context, m \in Context, b \in Context, i \in Instrs :
         /\ i[1] = "remove" /\ Instr(t) = i
         /\ At(t, a) /\ Does(t, a, i, m) /\ Walk(t, Tail(todo[t]), m, b) /\ Done(b)
         /\ m.lv = a.lv /\ m.ph = a.ph /\ m.sv = a.sv
  BY Begin DEF RemoveUser
<1>2. PICK p \in Players : i = <<"remove", p>> /\ Instr(t)[2] = p
  BY <1>1, Shape DEF OfPlayer
<1>3. /\ users' = users \ {p} /\ UNCHANGED <<locks, opened, routed, kicks, peers>>
      /\ Continue(t, IF p \in users THEN <<To("close", p)>> ELSE <<>>)
  BY <1>2 DEF RemoveUser
<1>4. StatusOf(p)' = StatusOf(p) \ {"user"} /\ \A r \in Players : r # p => StatusOf(r)' = StatusOf(r)
  BY <1>3 DEF StatusOf, Facts
<1>5. /\ users' \subseteq Players /\ opened' \subseteq Players
      /\ routed' \subseteq Players /\ kicks' \subseteq Players
  BY <1>0, <1>3 DEF Types
<1>6. "remove" \in MapSteps /\ Does(t, a, <<"remove", p>>, m) /\ i[1] = "remove" /\ i[2] = p
  BY <1>1, <1>2 DEF MapSteps
<1>7. ASSUME NoStop
      PROVE  /\ owner["usr"] = t /\ a.lv["usr"] > 0 /\ Rest(a)
             /\ \A s \in a.st[p] : "user" \in s => s = Facts /\ Room(a.lv, p)
             /\ \A s \in a.st[p] : Removed(s) \in m.st[p]
             /\ \A r \in Players : r # p => a.st[r] \subseteq m.st[r]
             /\ \A r \in Players : StatusOf(r) \in a.st[r]
  <2>1. Maps(a, i, m)
    BY <1>1, <1>7 DEF Does
  <2>2. owner["usr"] = t /\ a.lv["usr"] > 0
    BY <1>0, <1>1, <1>6, <2>1, MapsAtUsr
  <2>3. Rest(a) /\ \A r \in Players : StatusOf(r) \in a.st[r]
    BY <1>1, <1>7, <2>2 DEF At
  <2>4. \A s \in a.st[p] : "user" \in s => s = Facts /\ Room(a.lv, p)
    BY <1>6, <2>1 DEF Maps
  <2>5. \A s \in a.st[p] : Removed(s) \in m.st[p]
    <3>1. \A s \in a.st[p] : Fates("remove", s) \subseteq m.st[p]
      BY <1>6, <2>1 DEF Maps
    <3> QED
      BY <3>1 DEF Fates
  <2>6. \A r \in Players : r # p => a.st[r] \subseteq m.st[r]
    BY <1>6, <2>1 DEF Maps
  <2> QED
    BY <2>2, <2>3, <2>4, <2>5, <2>6
<1>8. CASE p \notin users
  <2>1. todo' = [todo EXCEPT ![t] = <<>> \o Tail(@)]
    BY <1>3, <1>8 DEF Continue
  <2>2. "user" \notin StatusOf(p)
    BY <1>8 DEF StatusOf
  <2>3. StatusOf(p)' = StatusOf(p) /\ Removed(StatusOf(p)) = StatusOf(p)
    BY <1>4, <2>2 DEF Removed
  <2>4. StatusOf(p)' \in Fates("remove", StatusOf(p))
    BY <2>3 DEF Fates
  <2> QED
    BY <1>1, <1>3, <1>4, <1>5, <1>6, <2>1, <2>4, FateStep
<1>9. CASE p \in users
  <2> DEFINE S == [r \in Players |-> IF r = p THEN {{"open", "route"}} ELSE a.st[r]]
             c == With(a, S)
             code == <<To("close", p)>>
  <2>1. todo' = [todo EXCEPT ![t] = code \o Tail(@)]
    BY <1>3, <1>9 DEF Continue
  <2>2. S \in [Players -> SUBSET SUBSET Facts]
    BY Contexts DEF Facts
  <2>3. c \in Context /\ c.lv = a.lv /\ c.st = S /\ c.ph = a.ph /\ c.sv = a.sv
    BY <2>2, Contexts DEF With
  <2>4. c.st[p] = {{"open", "route"}} /\ \A r \in Players : r # p => c.st[r] = a.st[r]
    BY <2>3
  <2> HIDE DEF S, c
  <2>5. OnlyOf(c.lv, p)
    BY <1>1, <1>6, <2>3 DEF Does, Orders
  <2>6. NoStop => StatusOf(p) = Facts /\ Room(c.lv, p)
    BY <1>7, <1>9, <2>3 DEF StatusOf, Facts
  <2>7. NoStop => \A s \in c.st[p] : "user" \notin s /\ Closed(s) \in m.st[p]
    <3>1. NoStop => Removed(Facts) \in m.st[p]
      BY <1>7, <2>6
    <3>2. Removed(Facts) = {} /\ Closed({"open", "route"}) = {} /\ "user" \notin {"open", "route"}
      BY DEF Removed, Closed, Facts
    <3> QED
      BY <2>4, <3>1, <3>2
  <2>8. Does(t, c, To("close", p), m)
    <3>1. NoStop => \A s \in c.st[p] : "user" \notin s /\ ("open" \in s => Room(c.lv, p))
      BY <2>6, <2>7
    <3>2. NoStop => \A r \in Players : r # p => c.st[r] \subseteq m.st[r]
      BY <1>7, <2>4
    <3> QED
      BY <1>1, <1>7, <2>3, <2>5, <2>7, <3>1, <3>2, CloseDoes
  <2>9. Walk(t, code, c, m)
    BY <2>3, <2>8, WalkOne
  <2>10. NoStop => Rest(c)
    BY <1>7, <2>3 DEF Rest
  <2>11. ASSUME NoStop, NEW r \in Players PROVE StatusOf(r)' \in c.st[r]
    <3>1. CASE r = p
      <4>1. StatusOf(p)' = {"open", "route"}
        BY <1>4, <2>6, <2>11 DEF Facts
      <4> QED
        BY <3>1, <4>1, <2>4
    <3>2. CASE r # p
      BY <3>2, <1>4, <1>7, <2>4, <2>11
    <3> QED
      BY <3>1, <3>2
  <2> HIDE DEF code
  <2> QED
    BY <1>1, <1>3, <1>5, <1>7, <2>1, <2>3, <2>9, <2>10, <2>11, ChannelStep
<1> QED
  BY <1>8, <1>9

(* NetChannelBasic::close: the channel is closed, and a route without a channel is given up.*)
LEMMA CloseKeeps ==
    ASSUME Invariant, NEW t \in Threads, Close(t)
    PROVE  Invariant'
<1>0. Types
  BY DEF Invariant
<1>1. PICK a \in Context, m \in Context, b \in Context, i \in Instrs :
         /\ i[1] = "close" /\ Instr(t) = i
         /\ At(t, a) /\ Does(t, a, i, m) /\ Walk(t, Tail(todo[t]), m, b) /\ Done(b)
         /\ m.lv = a.lv /\ m.ph = a.ph /\ m.sv = a.sv
  BY Begin DEF Close
<1>2. PICK p \in Players : i = <<"close", p>> /\ Instr(t)[2] = p
  BY <1>1, Shape DEF OfPlayer
<1>3. /\ opened' = opened \ {p} /\ UNCHANGED <<locks, users, routed, kicks, peers>>
      /\ Continue(t, IF p \in opened
                     THEN Within(p, <<To("cancel", p)>>) \o <<To("unroute", p)>> \o Use(p)
                     ELSE <<>>)
  BY <1>2 DEF Close
<1>4. StatusOf(p)' = StatusOf(p) \ {"open"} /\ \A r \in Players : r # p => StatusOf(r)' = StatusOf(r)
  BY <1>3 DEF StatusOf, Facts
<1>5. /\ users' \subseteq Players /\ opened' \subseteq Players
      /\ routed' \subseteq Players /\ kicks' \subseteq Players
  BY <1>0, <1>3 DEF Types
<1>6. "close" \in MapSteps /\ Does(t, a, <<"close", p>>, m) /\ i[1] = "close" /\ i[2] = p
  BY <1>1, <1>2 DEF MapSteps
<1>7. ASSUME NoStop
      PROVE  /\ owner["usr"] = t /\ a.lv["usr"] > 0 /\ Rest(a) /\ Rest(m)
             /\ \A s \in a.st[p] : "user" \notin s /\ ("open" \in s => Room(a.lv, p))
             /\ \A s \in a.st[p] : Closed(s) \in m.st[p]
             /\ \A r \in Players : r # p => a.st[r] \subseteq m.st[r]
             /\ \A r \in Players : StatusOf(r) \in a.st[r]
  <2>1. Maps(a, i, m)
    BY <1>1, <1>7 DEF Does
  <2>2. owner["usr"] = t /\ a.lv["usr"] > 0
    BY <1>0, <1>1, <1>6, <2>1, MapsAtUsr
  <2>3. Rest(a) /\ Rest(m) /\ \A r \in Players : StatusOf(r) \in a.st[r]
    BY <1>1, <1>7, <2>1, <2>2 DEF At, Maps
  <2>4. \A s \in a.st[p] : "user" \notin s /\ ("open" \in s => Room(a.lv, p))
    BY <1>6, <2>1 DEF Maps
  <2>5. \A s \in a.st[p] : Closed(s) \in m.st[p]
    <3>1. \A s \in a.st[p] : Fates("close", s) \subseteq m.st[p]
      BY <1>6, <2>1 DEF Maps
    <3> QED
      BY <3>1 DEF Fates
  <2>6. \A r \in Players : r # p => a.st[r] \subseteq m.st[r]
    BY <1>6, <2>1 DEF Maps
  <2> QED
    BY <2>2, <2>3, <2>4, <2>5, <2>6
<1>8. CASE p \notin opened
  <2>1. todo' = [todo EXCEPT ![t] = <<>> \o Tail(@)]
    BY <1>3, <1>8 DEF Continue
  <2>2. "open" \notin StatusOf(p)
    BY <1>8 DEF StatusOf
  <2>3. StatusOf(p)' = StatusOf(p) /\ Closed(StatusOf(p)) = StatusOf(p)
    BY <1>4, <2>2 DEF Closed
  <2>4. StatusOf(p)' \in Fates("close", StatusOf(p))
    BY <2>3 DEF Fates
  <2> QED
    BY <1>1, <1>3, <1>4, <1>5, <1>6, <2>1, <2>4, FateStep
<1>9. CASE p \in opened
  <2> DEFINE S == [r \in Players |-> IF r = p THEN {x \in SUBSET Facts : "user" \notin x /\ "open" \notin x} ELSE a.st[r]]
             c == With(a, S)
             code == Within(p, <<To("cancel", p)>>) \o <<To("unroute", p)>> \o Use(p)
  <2>1. todo' = [todo EXCEPT ![t] = code \o Tail(@)]
    BY <1>3, <1>9 DEF Continue
  <2>2. S \in [Players -> SUBSET SUBSET Facts]
    BY Contexts DEF Facts
  <2>3. c \in Context /\ c.lv = a.lv /\ c.st = S /\ c.ph = a.ph /\ c.sv = a.sv
    BY <2>2, Contexts DEF With
  <2>4. /\ c.st[p] = {x \in SUBSET Facts : "user" \notin x /\ "open" \notin x}
        /\ \A r \in Players : r # p => c.st[r] = a.st[r]
    BY <2>3
  <2> HIDE DEF S, c
  <2>5. OnlyOf(c.lv, p)
    BY <1>1, <1>6, <2>3 DEF Does, Orders
  <2>6. "open" \in StatusOf(p) /\ StatusOf(p) \in SUBSET Facts
    BY <1>9 DEF StatusOf, Facts
  <2>7. NoStop => /\ Room(c.lv, p) /\ {} \in m.st[p] /\ "user" \notin StatusOf(p)
    <3>1. Closed(StatusOf(p)) = {}
      BY <2>6 DEF Closed
    <3>2. NoStop => StatusOf(p) \in a.st[p]
      BY <1>7
    <3> QED
      BY <3>1, <3>2, <1>7, <2>3, <2>6
  <2>8. NoStop => Rest(c)
    BY <1>7, <2>3 DEF Rest
  <2>9. Walk(t, code, c, m)
    <3>1. NoStop => \A r \in Players : r # p => c.st[r] \subseteq m.st[r]
      BY <1>7, <2>4
    <3>2. \A s \in c.st[p] : "user" \notin s /\ "open" \notin s
      BY <2>4
    <3> QED
      BY <1>1, <1>7, <2>3, <2>5, <2>7, <2>8, <3>1, <3>2, CloseWalk
  <2>10. ASSUME NoStop, NEW r \in Players PROVE StatusOf(r)' \in c.st[r]
    <3>1. CASE r = p
      <4>1. PICK s : s = StatusOf(p)'
        OBVIOUS
      <4>2. s = StatusOf(p) \ {"open"}
        BY <1>4, <4>1
      <4>3. s \in SUBSET Facts /\ "user" \notin s /\ "open" \notin s
        BY <4>2, <2>6, <2>7, <2>10
      <4> QED
        BY <3>1, <4>1, <4>3, <2>4
    <3>2. CASE r # p
      BY <3>2, <1>4, <1>7, <2>4, <2>10
    <3> QED
      BY <3>1, <3>2
  <2> HIDE DEF code
  <2> QED
    BY <1>1, <1>3, <1>5, <1>7, <2>1, <2>3, <2>8, <2>9, <2>10, ChannelStep
<1> QED
  BY <1>8, <1>9

(* cancelAllMessages: what the call-back does is a walk of its own.        *)
LEMMA CancelKeeps ==
    ASSUME Invariant, NEW t \in Threads, Cancel(t)
    PROVE  Invariant'
<1>0. Types
  BY DEF Invariant
<1>1. PICK a \in Context, m \in Context, b \in Context, i \in Instrs :
         /\ i[1] = "cancel" /\ Instr(t) = i
         /\ At(t, a) /\ Does(t, a, i, m) /\ Walk(t, Tail(todo[t]), m, b) /\ Done(b)
         /\ m.lv = a.lv /\ m.ph = a.ph /\ m.sv = a.sv
  BY Begin DEF Cancel
<1>2. PICK p \in Players : i = <<"cancel", p>> /\ Instr(t)[2] = p
  BY <1>1, Shape DEF OfPlayer
<1>3. /\ kicks' = kicks \ {p} /\ UNCHANGED <<locks, users, opened, routed, peers>>
      /\ Continue(t, IF p \in kicks THEN DestroyCallback(p) ELSE <<>>)
  BY <1>2 DEF Cancel
<1>4. \A r \in Players : StatusOf(r)' = StatusOf(r)
  BY <1>3 DEF StatusOf
<1>5. /\ users' \subseteq Players /\ opened' \subseteq Players
      /\ routed' \subseteq Players /\ kicks' \subseteq Players
  BY <1>0, <1>3 DEF Types
<1>6. "cancel" \in MapSteps /\ Does(t, a, <<"cancel", p>>, m) /\ i[1] = "cancel" /\ i[2] = p
  BY <1>1, <1>2 DEF MapSteps
<1>7. CASE p \notin kicks
  <2>1. todo' = [todo EXCEPT ![t] = <<>> \o Tail(@)]
    BY <1>3, <1>7 DEF Continue
  <2>2. StatusOf(p)' \in Fates("cancel", StatusOf(p))
    BY <1>4 DEF Fates
  <2> QED
    BY <1>1, <1>3, <1>4, <1>5, <1>6, <2>1, <2>2, FateStep
<1>8. CASE p \in kicks
  <2>1. PICK code : code = DestroyCallback(p)
    OBVIOUS
  <2>2. todo' = [todo EXCEPT ![t] = code \o Tail(@)]
    BY <1>3, <1>8, <2>1 DEF Continue
  <2>3. PICK body : body = IF server THEN FinishDestroy(p) ELSE <<>>
    OBVIOUS
  <2>4. body \in {FinishDestroy(p), <<>>} /\ code = Within("pool", body)
    BY <2>1, <2>3 DEF DestroyCallback
  <2>5. OnlyOf(a.lv, p) /\ a.lv[p] > 0
    BY <1>1, <1>6 DEF Does, Orders
  <2>6. ASSUME NoStop
        PROVE  /\ Rest(a) /\ Rest(m) /\ a.lv["pool"] <= 3 /\ a.lv["usr"] <= 3
               /\ \A s \in a.st[p] : "user" \in s =>
                     s = Facts /\ a.lv[p] <= 3 /\ a.lv["pool"] <= 2 /\ a.lv["usr"] <= 2
               /\ \A s \in a.st[p] : s \in m.st[p] /\ Removed(s) \in m.st[p]
               /\ \A r \in Players : r # p => a.st[r] \subseteq m.st[r]
    <3>1. Maps(a, i, m)
      BY <1>1, <2>6 DEF Does
    <3>2. Rest(a) /\ Rest(m) /\ a.lv["pool"] <= 3 /\ a.lv["usr"] <= 3
      BY <1>6, <3>1 DEF Maps
    <3>3. \A s \in a.st[p] : "user" \in s =>
                     s = Facts /\ a.lv[p] <= 3 /\ a.lv["pool"] <= 2 /\ a.lv["usr"] <= 2
      BY <1>6, <3>1 DEF Maps
    <3>4. \A s \in a.st[p] : Fates("cancel", s) \subseteq m.st[p]
      BY <1>6, <3>1 DEF Maps
    <3>5. \A s \in a.st[p] : s \in m.st[p] /\ Removed(s) \in m.st[p]
      BY <3>4 DEF Fates
    <3>6. \A r \in Players : r # p => a.st[r] \subseteq m.st[r]
      BY <1>6, <3>1 DEF Maps
    <3> QED
      BY <3>2, <3>3, <3>5, <3>6
  <2>7. Walk(t, Within("pool", body), a, m)
    BY <1>1, <2>4, <2>5, <2>6, CallbackWalk
  <2>8. Walk(t, code, a, m)
    BY <2>4, <2>7
  <2> QED
    BY <1>1, <1>3, <1>5, <2>2, <2>8, QuietStep
<1> QED
  BY <1>7, <1>8

(* A channel's section, entered with no other channel's held.              *)
LEMMA UseNow ==
    ASSUME NEW t \in Threads, NEW a \in Context, NEW p \in Players, NoneOf(a.lv), NoStop => Rest(a)
    PROVE  Walk(t, Use(p), a, a) /\ OnlyOf(a.lv, p) /\ MayEnter(t, a.lv, p) /\ p \in Locks /\ a.lv[p] = 0
<1>1. OnlyOf(a.lv, p) /\ a.lv[p] = 0
  BY DEF OnlyOf, NoneOf
<1>2. a.lv \in [Locks -> Nat]
  BY Contexts
<1>3. MayEnter(t, a.lv, p) /\ p \in Locks
  BY <1>1, <1>2, EnterPlayer
<1> QED
  BY <1>1, <1>3, UseWalk

(* A quiet instruction, replaced by something that leaves everything as it was. *)
LEMMA QuietMove ==
    ASSUME Invariant, NEW t \in Threads, UNCHANGED locks, UNCHANGED peers, UNCHANGED <<users, opened, routed>>,
           kicks' \subseteq Players,
           NEW code, NEW a \in Context, NEW m \in Context, NEW b \in Context, NEW i, At(t, a), Does(t, a, i, m),
           i[1] \notin MapSteps \cup {"in", "out", "admit"}, m.lv = a.lv, m.ph = a.ph, m.sv = a.sv,
           Walk(t, code, m, m), Walk(t, Tail(todo[t]), m, b), Done(b),
           todo' = [todo EXCEPT ![t] = code \o Tail(@)]
    PROVE  Invariant'
<1>1. \A r \in Players : StatusOf(r)' = StatusOf(r)
  BY DEF StatusOf
<1>2. /\ users' \subseteq Players /\ opened' \subseteq Players /\ routed' \subseteq Players
  BY DEF Invariant, Types
<1>3. NoStop => Rest(m)
  BY DEF Does, Maps
<1>4. ASSUME NoStop, owner["usr"] = t, NEW r \in Players PROVE StatusOf(r)' \in m.st[r]
  <2>1. a.st[r] \subseteq m.st[r]
    BY <1>4 DEF Does, Maps
  <2>2. StatusOf(r) \in a.st[r]
    BY <1>4 DEF At
  <2> QED
    BY <2>1, <2>2, <1>1
<1> QED
  BY <1>1, <1>2, <1>3, <1>4, ChannelStep

(* destroyPlayer queues the TERMINATE message.                             *)
LEMMA QueueKickKeeps ==
    ASSUME Invariant, NEW t \in Threads, QueueKick(t)
    PROVE  Invariant'
<1>0. Types
  BY DEF Invariant
<1>1. PICK a \in Context, m \in Context, b \in Context, i \in Instrs :
         /\ i[1] = "kick" /\ Instr(t) = i
         /\ At(t, a) /\ Does(t, a, i, m) /\ Walk(t, Tail(todo[t]), m, b) /\ Done(b)
         /\ m.lv = a.lv /\ m.ph = a.ph /\ m.sv = a.sv
  BY Begin DEF QueueKick
<1>2. PICK p \in Players : i = <<"kick", p>> /\ Instr(t)[2] = p
  BY <1>1, Shape DEF OfPlayer
<1>3. /\ kicks' = kicks \cup ({p} \cap users) /\ UNCHANGED <<locks, users, opened, routed, peers>>
      /\ Continue(t, IF p \in users THEN Use(p) ELSE <<>>)
  BY <1>2 DEF QueueKick
<1>4. kicks' \subseteq Players
  BY <1>0, <1>3 DEF Types
<1>5. PICK code : code = IF p \in users THEN Use(p) ELSE <<>>
  OBVIOUS
<1>6. todo' = [todo EXCEPT ![t] = code \o Tail(@)]
  BY <1>3, <1>5 DEF Continue
<1>7. NoneOf(m.lv) /\ (NoStop => Rest(m))
  BY <1>1 DEF Does, Orders, Maps
<1>8. Walk(t, code, m, m)
  BY <1>1, <1>5, <1>7, UseNow, WalkNothing
<1>9. i[1] \notin MapSteps \cup {"in", "out", "admit"}
  BY <1>1 DEF MapSteps
<1> QED
  BY <1>1, <1>3, <1>4, <1>6, <1>8, <1>9, QuietMove

(* ~NetServer queues them for everybody.                                   *)
LEMMA KickAllKeeps ==
    ASSUME Invariant, NEW t \in Threads, KickAll(t)
    PROVE  Invariant'
<1>0. Types
  BY DEF Invariant
<1>1. PICK a \in Context, m \in Context, b \in Context, i \in Instrs :
         /\ i[1] = "kickAll" /\ Instr(t) = i
         /\ At(t, a) /\ Does(t, a, i, m) /\ Walk(t, Tail(todo[t]), m, b) /\ Done(b)
         /\ m.lv = a.lv /\ m.ph = a.ph /\ m.sv = a.sv
  BY Begin DEF KickAll
<1>2. /\ kicks' = kicks \cup users /\ UNCHANGED <<locks, users, opened, routed, peers>>
      /\ Continue(t, <<Each("use", users)>>)
  BY DEF KickAll
<1>3. kicks' \subseteq Players
  BY <1>0, <1>2 DEF Types
<1>4. PICK S : S = users
  OBVIOUS
<1>5. todo' = [todo EXCEPT ![t] = <<Each("use", S)>> \o Tail(@)]
  BY <1>2, <1>4 DEF Continue
<1>6. S \subseteq Players
  BY <1>0, <1>4 DEF Types
<1>7. NoneOf(m.lv) /\ ~NoStop
  BY <1>1 DEF Does, Orders, Maps
<1>8. Each("use", S) = <<"each", "use", S>> /\ Each("use", S) \in Instrs
  BY <1>6 DEF Each, Instrs
<1>9. Does(t, m, Each("use", S), m)
  <2>1. Orders(t, m.lv, Each("use", S)) /\ Life(m, Each("use", S), m)
    BY <1>7, <1>8 DEF Orders, Life, To
  <2> QED
    BY <1>7, <1>8, <2>1, QuietDoes
<1>10. Walk(t, <<Each("use", S)>>, m, m)
  BY <1>9, WalkOne
<1>11. i[1] \notin MapSteps \cup {"in", "out", "admit"}
  BY <1>1 DEF MapSteps
<1> QED
  BY <1>1, <1>2, <1>3, <1>5, <1>10, <1>11, QuietMove

(* DESTRUCT_WAIT.                                                          *)
LEMMA SleepKeeps ==
    ASSUME Invariant, NEW t \in Threads, Sleep(t)
    PROVE  Invariant'
<1>1. PICK a \in Context, m \in Context, b \in Context, i \in Instrs :
         /\ i[1] = "sleep" /\ Instr(t) = i
         /\ At(t, a) /\ Does(t, a, i, m) /\ Walk(t, Tail(todo[t]), m, b) /\ Done(b)
         /\ m.lv = a.lv /\ m.ph = a.ph /\ m.sv = a.sv
  BY Begin DEF Sleep
<1>2. /\ UNCHANGED <<locks, channels, peers>>
      /\ todo' = [todo EXCEPT ![t] = <<>> \o Tail(@)]
  BY DEF Sleep, Continue
<1>3. UNCHANGED <<users, opened, routed>> /\ kicks' \subseteq Players
  BY <1>2 DEF channels, Invariant, Types
<1>4. i[1] \notin MapSteps \cup {"in", "out", "admit"}
  BY <1>1 DEF MapSteps
<1> QED
  BY <1>1, <1>2, <1>3, <1>4, WalkNothing, QuietMove

(* udpSend asks a channel for a message.                                   *)
LEMMA PrepareKeeps ==
    ASSUME Invariant, NEW t \in Threads, Prepare(t)
    PROVE  Invariant'
<1>0. Types
  BY DEF Invariant
<1>1. PICK a \in Context, m \in Context, b \in Context, i \in Instrs :
         /\ i[1] = "prepare" /\ Instr(t) = i
         /\ At(t, a) /\ Does(t, a, i, m) /\ Walk(t, Tail(todo[t]), m, b) /\ Done(b)
         /\ m.lv = a.lv /\ m.ph = a.ph /\ m.sv = a.sv
  BY Begin DEF Prepare
<1>2. /\ UNCHANGED <<locks, channels, peers>>
      /\ (\E p \in routed : Continue(t, Use(p))) \/ Continue(t, <<>>)
  BY DEF Prepare
<1>3. UNCHANGED <<users, opened, routed>> /\ kicks' \subseteq Players
  BY <1>0, <1>2 DEF channels, Types
<1>4. i[1] \notin MapSteps \cup {"in", "out", "admit"}
  BY <1>1 DEF MapSteps
<1>5. NoneOf(m.lv) /\ (NoStop => Rest(m))
  <2>1. Only(m.lv, "peer")
    BY <1>1 DEF Does, Orders
  <2> QED
    BY <2>1, <1>1, LockNames DEF Only, NoneOf, Does, Maps
<1>6. PICK code : Walk(t, code, m, m) /\ todo' = [todo EXCEPT ![t] = code \o Tail(@)]
  <2>1. CASE Continue(t, <<>>)
    BY <2>1, WalkNothing DEF Continue
  <2>2. CASE \E p \in routed : Continue(t, Use(p))
    <3>1. PICK p \in routed : Continue(t, Use(p))
      BY <2>2
    <3>2. p \in Players
      BY <1>0 DEF Types
    <3>3. Walk(t, Use(p), m, m)
      BY <3>2, <1>5, UseNow
    <3> QED
      BY <3>1, <3>3 DEF Continue
  <2> QED
    BY <2>1, <2>2, <1>2
<1> QED
  BY <1>1, <1>2, <1>3, <1>4, <1>6, QuietMove

(* The TERMINATE message is sent and its call-back runs.                   *)
LEMMA SendKickKeeps ==
    ASSUME Invariant, NEW t \in Threads, SendKick(t)
    PROVE  Invariant'
<1>0. Types
  BY DEF Invariant
<1>1. PICK a \in Context, m \in Context, b \in Context, i \in Instrs :
         /\ i[1] = "prepare" /\ Instr(t) = i
         /\ At(t, a) /\ Does(t, a, i, m) /\ Walk(t, Tail(todo[t]), m, b) /\ Done(b)
         /\ m.lv = a.lv /\ m.ph = a.ph /\ m.sv = a.sv
  BY Begin DEF SendKick
<1>2. PICK p \in routed \cap kicks : kicks' = kicks \ {p} /\ Continue(t, Use(p) \o DestroyCallback(p))
  BY DEF SendKick
<1>3. p \in Players
  BY <1>0 DEF Types
<1>4. UNCHANGED <<locks, peers>> /\ UNCHANGED <<users, opened, routed>> /\ kicks' \subseteq Players
  BY <1>0, <1>2 DEF SendKick, Types
<1>5. i[1] \notin MapSteps \cup {"in", "out", "admit"}
  BY <1>1 DEF MapSteps
<1>6. Only(m.lv, "peer") /\ m.lv["peer"] > 0
  BY <1>1 DEF Does, Orders
<1>7. NoneOf(m.lv) /\ (NoStop => Rest(m)) /\ m.lv["usr"] = 0 /\ m.lv["pool"] = 0
  BY <1>6, <1>1, LockNames DEF Only, NoneOf, Does, Maps
<1>8. Walk(t, Use(p), m, m) /\ OnlyOf(m.lv, p) /\ m.lv[p] = 0
  BY <1>3, <1>7, UseNow
<1>9. PICK body : body = IF server THEN FinishDestroy(p) ELSE <<>>
  OBVIOUS
<1>10. body \in {FinishDestroy(p), <<>>} /\ DestroyCallback(p) = Within("pool", body)
  BY <1>9 DEF DestroyCallback
<1>11. ASSUME NoStop, NEW s \in m.st[p] PROVE s \in {Facts, {}} /\ Removed(s) \in m.st[p]
  <2>1. m.st = Calm
    BY <1>7, <1>11 DEF Rest
  <2> QED
    BY <1>3, <1>11, <2>1 DEF Calm, Agreed, Removed
<1>12. \A s \in {Facts, {}} : "user" \in s => s = Facts
  OBVIOUS
<1>13. Walk(t, Within("pool", body), m, m)
  <2>1. m.lv["pool"] <= 3 /\ m.lv["usr"] <= 3 /\ m.lv["pool"] <= 2 /\ m.lv["usr"] <= 2 /\ m.lv[p] <= 3
    BY <1>7, <1>8
  <2>2. \E h \in {"peer"} \cup Players : m.lv[h] > 0
    BY <1>6
  <2>3. NoStop => \A s \in m.st[p] : "user" \in s => s = Facts
    BY <1>11, <1>12
  <2> QED
    BY <1>3, <1>7, <1>8, <1>10, <1>11, <2>1, <2>2, <2>3, CallbackWalk
<1>14. PICK code : code = Use(p) \o DestroyCallback(p)
  OBVIOUS
<1>15. Walk(t, code, m, m)
  BY <1>8, <1>10, <1>13, <1>14, WalkOn
<1>16. todo' = [todo EXCEPT ![t] = code \o Tail(@)]
  BY <1>2, <1>14 DEF Continue
<1> QED
  BY <1>1, <1>4, <1>5, <1>15, <1>16, QuietMove

(* The turns of a loop.                                                    *)
LEMMA TurnsWalk ==
    ASSUME NEW t \in Threads, NEW a \in Context, NEW p \in Players, NEW what \in {"use", "close", "cancel"},
           NoneOf(a.lv),
           NoStop => /\ Rest(a) /\ what # "close" /\ a.lv["usr"] <= 2 /\ a.lv["pool"] <= 2
                     /\ (what = "cancel" => a.lv["usr"] = 0)
    PROVE  Walk(t, Turns(what, p), a, a)
<1>1. Walk(t, Use(p), a, a) /\ OnlyOf(a.lv, p) /\ MayEnter(t, a.lv, p) /\ p \in Locks /\ a.lv[p] = 0
  BY UseNow
<1>2. CASE what = "use"
  BY <1>1, <1>2 DEF Turns
<1>3. CASE what = "close"
  <2>1. Does(t, a, To("close", p), a)
    BY <1>1, <1>3, CloseDoes
  <2>2. Walk(t, <<To("close", p)>>, a, a)
    BY <2>1, WalkOne
  <2> QED
    BY <1>3, <2>2 DEF Turns
<1>4. CASE what = "cancel"
  <2> DEFINE u == Up(a, p)
  <2>1. /\ u \in Context /\ u.lv[p] = a.lv[p] + 1 /\ u.st = a.st
        /\ \A h \in Locks : h # p => u.lv[h] = a.lv[h]
        /\ (Rest(a) => Rest(u))
    BY <1>1, UpIs
  <2>2. {"usr", "pool"} \subseteq Locks /\ p # "usr" /\ p # "pool" /\ Players \subseteq Locks
    BY LockNames
  <2> HIDE DEF u
  <2>3. OnlyOf(u.lv, p) /\ u.lv[p] = 1 /\ u.lv["usr"] = a.lv["usr"] /\ u.lv["pool"] = a.lv["pool"]
    BY <1>1, <2>1, <2>2 DEF OnlyOf
  <2>4. ASSUME NoStop, NEW s \in u.st[p] PROVE s \in {Facts, {}} /\ Removed(s) \in u.st[p]
    <3>1. u.st = Calm
      BY <1>4, <2>1, <2>4 DEF Rest
    <3> QED
      BY <3>1, <2>4 DEF Calm, Agreed, Removed
  <2>5. \A s \in {Facts, {}} : "user" \in s => s = Facts
    OBVIOUS
  <2>6. NoStop => \A s \in u.st[p] : "user" \in s => s = Facts
    BY <2>4, <2>5
  <2>7. u.lv[p] > 0 /\ u.lv[p] <= 3
    BY <2>3
  <2>8. NoStop => u.lv["usr"] = 0 /\ u.lv["pool"] <= 2 /\ u.lv["pool"] <= 3 /\ u.lv["usr"] <= 3 /\ u.lv["usr"] <= 2
    <3>1. NoStop => u.lv["usr"] = 0 /\ u.lv["pool"] <= 2
      BY <1>4, <2>3
    <3>2. u.lv["pool"] \in Nat
      BY <2>1, <2>2, Contexts
    <3> QED
      BY <3>1, <3>2
  <2>9. Does(t, u, To("cancel", p), u)
    BY <2>1, <2>3, <2>4, <2>6, <2>7, <2>8, CancelDoes
  <2>10. Walk(t, <<To("cancel", p)>>, Up(a, p), Up(a, p))
    BY <2>1, <2>9, WalkOne DEF u
  <2>11. a.lv[p] <= 3
    BY <1>1
  <2>12. Walk(t, Within(p, <<To("cancel", p)>>), a, a)
    BY <1>1, <2>10, <2>11, SectionWalk
  <2> QED
    BY <1>4, <2>12 DEF Turns
<1> QED
  BY <1>2, <1>3, <1>4

(* A turn of a loop.                                                       *)
LEMMA IterateKeeps ==
    ASSUME Invariant, NEW t \in Threads, Iterate(t)
    PROVE  Invariant'
<1>0. Types
  BY DEF Invariant
<1>1. PICK a \in Context, m \in Context, b \in Context, i \in Instrs :
         /\ i[1] = "each" /\ Instr(t) = i
         /\ At(t, a) /\ Does(t, a, i, m) /\ Walk(t, Tail(todo[t]), m, b) /\ Done(b)
         /\ m.lv = a.lv /\ m.ph = a.ph /\ m.sv = a.sv
  BY Begin DEF Iterate
<1>2. PICK what \in {"use", "close", "cancel"}, S \in SUBSET Players : i[2] = what /\ i[3] = S
  BY <1>1, Shape
<1>3. /\ UNCHANGED <<locks, channels, peers>>
      /\ \/ Continue(t, <<>>)
         \/ \E p \in S : Continue(t, Turns(what, p) \o <<Each(what, S \ {p})>>)
  BY <1>1, <1>2 DEF Iterate
<1>4. UNCHANGED <<users, opened, routed>> /\ kicks' \subseteq Players
  BY <1>0, <1>3 DEF channels, Types
<1>5. i[1] \notin MapSteps \cup {"in", "out", "admit"}
  BY <1>1 DEF MapSteps
<1>6. NoneOf(m.lv)
  BY <1>1 DEF Does, Orders
<1>7. NoStop => /\ Rest(m) /\ what # "close" /\ m.lv["usr"] <= 2 /\ m.lv["pool"] <= 2
                /\ (what = "cancel" => m.lv["usr"] = 0)
  BY <1>1, <1>2 DEF Does, Maps
<1>8. PICK code : Walk(t, code, m, m) /\ todo' = [todo EXCEPT ![t] = code \o Tail(@)]
  <2>1. CASE Continue(t, <<>>)
    BY <2>1, WalkNothing DEF Continue
  <2>2. CASE \E p \in S : Continue(t, Turns(what, p) \o <<Each(what, S \ {p})>>)
    <3>1. PICK p \in S : Continue(t, Turns(what, p) \o <<Each(what, S \ {p})>>)
      BY <2>2
    <3>2. Walk(t, Turns(what, p), m, m)
      BY <1>6, <1>7, TurnsWalk
    <3>3. PICK j : j = Each(what, S \ {p})
      OBVIOUS
    <3>4. j \in Instrs /\ j[1] = "each" /\ j[2] = what
      BY <3>3 DEF Each, Instrs
    <3>5. Orders(t, m.lv, j) /\ Life(m, j, m)
      BY <1>6, <3>3, <3>4 DEF Orders, Life, Each, To
    <3>6. Does(t, m, j, m)
      BY <1>7, <3>4, <3>5, QuietDoes
    <3>7. Walk(t, <<j>>, m, m)
      BY <3>6, WalkOne
    <3>8. Walk(t, Turns(what, p) \o <<j>>, m, m)
      BY <3>2, <3>7, WalkOn
    <3> QED
      BY <3>1, <3>3, <3>8 DEF Continue
  <2> QED
    BY <2>1, <2>2, <1>3
<1> QED
  BY <1>1, <1>3, <1>4, <1>5, <1>8, QuietMove

(* NetChannelBasic::reconnect: with usrCs held the player is without a route for a moment.*)
LEMMA RerouteKeeps ==
    ASSUME Invariant, NEW t \in Threads, Reroute(t)
    PROVE  Invariant'
<1>0. Types
  BY DEF Invariant
<1>1. PICK a \in Context, m \in Context, b \in Context, i \in Instrs :
         /\ i[1] = "reconnect" /\ Instr(t) = i
         /\ At(t, a) /\ Does(t, a, i, m) /\ Walk(t, Tail(todo[t]), m, b) /\ Done(b)
         /\ m.lv = a.lv /\ m.ph = a.ph /\ m.sv = a.sv
  BY Begin DEF Reroute
<1>2. PICK p \in Players : i = <<"reconnect", p>> /\ Instr(t)[2] = p
  BY <1>1, Shape DEF OfPlayer
<1>3. /\ UNCHANGED <<locks, channels, peers>>
      /\ Continue(t, IF p \in users
                     THEN Within(p, <<To("unroute", p)>> \o Within("peer", <<To("register", p)>>))
                     ELSE <<>>)
  BY <1>2 DEF Reroute
<1>4. UNCHANGED <<users, opened, routed>> /\ kicks' \subseteq Players
  BY <1>0, <1>3 DEF channels, Types
<1>5. i[1] \notin MapSteps \cup {"in", "out", "admit"}
  BY <1>1 DEF MapSteps
<1>6. t = "listener" /\ NoneOf(m.lv)
  BY <1>1 DEF Does, Orders
<1>7. CASE p \notin users
  <2>1. todo' = [todo EXCEPT ![t] = <<>> \o Tail(@)]
    BY <1>3, <1>7 DEF Continue
  <2> QED
    BY <1>1, <1>3, <1>4, <1>5, <2>1, WalkNothing, QuietMove
<1>8. CASE p \in users
  <2> DEFINE S == [r \in Players |-> IF r = p THEN {Facts} ELSE a.st[r]]
             V == [r \in Players |-> IF r = p THEN {{"user", "open"}} ELSE a.st[r]]
             c == With(m, S)
             u == Up(c, p)
             v == With(u, V)
             w == Up(v, "peer")
             x == With(w, S)
             code == Within(p, <<To("unroute", p)>> \o Within("peer", <<To("register", p)>>))
  <2>0. {"usr", "pool", "peer"} \subseteq Locks /\ p \in Locks /\ p \notin {"usr", "pool", "peer"}
    BY LockNames
  <2>1. todo' = [todo EXCEPT ![t] = code \o Tail(@)]
    BY <1>3, <1>8 DEF Continue
  <2>2. S \in [Players -> SUBSET SUBSET Facts] /\ V \in [Players -> SUBSET SUBSET Facts]
    BY Contexts DEF Facts
  <2>3. c \in Context /\ c.lv = m.lv /\ c.st = S /\ c.ph = m.ph /\ c.sv = m.sv
    BY <2>2, Contexts DEF With
  <2>4. /\ u \in Context /\ u.st = S /\ u.ph = m.ph /\ u.sv = m.sv /\ u.lv[p] = c.lv[p] + 1
        /\ \A h \in Locks : h # p => u.lv[h] = c.lv[h]
    BY <2>0, <2>3, UpIs
  <2>5. v \in Context /\ v.lv = u.lv /\ v.st = V /\ v.ph = m.ph /\ v.sv = m.sv
    BY <2>2, <2>4, Contexts DEF With
  <2>6. /\ w \in Context /\ w.st = V /\ w.ph = m.ph /\ w.sv = m.sv
        /\ \A h \in Locks : h # "peer" => w.lv[h] = v.lv[h]
    BY <2>0, <2>5, UpIs
  <2>7. x \in Context /\ x.lv = w.lv /\ x.st = S /\ x.ph = m.ph /\ x.sv = m.sv
    BY <2>2, <2>6, Contexts DEF With
  <2>8. S[p] = {Facts} /\ V[p] = {{"user", "open"}} /\ \A r \in Players : r # p => S[r] = a.st[r] /\ V[r] = a.st[r]
    OBVIOUS
  <2>9. x.lv = Up(v, "peer").lv /\ u.lv = Up(c, p).lv
    BY <2>7
  <2> HIDE DEF S, V, c, u, v, w, x, code
  <2>10. ASSUME NoStop
         PROVE  /\ owner["usr"] = t /\ a.lv["usr"] > 0
                /\ \A r \in Players : a.st[r] \subseteq m.st[r] /\ a.st[r] \subseteq Agreed
                                      /\ StatusOf(r) \in a.st[r]
    <3>1. Maps(a, i, m)
      BY <1>1, <2>10 DEF Does
    <3>2. owner["usr"] = t /\ a.lv["usr"] > 0
      BY <1>0, <1>1, <3>1, MapsAtUsr
    <3>3. \A r \in Players : a.st[r] \subseteq m.st[r] /\ a.st[r] \subseteq Agreed
      BY <1>1, <3>1 DEF Maps, MapSteps
    <3> QED
      BY <1>1, <2>10, <3>2, <3>3 DEF At
  <2>11. NoStop => StatusOf(p) = Facts /\ Facts \in m.st[p]
    <3>1. "user" \in StatusOf(p)
      BY <1>8 DEF StatusOf, Facts
    <3>2. NoStop => StatusOf(p) \in {Facts, {}} /\ StatusOf(p) \in m.st[p]
      BY <2>10 DEF Agreed
    <3> QED
      BY <3>1, <3>2
  <2>12. c.lv["usr"] = a.lv["usr"] /\ u.lv["usr"] = a.lv["usr"] /\ w.lv["usr"] = a.lv["usr"]
    BY <1>1, <2>0, <2>3, <2>4, <2>5, <2>6
  <2>13. NoStop => a.lv["usr"] # 0
    BY <2>10
  <2>14. NoStop => Rest(c) /\ Rest(u) /\ Rest(v) /\ Rest(w) /\ Rest(x) /\ Rest(m)
    BY <1>1, <2>12, <2>13, <2>5, <2>7 DEF Rest
  <2>15. MayEnter(t, c.lv, p) /\ c.lv[p] = 0
    BY <1>6, <2>3, UseNow, EnterPlayer, Contexts DEF NoneOf, OnlyOf
  <2>16. u.lv[p] > 0 /\ MayEnter(t, v.lv, "peer") /\ v.lv["peer"] = 0
    <3>1. m.lv["peer"] = 0
      BY <1>1 DEF Does, Orders
    <3> QED
      BY <1>6, <2>0, <2>3, <2>4, <2>5, <2>15, <3>1 DEF MayEnter
  <2>17. Does(t, u, To("unroute", p), v)
    <3>1. Fates("unroute", Facts) = {{"user", "open"}}
      BY DEF Fates, Facts
    <3>2. \A s \in u.st[p] : Fates("unroute", s) \subseteq v.st[p]
      BY <2>4, <2>5, <2>8, <3>1
    <3>3. \A r \in Players : r # p => u.st[r] \subseteq v.st[r]
      BY <2>4, <2>5, <2>8
    <3>4. "unroute" \in {"unroute", "register", "open", "put"}
      OBVIOUS
    <3>5. NoStop => u.lv["usr"] > 0
      BY <2>10, <2>12
    <3> QED
      BY <2>4, <2>5, <3>2, <3>3, <3>4, <3>5, PlainDoes
  <2>18. Does(t, w, To("register", p), x)
    <3>1. Fates("register", {"user", "open"}) = {Facts}
      BY DEF Fates, Facts
    <3>2. \A s \in w.st[p] : Fates("register", s) \subseteq x.st[p]
      BY <2>6, <2>7, <2>8, <3>1
    <3>3. \A r \in Players : r # p => w.st[r] \subseteq x.st[r]
      BY <2>6, <2>7, <2>8
    <3>4. "register" \in {"unroute", "register", "open", "put"}
      OBVIOUS
    <3>5. NoStop => w.lv["usr"] > 0
      BY <2>10, <2>12
    <3> QED
      BY <2>6, <2>7, <3>2, <3>3, <3>4, <3>5, PlainDoes
  <2>19. Walk(t, <<To("register", p)>>, Up(v, "peer"), x)
    BY <2>6, <2>7, <2>18, WalkOne DEF w
  <2>20. Walk(t, Within("peer", <<To("register", p)>>), v, u)
    <3>1. \A r \in Players : x.st[r] \subseteq u.st[r]
      BY <2>4, <2>7
    <3>2. v.lv["peer"] <= 3
      BY <2>16
    <3> QED
      BY <2>0, <2>4, <2>5, <2>7, <2>9, <2>14, <2>16, <2>19, <3>1, <3>2, WithinWalk
  <2>21. Walk(t, <<To("unroute", p)>>, u, v)
    BY <2>4, <2>5, <2>17, WalkOne
  <2>22. Walk(t, <<To("unroute", p)>> \o Within("peer", <<To("register", p)>>), Up(c, p), u)
    BY <2>20, <2>21, WalkOn DEF u
  <2>23. NoStop => \A r \in Players : u.st[r] \subseteq m.st[r]
    <3> SUFFICES ASSUME NoStop, NEW r \in Players PROVE u.st[r] \subseteq m.st[r]
      OBVIOUS
    <3>1. CASE r = p
      BY <3>1, <2>4, <2>8, <2>11
    <3>2. CASE r # p
      BY <3>2, <2>4, <2>8, <2>10
    <3> QED
      BY <3>1, <3>2
  <2>24. Walk(t, code, c, m)
    <3>1. NoStop => m.lv["usr"] # 0
      BY <1>1, <2>13
    <3>2. c.lv[p] <= 3
      BY <2>15
    <3>3. c.lv = m.lv /\ u.ph = m.ph /\ u.sv = m.sv
      BY <2>3, <2>4
    <3> QED
      BY <1>1, <2>0, <2>3, <2>4, <2>9, <2>14, <2>15, <2>22, <2>23, <3>1, <3>2, <3>3, WithinWalk DEF code
  <2>25. ASSUME NoStop, NEW r \in Players PROVE StatusOf(r)' \in c.st[r] /\ StatusOf(r)' = StatusOf(r)
    <3>1. StatusOf(r)' = StatusOf(r)
      BY <1>4 DEF StatusOf
    <3>2. CASE r = p
      BY <3>1, <3>2, <2>3, <2>8, <2>11, <2>25
    <3>3. CASE r # p
      BY <3>1, <3>3, <2>3, <2>8, <2>10, <2>25
    <3> QED
      BY <3>1, <3>2, <3>3
  <2>26. users' \subseteq Players /\ opened' \subseteq Players /\ routed' \subseteq Players
    BY <1>0, <1>4 DEF Types
  <2> QED
    BY <1>1, <1>3, <1>4, <2>1, <2>3, <2>14, <2>24, <2>25, <2>26, ChannelStep
<1> QED
  BY <1>7, <1>8


(* CreatePlayer leaves poolLock and usrCs.                                 *)
LEMMA RefusedWalk ==
    ASSUME NEW t \in Threads, NEW a \in Context, NEW b \in Context,
           a.lv = InAdmission, b.lv = Nowhere, a.ph = b.ph, a.sv = b.sv,
           NoStop => Rest(b) /\ \A r \in Players : a.st[r] \subseteq Agreed
    PROVE  Walk(t, <<Out("pool"), Out("usr")>>, a, b)
<1> DEFINE L == [l \in Locks |-> IF l = "usr" THEN 1 ELSE 0]
           d == [lv |-> L, st |-> a.st, ph |-> a.ph, sv |-> a.sv]
<1>1. {"usr", "pool"} \subseteq Locks
  BY LockNames
<1>2. L \in [Locks -> Nat] /\ L["usr"] = 1
  BY <1>1
<1>3. d \in Context /\ d.lv = L /\ d.st = a.st /\ d.ph = a.ph /\ d.sv = a.sv
  BY <1>2 DEF Context
<1>4. InAdmission = [L EXCEPT !["pool"] = @ + 1]
  <2>1. L \in [Locks -> Nat] /\ L["pool"] = 0
    BY <1>1
  <2>2. \A l \in Locks : InAdmission[l] = [L EXCEPT !["pool"] = @ + 1][l]
    BY <1>1, <2>1 DEF InAdmission
  <2>3. InAdmission = [l \in Locks |-> InAdmission[l]]
    BY DEF InAdmission
  <2> QED
    BY <2>1, <2>2, <2>3
<1>5. L = [Nowhere EXCEPT !["usr"] = @ + 1]
  BY <1>1 DEF Nowhere
<1>6. Nowhere["usr"] = 0 /\ InAdmission["usr"] = 1
  BY <1>1 DEF Nowhere, InAdmission
<1> HIDE DEF L, d
<1>7. Rest(a) /\ Rest(d)
  BY <1>2, <1>3, <1>6 DEF Rest
<1>8. Does(t, a, Out("pool"), d)
  <2>1. a.lv = [d.lv EXCEPT !["pool"] = @ + 1] /\ \A r \in Players : a.st[r] \subseteq d.st[r]
    BY <1>3, <1>4
  <2> QED
    BY <1>1, <1>3, <1>7, <2>1, LeaveDoes
<1>9. Does(t, d, Out("usr"), b)
  <2>1. d.lv = [b.lv EXCEPT !["usr"] = @ + 1] /\ b.lv["usr"] = 0
    BY <1>3, <1>5, <1>6
  <2>2. NoStop => \A r \in Players : d.st[r] \subseteq Agreed
    BY <1>3
  <2> QED
    BY <1>1, <1>3, <1>7, <2>1, <2>2, LeaveDoes
<1>10. Walk(t, <<Out("pool")>>, a, d) /\ Walk(t, <<Out("usr")>>, d, b)
  BY <1>3, <1>8, <1>9, WalkOne
<1>11. Walk(t, <<Out("pool")>> \o <<Out("usr")>>, a, b)
  BY <1>10, WalkOn
<1> QED
  BY <1>11, Two

(* What CreatePlayer does with a new player: the maps fill up one after the
   other.                                                                  *)
LEMMA AdmittedWalk ==
    ASSUME NEW t \in Threads, NEW p \in Players, NEW a \in Context, NEW m \in Context,
           a.lv = InAdmission, m.lv = Nowhere, a.ph = m.ph, a.sv = m.sv,
           NoStop => /\ Rest(m) /\ a.st[p] = {{}} 
                     /\ \A r \in Players : r # p => a.st[r] \subseteq Agreed
    PROVE  Walk(t, Within("peer", <<To("register", p)>>) \o Within(p, <<To("open", p)>>)
                     \o <<To("put", p)>> \o <<Out("pool"), Out("usr")>> \o Use(p), a, m)
<1> DEFINE Now(s) == [r \in Players |-> IF r = p THEN {s} ELSE a.st[r]]
           S1 == Now({"route"})
           S2 == Now({"route", "open"})
           S3 == Now(Facts)
           b == With(a, S1)
           c == With(a, S2)
           d == With(a, S3)
           u == Up(a, "peer")
           v == With(u, S1)
           w == Up(b, p)
           x == With(w, S2)
<1>0. {"usr", "pool", "peer"} \subseteq Locks /\ p \in Locks /\ p \notin {"usr", "pool", "peer"}
  BY LockNames
<1>1. \A s \in SUBSET Facts : Now(s) \in [Players -> SUBSET SUBSET Facts]
  BY Contexts
<1>2. S1 \in [Players -> SUBSET SUBSET Facts] /\ S2 \in [Players -> SUBSET SUBSET Facts]
      /\ S3 \in [Players -> SUBSET SUBSET Facts]
  BY <1>1 DEF Facts
<1>3. /\ S1[p] = {{"route"}} /\ S2[p] = {{"route", "open"}} /\ S3[p] = {Facts}
      /\ \A r \in Players : r # p => S1[r] = a.st[r] /\ S2[r] = a.st[r] /\ S3[r] = a.st[r]
  OBVIOUS
<1> HIDE DEF Now, S1, S2, S3
<1>4. /\ b \in Context /\ b.lv = a.lv /\ b.st = S1 /\ b.ph = a.ph /\ b.sv = a.sv
      /\ c \in Context /\ c.lv = a.lv /\ c.st = S2 /\ c.ph = a.ph /\ c.sv = a.sv
      /\ d \in Context /\ d.lv = a.lv /\ d.st = S3 /\ d.ph = a.ph /\ d.sv = a.sv
  BY <1>2, Contexts DEF With
<1>5. /\ u \in Context /\ u.st = a.st /\ u.ph = a.ph /\ u.sv = a.sv
      /\ \A h \in Locks : h # "peer" => u.lv[h] = a.lv[h]
  BY <1>0, UpIs
<1>6. v \in Context /\ v.lv = u.lv /\ v.st = S1 /\ v.ph = a.ph /\ v.sv = a.sv
  BY <1>2, <1>5, Contexts DEF With
<1>7. /\ w \in Context /\ w.st = S1 /\ w.ph = a.ph /\ w.sv = a.sv
      /\ \A h \in Locks : h # p => w.lv[h] = b.lv[h]
  <2> HIDE DEF b
  <2>1. /\ w \in Context /\ w.st = b.st /\ w.ph = b.ph /\ w.sv = b.sv
        /\ \A h \in Locks : h # p => w.lv[h] = b.lv[h]
    BY <1>0, <1>4, UpIs
  <2> QED BY <1>4, <2>1
<1>8. x \in Context /\ x.lv = w.lv /\ x.st = S2 /\ x.ph = a.ph /\ x.sv = a.sv
  BY <1>2, <1>7, Contexts DEF With
<1>9. v.lv = Up(a, "peer").lv /\ x.lv = Up(b, p).lv
  BY <1>6, <1>8
<1> HIDE DEF b, c, d, u, v, w, x
<1>10. /\ InAdmission["usr"] = 1 /\ InAdmission["pool"] = 1
       /\ \A h \in Locks : h \notin {"usr", "pool"} => InAdmission[h] = 0
  BY <1>0 DEF InAdmission
<1>11. a.lv["usr"] = 1 /\ b.lv["usr"] = 1 /\ c.lv["usr"] = 1 /\ d.lv["usr"] = 1
       /\ u.lv["usr"] = 1 /\ v.lv["usr"] = 1 /\ w.lv["usr"] = 1 /\ x.lv["usr"] = 1
  BY <1>0, <1>4, <1>5, <1>6, <1>7, <1>8, <1>10
<1>12. Rest(a) /\ Rest(b) /\ Rest(c) /\ Rest(d) /\ Rest(u) /\ Rest(v) /\ Rest(w) /\ Rest(x)
  BY <1>11 DEF Rest
<1>13. Does(t, u, To("register", p), v)
  <2>1. Fates("register", {}) = {{"route"}}
    BY DEF Fates
  <2>2. NoStop => \A s \in u.st[p] : Fates("register", s) \subseteq v.st[p]
    BY <1>3, <1>5, <1>6, <2>1
  <2>3. \A r \in Players : r # p => u.st[r] \subseteq v.st[r]
    BY <1>3, <1>5, <1>6
  <2>4. "register" \in {"unroute", "register", "open", "put"} /\ u.lv["usr"] > 0
    BY <1>11
  <2> QED
    BY <1>5, <1>6, <2>2, <2>3, <2>4, PlainDoes
<1>14. Walk(t, Within("peer", <<To("register", p)>>), a, b)
  <2>1. Walk(t, <<To("register", p)>>, Up(a, "peer"), v)
    BY <1>5, <1>6, <1>13, WalkOne DEF u
  <2>2. MayEnter(t, a.lv, "peer") /\ a.lv["peer"] <= 3
    <3>1. Above(a.lv, "peer")
      BY <1>10 DEF Above, Rank
    <3> QED
      BY <1>0, <1>10, <3>1 DEF MayEnter
  <2>3. \A r \in Players : v.st[r] \subseteq b.st[r]
    BY <1>4, <1>6
  <2> QED
    BY <1>0, <1>4, <1>6, <1>9, <1>12, <2>1, <2>2, <2>3, WithinWalk
<1>15. Does(t, w, To("open", p), x)
  <2>1. Fates("open", {"route"}) = {{"route", "open"}}
    BY DEF Fates
  <2>2. \A s \in w.st[p] : Fates("open", s) \subseteq x.st[p]
    BY <1>3, <1>7, <1>8, <2>1
  <2>3. \A r \in Players : r # p => w.st[r] \subseteq x.st[r]
    BY <1>3, <1>7, <1>8
  <2>4. "open" \in {"unroute", "register", "open", "put"} /\ w.lv["usr"] > 0
    BY <1>11
  <2> QED
    BY <1>7, <1>8, <2>2, <2>3, <2>4, PlainDoes
<1>16. Walk(t, Within(p, <<To("open", p)>>), b, c)
  <2>1. Walk(t, <<To("open", p)>>, Up(b, p), x)
    BY <1>7, <1>8, <1>15, WalkOne DEF w
  <2>2. MayEnter(t, b.lv, p) /\ b.lv[p] <= 3
    <3>1. OnlyOf(b.lv, p) /\ b.lv[p] = 0
      BY <1>0, <1>4, <1>10, LockNames DEF OnlyOf
    <3>2. b.lv \in [Locks -> Nat]
      BY <1>4, Contexts
    <3>3. MayEnter(t, b.lv, p)
      BY <3>1, <3>2, EnterPlayer
    <3> QED
      BY <3>1, <3>3
  <2>3. \A r \in Players : x.st[r] \subseteq c.st[r]
    BY <1>4, <1>8
  <2>4. b.lv = c.lv /\ x.ph = c.ph /\ x.sv = c.sv /\ p # "usr"
    BY <1>0, <1>4, <1>8
  <2> QED
    BY <1>0, <1>4, <1>8, <1>9, <1>12, <2>1, <2>2, <2>3, <2>4, WithinWalk
<1>17. Does(t, c, To("put", p), d)
  <2>1. Fates("put", {"route", "open"}) = {Facts}
    BY DEF Fates, Facts
  <2>2. \A s \in c.st[p] : Fates("put", s) \subseteq d.st[p]
    BY <1>3, <1>4, <2>1
  <2>3. \A r \in Players : r # p => c.st[r] \subseteq d.st[r]
    BY <1>3, <1>4
  <2>4. "put" \in {"unroute", "register", "open", "put"} /\ c.lv["usr"] > 0
    BY <1>11
  <2> QED
    BY <1>4, <2>2, <2>3, <2>4, PlainDoes
<1>18. Walk(t, <<To("put", p)>>, c, d)
  BY <1>4, <1>17, WalkOne
<1>19. Walk(t, <<Out("pool"), Out("usr")>>, d, m)
  <2>1. NoStop => \A r \in Players : d.st[r] \subseteq Agreed
    BY <1>3, <1>4 DEF Agreed
  <2> QED
    BY <1>4, <2>1, RefusedWalk
<1>20. Walk(t, Use(p), m, m)
  <2>1. NoneOf(m.lv)
    BY LockNames DEF NoneOf, Nowhere
  <2> QED
    BY <2>1, UseNow
<1>21. Walk(t, Within("peer", <<To("register", p)>>) \o Within(p, <<To("open", p)>>), a, c)
  BY <1>14, <1>16, WalkOn
<1>22. Walk(t, Within("peer", <<To("register", p)>>) \o Within(p, <<To("open", p)>>) \o <<To("put", p)>>, a, d)
  BY <1>18, <1>21, WalkOn
<1>23. Walk(t, Within("peer", <<To("register", p)>>) \o Within(p, <<To("open", p)>>) \o <<To("put", p)>>
               \o <<Out("pool"), Out("usr")>>, a, m)
  BY <1>19, <1>22, WalkOn
<1> QED
  BY <1>20, <1>23, WalkOn

(* CreatePlayer admits, refuses, or destroys the old player and tries again.*)
LEMMA AdmitKeeps ==
    ASSUME Invariant, NEW t \in Threads, Admit(t)
    PROVE  Invariant'
<1>0. Types /\ todo[t] # <<>>
  BY DEF Admit, Is, Invariant
<1>1. PICK a \in Context, m \in Context, b \in Context :
         At(t, a) /\ Does(t, a, Head(todo[t]), m) /\ Walk(t, Tail(todo[t]), m, b) /\ Done(b)
  BY <1>0, StepContext
<1>2. PICK i : i = Head(todo[t])
  OBVIOUS
<1>3. i \in Instrs /\ i[1] = "admit" /\ Does(t, a, i, m)
  BY <1>1, <1>2 DEF Does, Admit, Is
<1>4. PICK p \in Players : i = <<"admit", p>> /\ i[2] = p
  BY <1>3, Shape DEF OfPlayer
<1> DEFINE refused == <<Out("pool"), Out("usr")>>
           entered == Within("peer", <<To("register", p)>>) \o Within(p, <<To("open", p)>>)
                      \o <<To("put", p)>> \o refused \o Use(p)
           again == FinishDestroy(p) \o refused \o <<In("usr"), In("pool"), To("admit", p)>>
<1>5. /\ UNCHANGED <<locks, channels, peers>>
      /\ \/ p \notin routed /\ Continue(t, entered)
         \/ Continue(t, refused)
         \/ Continue(t, again)
  BY <1>2, <1>4 DEF Admit, Instr
<1>6. /\ t = "listener" /\ "create" \in Ops /\ a.lv = InAdmission /\ m.lv = Nowhere
      /\ m.ph = a.ph /\ m.sv = a.sv
  BY <1>3 DEF Does, Orders, Levels, Life
<1>7. \A r \in Players : StatusOf(r)' = StatusOf(r)
  BY <1>5 DEF StatusOf, channels
<1>8. UNCHANGED <<locks, peers>> /\ UNCHANGED <<users, opened, routed, kicks>>
  BY <1>5 DEF channels
<1>9. users' \subseteq Players /\ opened' \subseteq Players /\ routed' \subseteq Players /\ kicks' \subseteq Players
  BY <1>0, <1>8 DEF Types
<1>10. ASSUME NoStop
       PROVE  /\ Rest(m) /\ Rest(a) /\ owner["usr"] = t
              /\ \A r \in Players : a.st[r] \subseteq Agreed /\ StatusOf(r) \in a.st[r]
  <2>1. Maps(a, i, m)
    BY <1>3, <1>10 DEF Does
  <2>2. Rest(m) /\ Rest(a) /\ a.lv["usr"] > 0 /\ \A r \in Players : a.st[r] \subseteq Agreed
    BY <1>3, <2>1 DEF Maps
  <2>3. owner["usr"] = t
    BY <1>0, <1>1, <2>2, InsideIs, LockNames
  <2> QED
    BY <1>1, <1>10, <2>2, <2>3 DEF At
<1>11. CASE p \notin routed /\ Continue(t, entered)
  <2> DEFINE S == [r \in Players |-> IF r = p THEN {{}} ELSE a.st[r]]
             c == With(a, S)
  <2>1. S \in [Players -> SUBSET SUBSET Facts]
    BY Contexts
  <2>2. c \in Context /\ c.lv = a.lv /\ c.st = S /\ c.ph = a.ph /\ c.sv = a.sv
    BY <2>1, Contexts DEF With
  <2>3. c.st[p] = {{}} /\ \A r \in Players : r # p => c.st[r] = a.st[r]
    BY <2>2
  <2> HIDE DEF S, c
  <2>4. Walk(t, entered, c, m)
    <3>1. NoStop => \A r \in Players : r # p => c.st[r] \subseteq Agreed
      BY <1>10, <2>3
    <3> QED
      BY <1>6, <1>10, <2>2, <2>3, <3>1, AdmittedWalk
  <2>5. NoStop => StatusOf(p) = {}
    <3>1. "route" \notin StatusOf(p)
      BY <1>11 DEF StatusOf
    <3>2. NoStop => StatusOf(p) \in {Facts, {}}
      BY <1>10 DEF Agreed
    <3> QED
      BY <3>1, <3>2 DEF Facts
  <2>6. ASSUME NoStop, NEW r \in Players PROVE StatusOf(r)' \in c.st[r]
    <3>1. CASE r = p
      BY <3>1, <1>7, <2>3, <2>5, <2>6
    <3>2. CASE r # p
      BY <3>2, <1>7, <1>10, <2>3, <2>6
    <3> QED
      BY <3>1, <3>2
  <2>7. NoStop => Rest(c)
    <3>1. c.lv["usr"] = 1
      BY <1>6, <2>2, LockNames DEF InAdmission
    <3> QED
      BY <3>1 DEF Rest
  <2>8. PICK code : code = entered
    OBVIOUS
  <2>9. todo' = [todo EXCEPT ![t] = code \o Tail(@)]
    BY <1>11, <2>8 DEF Continue
  <2> HIDE DEF entered
  <2> QED
    BY <1>1, <1>7, <1>8, <1>9, <2>2, <2>4, <2>6, <2>7, <2>8, <2>9, ChannelStep
<1>12. ASSUME NEW c \in Context, c.lv = InAdmission, c.ph = a.ph, c.sv = a.sv,
              NoStop => \A r \in Players : c.st[r] \subseteq Agreed
       PROVE  Walk(t, refused, c, m)
  BY <1>6, <1>10, <1>12, RefusedWalk
<1>13. CASE Continue(t, refused)
  <2>1. Walk(t, refused, a, m)
    BY <1>6, <1>10, <1>12
  <2>2. PICK code : code = refused
    OBVIOUS
  <2>3. todo' = [todo EXCEPT ![t] = code \o Tail(@)]
    BY <1>13, <2>2 DEF Continue
  <2> HIDE DEF refused
  <2> QED
    BY <1>1, <1>7, <1>8, <1>9, <1>10, <2>1, <2>2, <2>3, ChannelStep
<1>14. CASE Continue(t, again)
  <2> DEFINE e == With(a, Calm)
  <2>1. Calm \in [Players -> SUBSET SUBSET Facts]
    BY DEF Calm, Agreed, Facts
  <2>2. e \in Context /\ e.lv = a.lv /\ e.st = Calm /\ e.ph = a.ph /\ e.sv = a.sv
    BY <2>1, Contexts DEF With
  <2> HIDE DEF e
  <2>3. {"usr", "pool"} \subseteq Locks /\ p \in Locks /\ p \notin {"usr", "pool"} /\ Players \subseteq Locks
    BY LockNames
  <2>4. /\ a.lv["usr"] = 1 /\ a.lv["pool"] = 1
        /\ \A h \in Locks : h \notin {"usr", "pool"} => a.lv[h] = 0
    BY <1>6, <2>3 DEF InAdmission
  <2>5. OnlyOf(a.lv, p) /\ MayEnter(t, a.lv, "usr")
    <3>1. \A r \in Players : r \in Locks /\ r \notin {"usr", "pool"}
      BY LockNames
    <3> QED
      BY <2>4, <3>1 DEF OnlyOf, MayEnter
  <2>6. Walk(t, FinishDestroy(p), a, e)
    <3>1. ASSUME NoStop, NEW s \in a.st[p] PROVE s \in {Facts, {}} /\ Removed(s) \in e.st[p]
      <4>1. s \in {Facts, {}}
        BY <1>10, <3>1 DEF Agreed
      <4> QED
        BY <4>1, <2>2 DEF Calm, Agreed, Removed
    <3>2. NoStop => \A s \in a.st[p] : "user" \in s => s = Facts
      BY <3>1
    <3>3. NoStop => \A r \in Players : a.st[r] \subseteq e.st[r]
      BY <1>10, <2>2 DEF Calm
    <3>4. a.lv[p] <= 3 /\ a.lv["pool"] <= 3 /\ a.lv["usr"] <= 2 /\ a.lv["usr"] <= 3
      BY <2>3, <2>4
    <3>5. Rest(e)
      BY <2>2, <2>4 DEF Rest
    <3> QED
      BY <1>10, <2>2, <2>5, <3>1, <3>2, <3>3, <3>4, <3>5, FinishWalk
  <2>7. Walk(t, refused, e, m)
    <3>1. \A r \in Players : e.st[r] \subseteq Agreed
      BY <2>2 DEF Calm
    <3> QED
      BY <1>6, <1>12, <2>2, <3>1
  <2>8. Walk(t, <<In("usr"), In("pool"), To("admit", p)>>, m, m)
    <3>1. \A l \in Locks : m.lv[l] = 0
      BY <1>6 DEF Nowhere
    <3> QED
      BY <1>6, <1>10, <3>1, AdmissionWalk
  <2>9. Walk(t, FinishDestroy(p) \o refused, a, m)
    BY <2>6, <2>7, WalkOn
  <2>10. Walk(t, again, a, m)
    BY <2>8, <2>9, WalkOn
  <2>11. PICK code : code = again
    OBVIOUS
  <2>12. todo' = [todo EXCEPT ![t] = code \o Tail(@)]
    BY <1>14, <2>11 DEF Continue
  <2> HIDE DEF again
  <2> QED
    BY <1>1, <1>7, <1>8, <1>9, <1>10, <2>10, <2>11, <2>12, ChannelStep
<1> HIDE DEF entered, refused, again
<1> QED
  BY <1>5, <1>11, <1>13, <1>14

(* The game's thread brings the peer down, or up again.                    *)
LEMMA PeerStep ==
    ASSUME Invariant, UNCHANGED locks, UNCHANGED channels,
           NEW a \in Context, NEW m \in Context, NEW b \in Context, NEW i, NEW c \in Context, NEW code,
           At("main", a), Does("main", a, i, m), i[1] \in {"stop", "join", "dispose", "serverPeer", "gone"},
           Walk("main", code, c, m), Walk("main", Tail(todo["main"]), m, b), Done(b),
           todo' = [todo EXCEPT !["main"] = code \o Tail(@)],
           c.lv = a.lv, c.st = m.st, Means(c.ph)', c.sv = "open" <=> server',
           wanted' \subseteq {"listener", "sender"}, running' \subseteq {"listener", "sender"},
           peer' \in BOOLEAN, server' \in BOOLEAN, NoStop => server'
    PROVE  Invariant'
<1>1. \A r \in Players : StatusOf(r)' = StatusOf(r)
  BY DEF StatusOf, channels
<1>2. /\ users' \subseteq Players /\ opened' \subseteq Players
      /\ routed' \subseteq Players /\ kicks' \subseteq Players
  BY DEF Invariant, Types, channels
<1>3. m.lv = a.lv
  BY DEF Does, Levels
<1>4. NoStop => Maps(a, i, m)
  BY DEF Does
<1>5. NoStop => Rest(c)
  <2>1. NoStop => Rest(m)
    BY <1>4 DEF Maps
  <2> QED
    BY <2>1, <1>3 DEF Rest
<1>6. ASSUME NoStop, owner["usr"] = "main", NEW r \in Players PROVE StatusOf(r)' \in c.st[r]
  <2>1. a.st[r] \subseteq m.st[r]
    BY <1>4, <1>6 DEF Maps, MapSteps
  <2>2. StatusOf(r) \in a.st[r]
    BY <1>6 DEF At
  <2> QED
    BY <2>1, <2>2, <1>1
<1>7. c.lv = Inside("main") /\ "main" \in Threads
  BY DEF At, Threads
<1> QED
  BY <1>1, <1>2, <1>5, <1>6, <1>7, StepKeeps

(* NetPeerUDP::close tells its threads to stop.                            *)
LEMMA StopKeeps ==
    ASSUME Invariant, NEW t \in Threads, Stop(t)
    PROVE  Invariant'
<1>0. Types
  BY DEF Invariant
<1>1. PICK a \in Context, m \in Context, b \in Context, i \in Instrs :
         /\ i[1] = "stop" /\ Instr(t) = i
         /\ At(t, a) /\ Does(t, a, i, m) /\ Walk(t, Tail(todo[t]), m, b) /\ Done(b)
         /\ m.lv = a.lv
  BY Begin DEF Stop
<1>2. /\ wanted' = {} /\ UNCHANGED <<locks, channels, running, peer, server>>
      /\ Continue(t, <<Each("close", routed)>>)
  BY DEF Stop
<1>3. t = "main" /\ NoneOf(m.lv) /\ ~NoStop
  BY <1>1 DEF Does, Orders, Maps
<1>4. m.ph = "stopping" /\ m.sv = a.sv
  BY <1>1 DEF Does, Life
<1>5. PICK S : S = routed
  OBVIOUS
<1>6. todo' = [todo EXCEPT ![t] = <<Each("close", S)>> \o Tail(@)]
  BY <1>2, <1>5 DEF Continue
<1>7. S \subseteq Players
  BY <1>0, <1>5 DEF Types
<1>8. Each("close", S) = <<"each", "close", S>> /\ Each("close", S) \in Instrs
  BY <1>7 DEF Each, Instrs
<1>9. Does(t, m, Each("close", S), m)
  <2>1. Orders(t, m.lv, Each("close", S)) /\ Life(m, Each("close", S), m)
    BY <1>3, <1>8 DEF Orders, Life, To
  <2> QED
    BY <1>3, <1>8, <2>1, QuietDoes
<1>10. Walk(t, <<Each("close", S)>>, m, m)
  BY <1>9, WalkOne
<1>11. Means(m.ph)' /\ (m.sv = "open" <=> server')
  BY <1>1, <1>2, <1>3, <1>4 DEF Means, At
<1>12. /\ wanted' \subseteq {"listener", "sender"} /\ running' \subseteq {"listener", "sender"}
       /\ peer' \in BOOLEAN /\ server' \in BOOLEAN /\ (NoStop => server')
  BY <1>0, <1>2 DEF Types
<1>13. UNCHANGED locks /\ UNCHANGED channels
  BY <1>2
<1> QED
  BY <1>1, <1>3, <1>6, <1>10, <1>11, <1>12, <1>13, PeerStep

(* And waits for the end of one.                                           *)
LEMMA JoinKeeps ==
    ASSUME Invariant, NEW t \in Threads, Join(t)
    PROVE  Invariant'
<1>0. Types
  BY DEF Invariant
<1>1. PICK a \in Context, m \in Context, b \in Context, i \in Instrs :
         /\ i[1] = "join" /\ Instr(t) = i
         /\ At(t, a) /\ Does(t, a, i, m) /\ Walk(t, Tail(todo[t]), m, b) /\ Done(b)
         /\ m.lv = a.lv
  BY Begin DEF Join
<1>2. /\ i[2] \notin running /\ UNCHANGED <<locks, channels, peers>>
      /\ todo' = [todo EXCEPT ![t] = <<>> \o Tail(@)]
  BY <1>1 DEF Join, Continue
<1>3. t = "main"
  BY <1>1 DEF Does, Orders
<1>4. m.sv = a.sv
  BY <1>1 DEF Does, Life
<1>5. Means(m.ph)
  <2>1. Means(a.ph)
    BY <1>1, <1>3 DEF At
  <2>2. i[2] \in {"sender", "listener"} /\ i = <<"join", i[2]>>
    BY <1>1, Shape
  <2>3. CASE i[2] = "sender"
    <3>1. a.ph = "stopping" /\ m.ph = "half"
      BY <1>1, <2>2, <2>3 DEF Does, Life, To
    <3> QED
      BY <1>2, <2>1, <2>3, <3>1 DEF Means
  <2>4. CASE i[2] = "listener"
    <3>1. a.ph = "half" /\ m.ph = "ended"
      BY <1>1, <2>2, <2>4 DEF Does, Life, To
    <3> QED
      BY <1>0, <1>2, <2>1, <2>4, <3>1 DEF Means, Types
  <2> QED
    BY <2>2, <2>3, <2>4
<1>6. Means(m.ph)' /\ (m.sv = "open" <=> server')
  BY <1>1, <1>2, <1>3, <1>4, <1>5 DEF Means, At, peers
<1>7. /\ wanted' \subseteq {"listener", "sender"} /\ running' \subseteq {"listener", "sender"}
      /\ peer' \in BOOLEAN /\ server' \in BOOLEAN /\ (NoStop => server')
  BY <1>0, <1>2 DEF Types, peers
<1>8. UNCHANGED locks /\ UNCHANGED channels
  BY <1>2
<1> QED
  BY <1>1, <1>2, <1>3, <1>6, <1>7, <1>8, WalkNothing, PeerStep

(* The peer is reset.                                                      *)
LEMMA DisposeKeeps ==
    ASSUME Invariant, NEW t \in Threads, Dispose(t)
    PROVE  Invariant'
<1>0. Types
  BY DEF Invariant
<1>1. PICK a \in Context, m \in Context, b \in Context, i \in Instrs :
         /\ i[1] = "dispose" /\ Instr(t) = i
         /\ At(t, a) /\ Does(t, a, i, m) /\ Walk(t, Tail(todo[t]), m, b) /\ Done(b)
         /\ m.lv = a.lv
  BY Begin DEF Dispose
<1>2. /\ peer' = FALSE /\ UNCHANGED <<locks, channels, wanted, running, server>>
      /\ todo' = [todo EXCEPT ![t] = <<>> \o Tail(@)]
  BY <1>1 DEF Dispose, Continue
<1>3. t = "main"
  BY <1>1 DEF Does, Orders
<1>4. m.sv = a.sv /\ a.ph = "ended" /\ m.ph \in {"ended", "down"}
  BY <1>1 DEF Does, Life
<1>5. Means(m.ph)' /\ (m.sv = "open" <=> server')
  BY <1>1, <1>2, <1>3, <1>4 DEF Means, At
<1>6. /\ wanted' \subseteq {"listener", "sender"} /\ running' \subseteq {"listener", "sender"}
      /\ peer' \in BOOLEAN /\ server' \in BOOLEAN /\ (NoStop => server')
  BY <1>0, <1>2 DEF Types
<1>7. UNCHANGED locks /\ UNCHANGED channels
  BY <1>2
<1> QED
  BY <1>1, <1>2, <1>3, <1>5, <1>6, <1>7, WalkNothing, PeerStep

(* getServerPeer, and the cancellation of all messages.                    *)
LEMMA ServerPeerKeeps ==
    ASSUME Invariant, NEW t \in Threads, ServerPeer(t)
    PROVE  Invariant'
<1>0. Types
  BY DEF Invariant
<1>1. PICK a \in Context, m \in Context, b \in Context, i \in Instrs :
         /\ i[1] = "serverPeer" /\ Instr(t) = i
         /\ At(t, a) /\ Does(t, a, i, m) /\ Walk(t, Tail(todo[t]), m, b) /\ Done(b)
         /\ m.lv = a.lv
  BY Begin DEF ServerPeer
<1>2. /\ peer' = TRUE /\ UNCHANGED <<locks, channels, server>>
      /\ wanted' = (IF peer THEN wanted ELSE {"listener", "sender"})
      /\ running' = running \cup (wanted' \ wanted)
      /\ Continue(t, Within("peer", <<Each("cancel", routed)>>))
  BY DEF ServerPeer
<1>3. t = "main" /\ NoneOf(m.lv) /\ m.lv["peer"] = 0
  BY <1>1 DEF Does, Orders
<1>4. m.ph = "up" /\ m.sv = a.sv
  BY <1>1 DEF Does, Life
<1>5. PICK S : S = routed
  OBVIOUS
<1>6. S \subseteq Players
  BY <1>0, <1>5 DEF Types
<1>7. PICK j : j = Each("cancel", S)
  OBVIOUS
<1>8. j = <<"each", "cancel", S>> /\ j \in Instrs /\ j[1] = "each" /\ j[2] = "cancel"
  BY <1>6, <1>7 DEF Each, Instrs
<1>9. NoStop => Rest(m) /\ m.lv["usr"] = 0 /\ m.lv["pool"] <= 2
  BY <1>1 DEF Does, Maps
<1>10. Walk(t, Within("peer", <<j>>), m, m)
  <2> DEFINE u == Up(m, "peer")
  <2>1. /\ u \in Context /\ (Rest(m) => Rest(u)) /\ \A h \in Locks : h # "peer" => u.lv[h] = m.lv[h]
    BY LockNames, UpIs
  <2> HIDE DEF u
  <2>2. NoneOf(u.lv)
    BY <1>3, <2>1, LockNames DEF NoneOf
  <2>3. NoStop => Rest(u) /\ u.lv["usr"] = 0 /\ u.lv["pool"] <= 2 /\ u.lv["usr"] <= 2
    BY <1>9, <2>1, LockNames
  <2>4. Orders(t, u.lv, j) /\ Life(u, j, u)
    BY <1>8, <2>2 DEF Orders, Life, To
  <2>5. Does(t, u, j, u)
    BY <1>8, <2>1, <2>3, <2>4, QuietDoes
  <2>6. Walk(t, <<j>>, Up(m, "peer"), Up(m, "peer"))
    BY <2>1, <2>5, WalkOne DEF u
  <2>7. MayEnter(t, m.lv, "peer") /\ m.lv["peer"] <= 3
    <3>1. Above(m.lv, "peer")
      <4> SUFFICES ASSUME NEW h \in Locks, m.lv[h] > 0 PROVE Rank(h) < Rank("peer")
        BY DEF Above
      <4>1. h \notin Players /\ h # "peer"
        BY <1>3 DEF NoneOf
      <4> QED
        BY <4>1 DEF Locks, Rank
    <3> QED
      BY <1>3, <3>1 DEF MayEnter
  <2> QED
    BY <1>9, <2>6, <2>7, LockNames, SectionWalk
<1>11. PICK code : code = Within("peer", <<j>>)
  OBVIOUS
<1>12. todo' = [todo EXCEPT ![t] = code \o Tail(@)]
  BY <1>2, <1>5, <1>7, <1>11 DEF Continue
<1>13. Means(m.ph)' /\ (m.sv = "open" <=> server')
  BY <1>1, <1>2, <1>3, <1>4 DEF Means, At
<1>14. /\ wanted' \subseteq {"listener", "sender"} /\ running' \subseteq {"listener", "sender"}
       /\ peer' \in BOOLEAN /\ server' \in BOOLEAN /\ (NoStop => server')
  BY <1>0, <1>2 DEF Types
<1>15. UNCHANGED locks /\ UNCHANGED channels
  BY <1>2
<1> QED
  BY <1>1, <1>3, <1>10, <1>11, <1>12, <1>13, <1>14, <1>15, PeerStep

(* setServer(nullptr) and checkPool.                                       *)
LEMMA GoneKeeps ==
    ASSUME Invariant, NEW t \in Threads, Gone(t)
    PROVE  Invariant'
<1>0. Types
  BY DEF Invariant
<1>1. PICK a \in Context, m \in Context, b \in Context, i \in Instrs :
         /\ i[1] = "gone" /\ Instr(t) = i
         /\ At(t, a) /\ Does(t, a, i, m) /\ Walk(t, Tail(todo[t]), m, b) /\ Done(b)
         /\ m.lv = a.lv
  BY Begin DEF Gone
<1>2. /\ server' = FALSE /\ UNCHANGED <<locks, channels, wanted, running, peer>>
      /\ Continue(t, IF PoolShared \/ ~peer THEN <<>> ELSE ClosePeer \o <<Do("dispose")>>)
  BY DEF Gone
<1>3. t = "main" /\ "shutdown" \in Ops /\ ~NoStop /\ Only(m.lv, "pool")
  BY <1>1 DEF Does, Orders, NoStop
<1>4. a.ph = "up" /\ m.sv = "shut" /\ m.ph = IF PoolShared THEN "up" ELSE "ended"
  BY <1>1 DEF Does, Life
<1>5. peer /\ Means(a.ph)
  BY <1>1, <1>3, <1>4 DEF At, Means
<1> DEFINE c == Stage(m, "up")
<1>6. /\ c \in Context /\ c.lv = m.lv /\ c.st = m.st /\ c.ph = "up" /\ c.sv = "shut"
  BY <1>4, StageIs DEF Stages
<1>7. Means(c.ph)' /\ (c.sv = "open" <=> server')
  BY <1>2, <1>5, <1>6 DEF Means
<1>8. /\ wanted' \subseteq {"listener", "sender"} /\ running' \subseteq {"listener", "sender"}
      /\ peer' \in BOOLEAN /\ server' \in BOOLEAN /\ (NoStop => server')
  BY <1>0, <1>2, <1>3 DEF Types
<1>9. UNCHANGED locks /\ UNCHANGED channels
  BY <1>2
<1> HIDE DEF c
<1>10. PICK code : code = IF PoolShared THEN <<>> ELSE ClosePeer \o <<Do("dispose")>>
  OBVIOUS
<1>11. todo' = [todo EXCEPT ![t] = code \o Tail(@)]
  BY <1>2, <1>5, <1>10 DEF Continue
<1>12. Walk("main", code, c, m)
  <2>1. CASE PoolShared
    <3>1. c = m
      BY <1>4, <2>1 DEF c, Stage, Context
    <3> QED
      BY <2>1, <3>1, <1>10, WalkNothing
  <2>2. CASE ~PoolShared
    <3> DEFINE d == Stage(c, "ended")
    <3>1. Walk("main", ClosePeer, c, d)
      BY <1>3, <1>6, ClosePeerWalk
    <3>2. d \in Context /\ d.lv = m.lv /\ d.st = m.st /\ d.ph = "ended" /\ d.sv = "shut"
      BY <1>6, StageIs DEF Stages
    <3>3. Does("main", d, Do("dispose"), Stage(d, "ended"))
      BY <1>3, <3>2, DisposeDoes
    <3>4. Stage(d, "ended") = m
      BY <1>4, <2>2, <3>2 DEF Stage, Context
    <3> HIDE DEF d
    <3>5. Walk("main", <<Do("dispose")>>, d, m)
      BY <3>2, <3>3, <3>4, WalkOne
    <3>6. Walk("main", ClosePeer \o <<Do("dispose")>>, c, m)
      BY <3>1, <3>5, WalkOn
    <3> QED
      BY <2>2, <3>6, <1>10
  <2> QED
    BY <2>1, <2>2
<1> QED
  BY <1>1, <1>3, <1>6, <1>7, <1>8, <1>9, <1>11, <1>12, PeerStep

-----------------------------------------------------------------------------
(* Between two handlers.                                                   *)

LEMMA AtRest ==
    ASSUME Invariant, NEW t \in Threads, todo[t] = <<>>
    PROVE  \E h \in Stages, v \in {"open", "shut"} : At(t, Base(h, v)) /\ Done(Base(h, v))
<1>1. PICK a \in Context, b \in Context : At(t, a) /\ Walk(t, todo[t], a, b) /\ Done(b)
  BY DEF Invariant, Ready
<1>2. a = b
  BY <1>1, WalkEnds
<1>3. a.lv = Nowhere /\ a.st = Calm /\ a.ph \in Stages /\ a.sv \in {"open", "shut"}
  BY <1>1, <1>2 DEF Done, Context, Stages
<1>4. a = Base(a.ph, a.sv)
  BY <1>1, <1>3 DEF Base, Context
<1> QED
  BY <1>1, <1>2, <1>3, <1>4

(* A handler is walked through from between two handlers to between two
   handlers.                                                               *)
LEMMA TurnKeeps ==
    ASSUME Invariant, NEW t \in Threads, NEW code, Turn(t, code), t = "main" => server,
           NEW y \in Context, Walk(t, code, Base("up", "open"), y), Done(y)
    PROVE  Invariant'
<1> DEFINE z == Base("up", "open")
<1>0. Types
  BY DEF Invariant
<1>1. todo[t] = <<>> /\ todo' = [todo EXCEPT ![t] = code] /\ UNCHANGED <<locks, channels, peers>>
  BY DEF Turn
<1>2. PICK h \in Stages, v \in {"open", "shut"} : At(t, Base(h, v)) /\ Done(Base(h, v))
  BY <1>1, AtRest
<1>3. Base(h, v).ph = h /\ Base(h, v).sv = v
  BY DEF Base
<1>4. h = "up" /\ v = "open"
  BY <1>2, <1>3 DEF At, Done
<1>5. z \in Context /\ At(t, z)
  BY <1>2, <1>4, BaseIs
<1> HIDE DEF z
<1>6. /\ owner' = owner /\ depth' = depth /\ users' = users /\ opened' = opened /\ routed' = routed
      /\ kicks' = kicks /\ wanted' = wanted /\ running' = running /\ peer' = peer /\ server' = server
  BY <1>1 DEF locks, channels, peers
<1>7. \A p \in Players : StatusOf(p)' = StatusOf(p)
  BY <1>6 DEF StatusOf
<1>8. At(t, z)'
  <2>1. Inside(t)' = Inside(t)
    BY <1>6 DEF Inside
  <2>2. Means(z.ph) => Means(z.ph)'
    BY <1>6 DEF Means
  <2> QED
    BY <1>5, <1>6, <1>7, <2>1, <2>2 DEF At
<1>9. todo'[t] = code /\ code \in Seq(Instrs)
  BY <1>0, <1>1, WalkIsCode DEF Types
<1>10. Ready(t)'
  BY <1>5, <1>8, <1>9 DEF Ready, z
<1>11. ASSUME NEW u \in Threads, u # t PROVE Ready(u)'
  <2>1. Ready(u) /\ todo'[u] = todo[u]
    BY <1>0, <1>1, <1>11 DEF Invariant, Types
  <2>2. (server' <=> server) /\ \A x \in Stages : Means(x) => Means(x)'
    BY <1>6 DEF Means
  <2> QED
    BY <1>6, <1>7, <2>1, <2>2, OthersReady
<1>12. Types'
  <2>1. todo' \in [Threads -> Seq(Instrs)]
    BY <1>0, <1>1, <1>9 DEF Types
  <2> QED
    BY <1>0, <1>6, <2>1 DEF Types
<1>13. NoStop => (owner'["usr"] = Nobody => \A p \in Players : StatusOf(p)' \in Agreed)
  BY <1>6, <1>7 DEF Invariant
<1>14. NoStop => \A l \in Locks : depth'[l] <= 4
  BY <1>6 DEF Invariant
<1> QED
  BY <1>10, <1>11, <1>12, <1>13, <1>14 DEF Invariant

(* The listener turns to a packet.                                         *)
LEMMA ListenKeeps ==
    ASSUME Invariant, Listen
    PROVE  Invariant'
<1> DEFINE z == Base("up", "open")
<1>0. users \subseteq Players /\ routed \subseteq Players /\ "listener" \in Threads
  BY DEF Invariant, Types, Threads
<1>1. z \in Context /\ Done(z)
  BY BaseIs DEF Done
<1>2. PICK code : Turn("listener", code) /\ Walk("listener", code, z, z)
  <2>1. ASSUME NEW p \in Players
        PROVE  /\ Walk("listener", Data(p), z, z) /\ Walk("listener", Check(p), z, z)
               /\ Walk("listener", Destroy(p), z, z) /\ Walk("listener", Reconnect(p), z, z)
               /\ "create" \in Ops => Walk("listener", Create(p), z, z)
    BY <1>0, DataWalk, CheckWalk, DestroyWalk, ReconnectWalk, CreateWalk
  <2>2. CASE \E p \in routed : Turn("listener", Data(p)) \/ Turn("listener", Check(p))
    BY <2>1, <2>2, <1>0
  <2>3. CASE \E p \in routed : Turn("listener", Destroy(p))
    BY <2>1, <2>3, <1>0
  <2>4. CASE \E p \in users : Turn("listener", Reconnect(p))
    BY <2>1, <2>4, <1>0
  <2>5. CASE \E p \in Players : "create" \in Ops /\ Turn("listener", Create(p))
    BY <2>1, <2>5
  <2> QED
    BY <2>2, <2>3, <2>4, <2>5 DEF Listen
<1> QED
  BY <1>0, <1>1, <1>2, TurnKeeps

(* The sender starts another round.                                        *)
LEMMA DispatchKeeps ==
    ASSUME Invariant, Dispatch
    PROVE  Invariant'
<1>1. "sender" \in Threads /\ Turn("sender", Transmit)
  BY DEF Threads, Dispatch
<1>2. Base("up", "open") \in Context /\ Done(Base("up", "open"))
  BY BaseIs DEF Done
<1> QED
  BY <1>1, <1>2, TransmitWalk, TurnKeeps

(* The game calls the server.                                              *)
LEMMA PlayKeeps ==
    ASSUME Invariant, Play
    PROVE  Invariant'
<1> DEFINE z == Base("up", "open")
           y == Base(IF PoolShared THEN "up" ELSE "ended", "shut")
<1>0. users \subseteq Players /\ "main" \in Threads /\ server
  BY DEF Invariant, Types, Threads, Play
<1>1. z \in Context /\ Done(z) /\ Rest(z) /\ (\A l \in Locks : z.lv[l] = 0) /\ z.ph = "up" /\ z.sv = "open" /\ z.lv = Nowhere /\ z.st = Calm
  BY BaseIs DEF Done
<1>2. y \in Context /\ Done(y)
  <2>1. /\ y \in Context /\ y.lv = Nowhere /\ y.st = Calm /\ y.sv = "shut"
        /\ y.ph = IF PoolShared THEN "up" ELSE "ended"
    BY BaseIs
  <2> QED
    BY <2>1 DEF Done
<1>3. Stage(z, "up") = z
  BY <1>1 DEF Stage, Base
<1> HIDE DEF y
<1>4. CASE "shutdown" \in Ops /\ Turn("main", Shutdown)
  BY <1>0, <1>2, <1>4, ShutdownWalk, TurnKeeps DEF y
<1>5. Walk("main", CancelMessages, z, z)
  BY <1>1, <1>3, CancelMessagesWalk
<1>6. CASE ~("shutdown" \in Ops /\ Turn("main", Shutdown))
  <2>1. PICK code : Turn("main", code) /\ Walk("main", code, z, z)
    <3>1. ASSUME NEW p \in Players
          PROVE  Walk("main", Send(p), z, z) /\ Walk("main", Kick(p), z, z) /\ Walk("main", Drop(p), z, z)
      BY <1>0, SendWalk, KickWalk, DropWalk
    <3>2. Walk("main", Receive, z, z)
      BY <1>0, ReceiveWalk
    <3>3. ASSUME NEW p \in Players, NEW q \in Players
          PROVE  /\ Walk("main", ProcessPlayers(Send(p)), z, z)
                 /\ Walk("main", ProcessPlayers(Send(p) \o Kick(q)), z, z)
      BY <1>0, ProcessWalk
    <3> QED
      BY <3>1, <3>2, <3>3, <1>0, <1>5, <1>6 DEF Play
  <2> QED
    BY <1>0, <1>1, <2>1, TurnKeeps
<1> QED
  BY <1>4, <1>6

(* A thread that was told to stop ends.                                    *)
LEMMA ExitKeeps ==
    ASSUME Invariant, NEW t \in Threads, Exit(t)
    PROVE  Invariant'
<1>0. Types
  BY DEF Invariant
<1>1. /\ running' = running \ {t} /\ owner' = owner /\ depth' = depth /\ todo' = todo /\ users' = users
      /\ opened' = opened /\ routed' = routed /\ kicks' = kicks /\ wanted' = wanted
      /\ peer' = peer /\ server' = server
  BY DEF Exit, locks, channels
<1>2. \A p \in Players : StatusOf(p)' = StatusOf(p)
  BY <1>1 DEF StatusOf
<1>3. \A h \in Stages : Means(h) => Means(h)'
  BY <1>1 DEF Means
<1>4. ASSUME NEW u \in Threads PROVE Ready(u)'
  <2>1. Ready(u)
    BY DEF Invariant
  <2> QED
    BY <1>1, <1>2, <1>3, <2>1, OthersReady
<1>5. Types'
  BY <1>0, <1>1 DEF Types
<1>6. NoStop => (owner'["usr"] = Nobody => \A p \in Players : StatusOf(p)' \in Agreed)
  BY <1>1, <1>2 DEF Invariant
<1>7. NoStop => \A l \in Locks : depth'[l] <= 4
  BY <1>1 DEF Invariant
<1> QED
  BY <1>4, <1>5, <1>6, <1>7 DEF Invariant

(* Any step of a handler.                                                  *)
LEMMA StepsKeep ==
    ASSUME Invariant, NEW t \in Threads, Step(t)
    PROVE  Invariant'
BY EnterKeeps, LeaveKeeps, RemoveKeeps, CloseKeeps, CancelKeeps, UnrouteKeeps, RegisterKeeps, AdmitKeeps,
   OpenKeeps, PutKeeps, RerouteKeeps, PrepareKeeps, SendKickKeeps, QueueKickKeeps, KickAllKeeps,
   IterateKeeps, SleepKeeps, StopKeeps, JoinKeeps, DisposeKeeps, ServerPeerKeeps, GoneKeeps DEF Step

(* In the beginning every thread is between two handlers.                  *)
LEMMA InitInvariant ==
    ASSUME Init
    PROVE  Invariant
<1> DEFINE z == Base("up", "open")
<1>1. /\ z \in Context /\ Done(z) /\ Rest(z) /\ z.lv = Nowhere /\ z.st = Calm /\ z.ph = "up" /\ z.sv = "open"
  BY BaseIs DEF Done
<1>2. /\ owner = [l \in Locks |-> Nobody] /\ depth = [l \in Locks |-> 0] /\ todo = [t \in Threads |-> <<>>]
      /\ users = AtStart /\ opened = AtStart /\ routed = AtStart /\ kicks = {}
      /\ wanted = {"listener", "sender"} /\ running = wanted /\ peer = TRUE /\ server = TRUE
  BY DEF Init
<1>3. Types
  <2>1. todo \in [Threads -> Seq(Instrs)]
    BY <1>2
  <2> QED
    BY <1>2, <2>1, LocksAssumption DEF Types
<1>4. \A p \in Players : StatusOf(p) \in Agreed
  <2> SUFFICES ASSUME NEW p \in Players PROVE StatusOf(p) \in Agreed
    OBVIOUS
  <2>1. CASE p \in AtStart
    BY <1>2, <2>1 DEF StatusOf, Agreed, Facts
  <2>2. CASE p \notin AtStart
    BY <1>2, <2>2 DEF StatusOf, Agreed, Facts
  <2> QED
    BY <2>1, <2>2
<1> HIDE DEF z
<1>5. ASSUME NEW t \in Threads PROVE Ready(t)
  <2>1. Inside(t) = Nowhere
    BY <1>2, ThreadNames DEF Inside, Nowhere
  <2>2. owner["usr"] # t
    BY <1>2, ThreadNames, LockNames
  <2>3. Means("up") /\ server
    BY <1>2 DEF Means
  <2>4. At(t, z)
    BY <1>1, <2>1, <2>2, <2>3 DEF At
  <2>5. todo[t] = <<>>
    BY <1>2
  <2>6. Walk(t, todo[t], z, z)
    BY <1>1, <2>5, WalkNothing
  <2> QED
    BY <1>1, <2>4, <2>6 DEF Ready
<1>6. \A l \in Locks : depth[l] <= 4
  BY <1>2
<1> QED
  BY <1>3, <1>4, <1>5, <1>6 DEF Invariant

(* The invariant holds whatever operations occur, and with it there is a walk
   through what each thread still has to do.                                *)
THEOREM AlwaysReady == Spec => []Invariant
<1>1. Init => Invariant
  BY InitInvariant
<1>2. Invariant /\ [Next]_vars => Invariant'
  <2> SUFFICES ASSUME Invariant, [Next]_vars PROVE Invariant'
    OBVIOUS
  <2>1. CASE UNCHANGED vars
    <3>1. /\ owner' = owner /\ depth' = depth /\ todo' = todo /\ users' = users
          /\ opened' = opened /\ routed' = routed /\ kicks' = kicks /\ wanted' = wanted
          /\ running' = running /\ peer' = peer /\ server' = server
      BY <2>1 DEF vars, locks, channels, peers
    <3>2. \A p \in Players : StatusOf(p)' = StatusOf(p)
      BY <3>1 DEF StatusOf
    <3>3. \A h \in Stages : Means(h) => Means(h)'
      BY <3>1 DEF Means
    <3>4. ASSUME NEW u \in Threads PROVE Ready(u)'
      <4>1. Ready(u)
        BY DEF Invariant
      <4> QED
        BY <3>1, <3>2, <3>3, <4>1, OthersReady
    <3>5. Types'
      BY <3>1 DEF Types, Invariant
    <3>6. NoStop => (owner'["usr"] = Nobody => \A p \in Players : StatusOf(p)' \in Agreed)
      BY <3>1, <3>2 DEF Invariant
    <3>7. NoStop => \A l \in Locks : depth'[l] <= 4
      BY <3>1 DEF Invariant
    <3> QED
      BY <3>4, <3>5, <3>6, <3>7 DEF Invariant
  <2>2. CASE Next
    BY <2>2, ListenKeeps, DispatchKeeps, PlayKeeps, StepsKeep, ExitKeeps DEF Next
  <2> QED
    BY <2>1, <2>2
<1> QED
  BY <1>1, <1>2, PTL DEF Spec

-----------------------------------------------------------------------------
(* What follows.                                                           *)

(* Without ~NetServer no section is ever entered more than four times over
   (PoCriticalSection counts the enters), and every lock that is entered has
   one owner among the threads.                                             *)
THEOREM TypeCorrect == Spec => [](NoStop => TypeOK)
<1>1. Invariant => (NoStop => TypeOK)
  <2> SUFFICES ASSUME Invariant, NoStop PROVE TypeOK
    OBVIOUS
  <2>1. Types /\ \A l \in Locks : depth[l] <= 4
    BY DEF Invariant
  <2>2. depth \in [Locks -> 0 .. 4]
    BY <2>1 DEF Types
  <2> QED
    BY <2>1, <2>2 DEF Types, TypeOK, Threads
<1> QED
  BY <1>1, AlwaysReady, PTL

(* The rest of it holds with ~NetServer, too.                              *)
THEOREM TypesHold == Spec => []Types
<1>1. Invariant => Types
  BY DEF Invariant
<1> QED
  BY <1>1, AlwaysReady, PTL

(* Every enter() has its leave(): whatever early return a handler takes and
   whatever call-backs run inside it, a thread that is between two handlers is in
   no section, ~NetServer included.                                         *)
THEOREM SectionsAreLeft == Spec => []Balanced
<1>1. Invariant => Balanced
  <2> SUFFICES ASSUME Invariant, NEW t \in Threads, todo[t] = <<>>, NEW l \in Locks PROVE owner[l] # t
    BY DEF Balanced
  <2>1. PICK h \in Stages, v \in {"open", "shut"} : At(t, Base(h, v))
    BY AtRest
  <2>2. Base(h, v).lv[l] = 0
    BY BaseIs DEF Stages
  <2>3. Types
    BY DEF Invariant
  <2> QED
    BY <2>1, <2>2, <2>3, InsideIs
<1> QED
  BY <1>1, AlwaysReady, PTL

(* As long as the server runs, whoever enters usrCs finds a player for every
   open channel and a route to each (finishDestroyPlayer, CreatePlayer,
   NetChannelBasic::close and reconnect).                                   *)
THEOREM MapsStayAgreed == Spec => [](NoStop => MapsAgree)
<1>1. Invariant => (NoStop => MapsAgree)
  <2> SUFFICES ASSUME Invariant, NoStop, owner["usr"] = Nobody PROVE users = opened /\ opened = routed
    BY DEF MapsAgree
  <2>1. users \subseteq Players /\ opened \subseteq Players /\ routed \subseteq Players
    BY DEF Invariant, Types
  <2>2. ASSUME NEW p \in Players
        PROVE  (p \in users <=> p \in opened) /\ (p \in opened <=> p \in routed)
    <3>1. StatusOf(p) \in {Facts, {}}
      BY DEF Invariant, Agreed
    <3>2. /\ "user" \in StatusOf(p) <=> p \in users
          /\ "open" \in StatusOf(p) <=> p \in opened
          /\ "route" \in StatusOf(p) <=> p \in routed
      BY DEF StatusOf, Facts
    <3> QED
      BY <3>1, <3>2 DEF Facts
  <2> QED
    BY <2>1, <2>2
<1> QED
  BY <1>1, AlwaysReady, PTL

(* When ~NetServer has ended and nobody else keeps the pool, the peer's threads
   have ended: the one created on the way by CancelAllMessages, too.        *)
THEOREM ThreadsEnd == Spec => [](~PoolShared => NoThreadsAfter)
<1>1. Invariant => (~PoolShared => NoThreadsAfter)
  <2> SUFFICES ASSUME Invariant, ~PoolShared, ~server, todo["main"] = <<>> PROVE running = {}
    BY DEF NoThreadsAfter
  <2>1. PICK h \in Stages, v \in {"open", "shut"} : At("main", Base(h, v)) /\ Done(Base(h, v))
    BY AtRest DEF Threads
  <2>2. Base(h, v).ph = h /\ Base(h, v).sv = v
    BY DEF Base
  <2>3. h = "ended" /\ Means(h)
    BY <2>1, <2>2 DEF At, Done
  <2> QED
    BY <2>3 DEF Means
<1> QED
  BY <1>1, AlwaysReady, PTL

(* A thread that waits for a section, and is not one of those that are known to
   ask in the wrong order, holds only sections of a lower rank.             *)
LEMMA WaitsUpwards ==
    ASSUME Invariant, NEW t \in Threads, Is(t, "in"), WaitsFor(t) # {}, ~CallsBack(t), ~Reconnects(t)
    PROVE  \E l \in Locks :
              /\ Instr(t)[2] = l /\ Instr(t) = In(l) /\ WaitsFor(t) = {owner[l]} /\ owner[l] \in Threads \ {t}
              /\ \A h \in Locks : owner[h] = t => Rank(h) < Rank(l)
              /\ l = "pool" /\ t # "main" => "create" \in Ops
<1>0. Types /\ todo[t] # <<>>
  BY DEF Invariant, Is
<1>1. PICK a \in Context, m \in Context : At(t, a) /\ Does(t, a, Head(todo[t]), m)
  BY <1>0, StepContext
<1>2. PICK i : i = Head(todo[t])
  OBVIOUS
<1>3. i \in Instrs /\ i[1] = "in" /\ i = Instr(t)
  BY <1>1, <1>2 DEF Does, Is, Instr
<1>4. PICK l \in Locks : i = <<"in", l>> /\ i[2] = l
  BY <1>3, Shape
<1>5. MayEnter(t, a.lv, l)
  BY <1>1, <1>2, <1>3, <1>4 DEF Does, Orders
<1>6. WaitsFor(t) = {owner[l]} \ {Nobody, t}
  BY <1>3, <1>4 DEF WaitsFor
<1>7. owner[l] \in Threads /\ owner[l] # t /\ WaitsFor(t) = {owner[l]}
  BY <1>0, <1>6 DEF Types
<1>8. \A h \in Locks : a.lv[h] > 0 <=> owner[h] = t
  BY <1>0, <1>1, InsideIs
<1>9. In(l) = <<"in", l>> /\ Instr(t) = In(l)
  BY <1>3, <1>4 DEF In
<1>10. ~(l \in {"usr", "pool"} /\ \E h \in {"peer"} \cup Players : a.lv[h] > 0)
  <2> SUFFICES ASSUME l \in {"usr", "pool"}, NEW h \in {"peer"} \cup Players, a.lv[h] > 0 PROVE CallsBack(t)
    OBVIOUS
  <2>1. h \in Locks /\ owner[h] = t
    BY <1>8, LockNames
  <2> QED
    BY <1>9, <2>1 DEF CallsBack, Holds
<1>11. ~(t = "listener" /\ l = "peer" /\ \E h \in Players : a.lv[h] > 0)
  <2> SUFFICES ASSUME t = "listener", l = "peer", NEW h \in Players, a.lv[h] > 0 PROVE Reconnects(t)
    OBVIOUS
  <2>1. h \in Locks /\ owner[h] = t
    BY <1>8, LockNames
  <2> QED
    BY <1>9, <2>1 DEF Reconnects, Holds
<1>12. Above(a.lv, l) /\ (l = "pool" /\ t # "main" => "create" \in Ops)
  BY <1>5, <1>7, <1>8, <1>10, <1>11 DEF MayEnter
<1>13. \A h \in Locks : owner[h] = t => Rank(h) < Rank(l)
  BY <1>8, <1>12 DEF Above
<1> QED
  BY <1>3, <1>4, <1>7, <1>9, <1>12, <1>13

(* A thread that waits for another one's end is the game's, and holds nothing but
   poolLock.                                                                *)
LEMMA JoinsWithPool ==
    ASSUME Invariant, NEW t \in Threads, Is(t, "join")
    PROVE  /\ t = "main" /\ "shutdown" \in Ops /\ Instr(t)[2] \in {"sender", "listener"}
           /\ \A h \in Locks : owner[h] = t => h = "pool"
<1>0. Types /\ todo[t] # <<>>
  BY DEF Invariant, Is
<1>1. PICK a \in Context, m \in Context : At(t, a) /\ Does(t, a, Head(todo[t]), m)
  BY <1>0, StepContext
<1>2. PICK i : i = Head(todo[t])
  OBVIOUS
<1>3. i \in Instrs /\ i[1] = "join" /\ i = Instr(t) /\ Does(t, a, i, m)
  BY <1>1, <1>2 DEF Does, Is, Instr
<1>4. t = "main" /\ "shutdown" \in Ops /\ Only(a.lv, "pool")
  BY <1>3 DEF Does, Orders
<1>5. i[2] \in {"sender", "listener"}
  BY <1>3, Shape
<1>6. \A h \in Locks : a.lv[h] > 0 <=> owner[h] = t
  BY <1>0, <1>1, InsideIs
<1>7. \A h \in Locks : owner[h] = t => h = "pool"
  BY <1>4, <1>6 DEF Only
<1> QED
  BY <1>3, <1>4, <1>5, <1>7

Kept == ~({"create", "shutdown"} \subseteq Ops)

(* Unless somebody joins during ~NetServer, threads that wait for each other in a
   circle include one in the call-back of a TERMINATE message or in a
   reconnection: all the other sections are entered in one order, rcvCs, usrCs,
   poolLock, the peer's, a channel's.                                       *)
THEOREM CirclesAreKnown == Spec => [](Kept => CirclesKnown)
<1>1. Invariant => (Kept => CirclesKnown)
  <2> SUFFICES ASSUME Invariant, Kept, NEW S \in SUBSET Threads, S # {},
                      \A t \in S : WaitsFor(t) \cap S # {},
                      \A t \in S : ~CallsBack(t) /\ ~Reconnects(t)
               PROVE  FALSE
    BY DEF CirclesKnown
  <2> DEFINE R == {t \in S : Is(t, "in")}
             rank(t) == Rank(Instr(t)[2])
  <2>1. \A t \in S : t \in Threads /\ (Is(t, "in") \/ Is(t, "join"))
    BY DEF WaitsFor
  <2>2. \A l \in Locks : Rank(l) \in 0 .. 4
    BY DEF Rank
  <2>3. ASSUME NEW t \in R
        PROVE  /\ rank(t) \in 0 .. 4
               /\ \E u \in R : rank(u) \in 0 .. 4 /\ rank(u) > rank(t)
    <3>1. t \in Threads /\ WaitsFor(t) # {} /\ ~CallsBack(t) /\ ~Reconnects(t)
      BY <2>1, <2>3
    <3>2. PICK l \in Locks :
              /\ Instr(t)[2] = l /\ WaitsFor(t) = {owner[l]} /\ owner[l] \in Threads \ {t}
              /\ l = "pool" /\ t # "main" => "create" \in Ops
      BY <2>3, <3>1, WaitsUpwards
    <3>3. PICK u \in S : u = owner[l] /\ u # t
      BY <2>3, <3>2
    <3>4. ~Is(u, "join")
      <4> SUFFICES ASSUME Is(u, "join") PROVE FALSE
        OBVIOUS
      <4>1. u = "main" /\ "shutdown" \in Ops /\ l = "pool"
        BY <2>1, <3>3, JoinsWithPool
      <4> QED
        BY <4>1, <3>2, <3>3 DEF Kept
    <3>5. u \in Threads /\ Is(u, "in") /\ WaitsFor(u) # {} /\ ~CallsBack(u) /\ ~Reconnects(u)
      BY <2>1, <3>4
    <3>6. PICK k \in Locks : Instr(u)[2] = k /\ \A h \in Locks : owner[h] = u => Rank(h) < Rank(k)
      BY <3>5, WaitsUpwards
    <3>7. Rank(l) < Rank(k)
      BY <3>3, <3>6
    <3> QED
      BY <2>2, <3>2, <3>5, <3>6, <3>7
  <2>4. PICK t0 \in R : TRUE
    <3>1. PICK t \in S : TRUE
      OBVIOUS
    <3>2. CASE Is(t, "in")
      BY <3>1, <3>2
    <3>3. CASE Is(t, "join") /\ ~Is(t, "in")
      <4>1. t = "main" /\ Instr(t)[2] \in {"sender", "listener"}
        BY <2>1, <3>3, JoinsWithPool
      <4>2. PICK u \in S : u = Instr(t)[2]
        BY <3>1, <3>3 DEF WaitsFor
      <4>3. u # "main"
        BY <4>1, <4>2
      <4>4. Is(u, "in")
        BY <2>1, <4>3, JoinsWithPool
      <4> QED
        BY <4>4
    <3> QED
      BY <2>1, <3>2, <3>3
  <2> HIDE DEF R, rank
  <2>5. PICK t1 \in R : rank(t1) \in 0 .. 4 /\ rank(t1) >= 1
    <3>1. rank(t0) \in 0 .. 4
      BY <2>3, <2>4
    <3> QED
      BY <2>3, <2>4, <3>1
  <2>6. PICK t2 \in R : rank(t2) \in 0 .. 4 /\ rank(t2) >= 2
    BY <2>3, <2>5
  <2>7. PICK t3 \in R : rank(t3) \in 0 .. 4 /\ rank(t3) >= 3
    BY <2>3, <2>6
  <2>8. PICK t4 \in R : rank(t4) \in 0 .. 4 /\ rank(t4) >= 4
    BY <2>3, <2>7
  <2> QED
    BY <2>3, <2>8
<1> QED
  BY <1>1, AlwaysReady, PTL
=============================================================================
