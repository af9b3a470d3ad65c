------------------------ MODULE ServerDirectoryProofs ------------------------
(***************************************************************************)
(* Theorems about ServerDirectory, for any servers, handlers, ages and     *)
(* bounds: types, that a server told of its removal stays removed, and     *)
(* that a row never holds a token its publisher cannot know of.            *)
(***************************************************************************)
EXTENDS ServerDirectory, TLAPS

USE NamesAssumption, AgesAssumption, FlagAssumption, BoundsAssumption

LEMMA Limits == Oldest \in Nat \ {0} /\ Expired \in Nat /\ HideAge < Expired
  BY DEF Oldest, Older, Expired

LEMMA AgedInRange ==
  ASSUME NEW limit \in Nat, NEW a \in 0 .. limit
  PROVE  Aged(a, limit) \in 0 .. limit
  BY DEF Aged

(* A call that is started: who, by which handler slot, and what it carries. *)
LEMMA CallTyped ==
  ASSUME TypeOK, NEW s \in Servers, NEW first \in {"get"} \cup Removals, Call(s, first)
  PROVE  /\ calls' \in [Calls -> CallType] /\ awaits' \in [Servers -> Calls \cup {NoCall}]
         /\ \A c \in Calls : calls'[c].server = Nobody => calls'[c] = Idle
<1>1. PICK c \in Calls : /\ calls' = [calls EXCEPT ![c] = Begun(s, first)]
                         /\ awaits' = [awaits EXCEPT ![s] = c]
  BY DEF Call, Free
<1>2. Alone(s) \in BOOLEAN
  BY DEF Alone
<1>3. Begun(s, first) \in CallType /\ Begun(s, first).server # Nobody
  BY <1>2 DEF Begun, CallType, TypeOK, Removals
<1>. QED  BY <1>1, <1>3 DEF TypeOK

LEMMA InitTyped == Init => TypeOK
  BY Limits DEF Init, TypeOK, Idle, Resting, CallType

LEMMA PublisherTyped ==
  ASSUME TypeOK, NEW s \in Servers, Publisher(s)
  PROVE  TypeOK'
<1>1. CASE Start(s)
  BY <1>1 DEF TypeOK, Start
<1>2. CASE Publish(s)
  BY <1>2, CallTyped DEF TypeOK, Publish, counters
<1>3. CASE Stop(s)
  <2>1. CASE s \in published
    <3>1. PICK first \in Removals : Call(s, first)
      BY <1>3, <2>1 DEF Stop, Leaving
    <3>2. up' = [up EXCEPT ![s] = "stopping"] /\ published' = published \ {s}
          /\ UNCHANGED <<table, token, doubt, prober, counters>>
      BY <1>3, <2>1 DEF Stop, Leaving
    <3>. QED  BY <3>1, <3>2, CallTyped DEF TypeOK, counters
  <2>2. CASE s \notin published
    BY <1>3, <2>2 DEF TypeOK, Stop, Leaving, counters
  <2>. QED  BY <2>1, <2>2
<1>4. CASE GiveUp(s)
  BY <1>4 DEF TypeOK, GiveUp
<1>5. CASE Crash(s)
  BY <1>5 DEF TypeOK, Crash
<1>. QED  BY <1>1, <1>2, <1>3, <1>4, <1>5 DEF Publisher

LEMMA AnsweredTyped ==
  ASSUME TypeOK, NEW s \in Servers, NEW c \in CallType, Answered(s, c)
  PROVE  /\ awaits' \in [Servers -> Calls \cup {NoCall}]
         /\ token' \in [Servers -> Tokens \cup {NoToken}]
         /\ up' \in [Servers -> {"off", "on", "stopping", "left", "astray"}]
         /\ published' \subseteq {r \in Servers : up'[r] = "on"} /\ doubt' \subseteq Servers
<1>1. c.issued \in Tokens \cup {NoToken}
  BY DEF CallType
<1>2. Without(c.answer) \in {"left", "astray", "off"}
  BY DEF Without
<1>3. up \in [Servers -> {"off", "on", "stopping", "left", "astray"}]
      /\ published \subseteq {r \in Servers : up[r] = "on"}
  BY DEF TypeOK
<1>4. up' \in [Servers -> {"off", "on", "stopping", "left", "astray"}]
  BY <1>2, <1>3 DEF Answered
<1>5. \A r \in Servers : up[r] = "on" => up'[r] = "on"
  BY <1>3 DEF Answered
<1>6. published' \subseteq {r \in Servers : up'[r] = "on"}
  BY <1>3, <1>5 DEF Answered
<1>. QED  BY <1>1, <1>4, <1>6 DEF Answered, TypeOK

LEMMA HandlerTyped ==
  ASSUME TypeOK, NEW c \in Calls, Handler(c) \/ DropCall(c)
  PROVE  TypeOK'
<1>1. /\ calls[c] \in CallType /\ calls \in [Calls -> CallType]
      /\ table \in [Servers -> RowType \cup {NoRow}] /\ Idle \in CallType
  BY DEF TypeOK, Idle, CallType
<1>s. calls[c].at # "idle" => calls[c].server \in Servers /\ Row(c) \in RowType \cup {NoRow}
  BY <1>1 DEF TypeOK, CallType, Idle, Row
<1>n. \A d \in Calls : calls[d].server = Nobody => calls[d] = Idle
  BY DEF TypeOK
<1>2. SUFFICES /\ calls' \in [Calls -> CallType] /\ table' \in [Servers -> RowType \cup {NoRow}]
               /\ \A d \in Calls : calls'[d].server = Nobody => calls'[d] = Idle
               /\ awaits' \in [Servers -> Calls \cup {NoCall}]
               /\ token' \in [Servers -> Tokens \cup {NoToken}]
               /\ up' \in [Servers -> {"off", "on", "stopping", "left", "astray"}]
               /\ published' \subseteq {r \in Servers : up'[r] = "on"} /\ doubt' \subseteq Servers
               /\ UNCHANGED <<prober, counters>>
  BY DEF TypeOK, counters
<1>3. UNCHANGED publishers => /\ awaits' \in [Servers -> Calls \cup {NoCall}]
                             /\ token' \in [Servers -> Tokens \cup {NoToken}]
                             /\ up' \in [Servers -> {"off", "on", "stopping", "left", "astray"}]
                             /\ published' \subseteq {r \in Servers : up'[r] = "on"} /\ doubt' \subseteq Servers
  BY DEF TypeOK, publishers
<1>4. CASE ReadRow(c)
  <2>1. (IF Row(c) # NoRow /\ Row(c).age < RecoveryAge THEN Row(c).age ELSE RecoveryAge) \in 0 .. RecoveryAge
    BY <1>s, <1>4, Limits DEF ReadRow, At, RowType
  <2>. QED  BY <1>1, <1>s, <1>n, <1>3, <1>4, <2>1 DEF ReadRow, CallType, At
<1>5. CASE ReadHash(c)
  BY <1>1, <1>s, <1>n, <1>3, <1>5 DEF ReadHash, Done, CallType, At
<1>6. CASE Upsert(c)
  <2>1. Refreshed(Row(c)) \in RowType
    BY <1>s, <1>6, Limits DEF Upsert, At, Refreshed, NewRow, RowType
  <2>. QED  BY <1>1, <1>s, <1>n, <1>3, <1>6, <2>1 DEF Upsert, Move, Tabled, CallType, At
<1>7. CASE Fetch(c)
  BY <1>1, <1>s, <1>n, <1>3, <1>7 DEF Fetch, Move, Done, CallType, At
<1>8. CASE SetToken(c)
  <2>1. PICK t \in Tokens :
           /\ calls' = [calls EXCEPT ![c].at = "answer", ![c].answer = "ok", ![c].issued = t]
           /\ table' = IF Row(c) = NoRow THEN table
                       ELSE [table EXCEPT ![calls[c].server] = [Row(c) EXCEPT !.token = t]]
    BY <1>8 DEF SetToken, Tabled
  <2>2. Row(c) # NoRow => [Row(c) EXCEPT !.token = t] \in RowType
    BY <1>s, <1>8 DEF SetToken, At, RowType
  <2>3. table' \in [Servers -> RowType \cup {NoRow}]
    BY <1>1, <2>1, <2>2
  <2>4. calls[c].at = "token" /\ UNCHANGED publishers /\ UNCHANGED <<prober, counters>>
    BY <1>8 DEF SetToken, At
  <2>. QED  BY <1>1, <1>s, <1>n, <1>3, <2>1, <2>3, <2>4 DEF CallType
<1>9. CASE Gate(c)
  BY <1>1, <1>s, <1>n, <1>3, <1>9 DEF Gate, Done, Move, CallType, At
<1>10. CASE Delete(c)
  BY <1>1, <1>s, <1>n, <1>3, <1>10 DEF Delete, Done, Tabled, CallType, At
<1>11. CASE Answer(c)
  BY <1>1, <1>n, <1>3, <1>11, AnsweredTyped, <1>s DEF Answer, At
<1>12. CASE DropCall(c)
  BY <1>1, <1>n, <1>3, <1>12 DEF DropCall
<1>13. CASE Astray(c)
  BY <1>1, <1>s, <1>n, <1>3, <1>13 DEF Astray, Done, CallType, At
<1>. QED  BY <1>4, <1>5, <1>6, <1>7, <1>8, <1>9, <1>10, <1>11, <1>12, <1>13 DEF Handler

LEMMA ProberTyped == ASSUME TypeOK, Prober PROVE TypeOK'
<1>1. CASE FetchServers
  BY <1>1 DEF TypeOK, FetchServers, publishers, counters, Rows
<1>2. ASSUME NEW s \in Servers, ProbeOne(s) PROVE TypeOK'
  <2>1. misses' \in 0 .. MaxMisses
    BY <1>2 DEF TypeOK, ProbeOne
  <2>2. prober' \in [at : {"idle", "probing", "reporting"}, list : SUBSET Servers,
                    todo : SUBSET Servers, reached : SUBSET Servers]
    BY <1>2 DEF TypeOK, ProbeOne, Probed
  <2>3. UNCHANGED <<table, calls, publishers, starts, losses>>
    BY <1>2 DEF ProbeOne
  <2>. QED  BY <2>1, <2>2, <2>3 DEF TypeOK, publishers
<1>3. ASSUME NEW s \in Servers, Report(s) PROVE TypeOK'
  BY <1>3, Limits DEF TypeOK, Report, publishers, counters, RowType, Present
<1>4. CASE EndRound
  BY <1>4 DEF TypeOK, EndRound, publishers, counters
<1>5. CASE Prune
  BY <1>5 DEF TypeOK, Prune, publishers, counters, Resting
<1>. QED  BY <1>1, <1>2, <1>3, <1>4, <1>5 DEF Prober

LEMMA TickTyped == ASSUME TypeOK, Tick PROVE TypeOK'
<1>1. ASSUME NEW s \in Servers, Present(s)
      PROVE  [table[s] EXCEPT !.age = Aged(@, Oldest), !.hidden = Aged(@, Expired)] \in RowType
  <2>1. table[s] \in RowType
    BY <1>1 DEF TypeOK, Present
  <2>2. Aged(table[s].age, Oldest) \in 0 .. Oldest /\ Aged(table[s].hidden, Expired) \in 0 .. Expired
    BY <2>1, Limits, AgedInRange DEF RowType
  <2>. QED  BY <2>1, <2>2 DEF RowType
<1>2. ASSUME NEW c \in Calls PROVE [calls[c] EXCEPT !.seen = Aged(@, RecoveryAge)] \in CallType
  <2>1. calls[c] \in CallType
    BY DEF TypeOK
  <2>2. Aged(calls[c].seen, RecoveryAge) \in 0 .. RecoveryAge
    BY <2>1, AgedInRange DEF CallType
  <2>. QED  BY <2>1, <2>2 DEF CallType
<1>3. table' \in [Servers -> RowType \cup {NoRow}] /\ calls' \in [Calls -> CallType]
  BY <1>1, <1>2 DEF Tick
<1>4. \A c \in Calls : calls'[c].server = Nobody => calls'[c] = Idle
  <2>1. Aged(RecoveryAge, RecoveryAge) = RecoveryAge
    BY DEF Aged
  <2>2. [Idle EXCEPT !.seen = RecoveryAge] = Idle /\ Idle.seen = RecoveryAge
    <3>1. \A k \in CallType : k.seen = RecoveryAge => [k EXCEPT !.seen = RecoveryAge] = k
      BY DEF CallType
    <3>2. Idle \in CallType /\ Idle.seen = RecoveryAge
      BY DEF Idle, CallType
    <3>. QED  BY <3>1, <3>2
  <2>3. TAKE c \in Calls
  <2>4. calls'[c] = [calls[c] EXCEPT !.seen = Aged(calls[c].seen, RecoveryAge)]
    BY DEF Tick
  <2>5. calls'[c].server = calls[c].server
    BY <2>4 DEF TypeOK, CallType
  <2>6. calls[c].server = Nobody => calls[c] = Idle
    BY DEF TypeOK
  <2>. QED  BY Zenon, <2>1, <2>2, <2>4, <2>5, <2>6
<1>. QED  BY <1>3, <1>4 DEF TypeOK, Tick, publishers, counters

(* The variables keep to their types whoever acts.                         *)
THEOREM TypeCorrect == Spec => []TypeOK
<1>1. Init => TypeOK
  BY InitTyped
<1>2. TypeOK /\ [Next]_vars => TypeOK'
  <2>1. CASE UNCHANGED vars
    BY <2>1 DEF vars, publishers, counters, TypeOK
  <2>. QED  BY <2>1, PublisherTyped, HandlerTyped, ProberTyped, TickTyped DEF Next
<1>. QED  BY <1>1, <1>2, PTL DEF Spec

-----------------------------------------------------------------------------
(* The invariant of a server: who waits for a call, whether the call is the only
   one, and what the row can be while it is at work and when it is done.     *)
Of(c, s)   == calls[c].server = s
Awaited(s) == calls[awaits[s]]
Sole(s)    == awaits[s] # NoCall /\ Awaited(s).alone
Told(s)    == awaits[s] # NoCall /\ Awaited(s).at = "answer" /\ Awaited(s).answer = "ok"

(* A publisher that has not missed an answer, or whose call began when no other
   was at work, has no other call.                                           *)
WaitInv(s) ==
    /\ awaits[s] # NoCall => Of(awaits[s], s)
    /\ s \notin doubt /\ awaits[s] # NoCall => Awaited(s).alone
    /\ \A c \in Calls : (s \notin doubt \/ Sole(s)) /\ Of(c, s) => awaits[s] = c
    /\ up[s] \in {"off", "left", "astray"} => awaits[s] = NoCall
    /\ up[s] = "stopping" => awaits[s] # NoCall /\ Awaited(s).at \in {"delete", "answer"} \cup Removals

(* The row is gone between the removal and the answer, and after it.       *)
GoneInv(s) ==
    /\ Sole(s) /\ Told(s) /\ up[s] = "stopping" => ~Present(s)
    /\ up[s] = "left" /\ s \notin doubt => ~Present(s)

(* The row's token while a call is at work that no other disturbs, and later. *)
Known(s) == table[s].token \in {token[s], NoToken}
TokenInv(s) ==
    /\ \A c \in Calls : Of(c, s) /\ calls[c].issued # NoToken => calls[c].at = "answer" /\ calls[c].answer = "ok"
    /\ Sole(s) => Awaited(s).token = token[s]
    /\ Sole(s) /\ Present(s) /\ Awaited(s).known /\ Awaited(s).at \in {"upsert", "fetch"} => Known(s)
    /\ Sole(s) /\ Present(s) /\ Told(s) =>
          \/ Awaited(s).issued = NoToken /\ Known(s)
          \/ Awaited(s).issued # NoToken /\ table[s].token = Awaited(s).issued
    /\ s \notin doubt /\ Present(s) => Known(s) \/ Told(s)

OwnInv(s) == WaitInv(s) /\ GoneInv(s) /\ TokenInv(s)
IInv == TypeOK /\ \A s \in Servers : OwnInv(s)

(* What leaves a server alone: nothing of its publisher and of its calls changes,
   and its row is removed at most, or gets another age or verdict.           *)
Undisturbed(s) ==
    /\ up'[s] = up[s] /\ token'[s] = token[s] /\ awaits'[s] = awaits[s] /\ (s \in doubt' <=> s \in doubt)
    /\ \A c \in Calls : (calls'[c].server = s) <=> Of(c, s)
    /\ \A c \in Calls : Of(c, s) =>
          /\ calls'[c].at = calls[c].at /\ calls'[c].token = calls[c].token
          /\ calls'[c].alone = calls[c].alone /\ calls'[c].known = calls[c].known
          /\ calls'[c].issued = calls[c].issued /\ calls'[c].answer = calls[c].answer
    /\ table'[s] # NoRow => table[s] # NoRow /\ table'[s].token = table[s].token

LEMMA Frame ==
  ASSUME TypeOK, NEW s \in Servers, OwnInv(s), Undisturbed(s)
  PROVE  OwnInv(s)'
<1>1. awaits[s] \in Calls \cup {NoCall}
  BY DEF TypeOK
<1>2. awaits[s] # NoCall => Of(awaits[s], s)
  BY DEF OwnInv, WaitInv
<1>3. WaitInv(s)'
  BY <1>1, <1>2 DEF OwnInv, WaitInv, Undisturbed, Of, Awaited, Sole
<1>4. GoneInv(s)'
  BY <1>1, <1>2 DEF OwnInv, GoneInv, Undisturbed, Of, Awaited, Sole, Told, Present
<1>5. TokenInv(s)'
  BY <1>1, <1>2 DEF OwnInv, TokenInv, Undisturbed, Of, Awaited, Sole, Told, Present, Known
<1>. QED  BY <1>3, <1>4, <1>5 DEF OwnInv

LEMMA OthersPublisher ==
  ASSUME TypeOK, NEW s \in Servers, NEW r \in Servers, r # s, Publisher(r)
  PROVE  Undisturbed(s)
<1>1. ASSUME NEW first, Call(r, first)
      PROVE  /\ awaits'[s] = awaits[s]
             /\ \A c \in Calls : (calls'[c].server = s <=> Of(c, s)) /\ (Of(c, s) => calls'[c] = calls[c])
  <2>1. PICK c \in Calls : /\ calls[c] = Idle
                           /\ calls' = [calls EXCEPT ![c] = Begun(r, first)]
                           /\ awaits' = [awaits EXCEPT ![r] = c]
    BY <1>1 DEF Call, Free
  <2>2. Idle.server # s /\ Begun(r, first).server = r
    BY DEF Idle, Begun
  <2>. QED  BY <2>1, <2>2 DEF TypeOK, Of
<1>2. CASE Start(r)
  BY <1>2 DEF TypeOK, Start, Undisturbed, Of
<1>3. CASE Publish(r)
  BY <1>1, <1>3 DEF TypeOK, Publish, Undisturbed, counters
<1>4. CASE Stop(r)
  <2>1. /\ up'[s] = up[s] /\ UNCHANGED <<table, token, doubt>>
        /\ (\E first \in Removals : Call(r, first)) \/ UNCHANGED <<calls, awaits>>
    BY <1>4 DEF TypeOK, Stop, Leaving
  <2>. QED  BY <1>1, <2>1 DEF Undisturbed, Of
<1>5. CASE GiveUp(r)
  BY <1>5 DEF TypeOK, GiveUp, Undisturbed, Of
<1>6. CASE Crash(r)
  BY <1>6 DEF TypeOK, Crash, Undisturbed, Of
<1>. QED  BY <1>2, <1>3, <1>4, <1>5, <1>6 DEF Publisher

LEMMA OthersHandler ==
  ASSUME TypeOK, NEW s \in Servers, NEW c \in Calls, ~Of(c, s), Handler(c) \/ DropCall(c)
  PROVE  Undisturbed(s)
<1>1. /\ calls \in [Calls -> CallType] /\ calls[c].server # s /\ Idle.server # s
      /\ calls[c].at # "idle" => calls[c].server \in Servers
  BY DEF TypeOK, Of, Idle, CallType
<1>2. SUFFICES /\ calls'[c].server # s /\ \A d \in Calls \ {c} : calls'[d] = calls[d]
               /\ table'[s] = table[s] \/ table'[s] = NoRow
               /\ up'[s] = up[s] /\ token'[s] = token[s] /\ awaits'[s] = awaits[s]
               /\ s \in doubt' <=> s \in doubt
  BY <1>1 DEF Undisturbed, Of
<1>3. CASE Answer(c)
  <2>1. PICK r \in Servers : r = calls[c].server
    BY <1>1, <1>3 DEF Answer, At
  <2>2. /\ r # s /\ calls' = [calls EXCEPT ![c] = Idle] /\ UNCHANGED table
        /\ Answered(r, calls[c]) \/ UNCHANGED publishers
    BY <1>1, <1>3, <2>1 DEF Answer
  <2>3. /\ up'[s] = up[s] /\ token'[s] = token[s] /\ awaits'[s] = awaits[s]
        /\ s \in doubt' <=> s \in doubt
    <3>1. CASE UNCHANGED publishers
      BY <3>1 DEF publishers
    <3>2. CASE Answered(r, calls[c])
      BY <2>2, <3>2 DEF Answered, TypeOK
    <3>. QED  BY <2>2, <3>1, <3>2
  <2>. QED  BY <1>1, <2>2, <2>3
<1>4. CASE ~Answer(c)
  <2>1. UNCHANGED publishers
    BY <1>4 DEF Handler, ReadRow, ReadHash, Upsert, Fetch, SetToken, Gate, Delete, Astray, DropCall
  <2>2. /\ calls'[c].server # s
        /\ \A d \in Calls \ {c} : calls'[d] = calls[d]
    BY <1>1, <1>4 DEF Handler, ReadRow, ReadHash, Upsert, Fetch, SetToken, Gate, Delete, Astray, DropCall, Move, Done, CallType
  <2>3. table'[s] = table[s]
    <3>1. UNCHANGED table \/ \E row : table' = [table EXCEPT ![calls[c].server] = row]
      BY <1>4 DEF Handler, ReadRow, ReadHash, Upsert, Fetch, SetToken, Gate, Delete, Astray, DropCall, Tabled
    <3>. QED  BY <1>1, <3>1 DEF TypeOK
  <2>. QED  BY <2>1, <2>2, <2>3 DEF publishers
<1>. QED  BY <1>3, <1>4

LEMMA ProberUndisturbs ==
  ASSUME TypeOK, NEW s \in Servers, Prober \/ Tick
  PROVE  Undisturbed(s)
<1>1. table[s] # NoRow => table[s] \in RowType
  BY DEF TypeOK
<1>2. CASE Prober
  <2>1. UNCHANGED <<calls, publishers>>
    BY <1>2 DEF Prober, FetchServers, ProbeOne, EndRound, Report, Prune
  <2>2. table'[s] # NoRow => table[s] # NoRow /\ table'[s].token = table[s].token
    <3>1. CASE UNCHANGED table
      BY <3>1
    <3>2. ASSUME NEW r \in Servers, Report(r), ~UNCHANGED table
          PROVE  table'[s] # NoRow => table[s] # NoRow /\ table'[s].token = table[s].token
      BY <1>1, <3>2 DEF Report, Present, TypeOK, RowType
    <3>3. CASE Prune
      BY <3>3 DEF Prune, Present
    <3>. QED  BY <1>2, <3>1, <3>2, <3>3 DEF Prober, FetchServers, ProbeOne, EndRound
  <2>. QED  BY <2>1, <2>2 DEF Undisturbed, publishers, Of
<1>3. CASE Tick
  <2>1. table'[s] # NoRow => table[s] # NoRow /\ table'[s].token = table[s].token
    BY <1>1, <1>3 DEF Tick, Present, RowType
  <2>2. \A c \in Calls :
          /\ calls'[c].server = calls[c].server
          /\ calls'[c].at = calls[c].at /\ calls'[c].token = calls[c].token
          /\ calls'[c].alone = calls[c].alone /\ calls'[c].known = calls[c].known
          /\ calls'[c].issued = calls[c].issued /\ calls'[c].answer = calls[c].answer
    <3>1. TAKE c \in Calls
    <3>2. calls[c] \in CallType /\ calls'[c] = [calls[c] EXCEPT !.seen = Aged(calls[c].seen, RecoveryAge)]
      BY <1>3 DEF Tick, TypeOK
    <3>. QED  BY <3>2 DEF CallType
  <2>3. UNCHANGED publishers
    BY <1>3 DEF Tick
  <2>. QED  BY <2>1, <2>2, <2>3 DEF Undisturbed, publishers, Of
<1>. QED  BY <1>2, <1>3

(* A call is begun: the only one, if the publisher has missed nothing.     *)
LEMMA CallOwn ==
  ASSUME TypeOK, NEW s \in Servers, OwnInv(s), NEW first \in {"get"} \cup Removals, awaits[s] = NoCall,
         Call(s, first), UNCHANGED <<table, token, doubt>>,
         up'[s] = "on" \/ (up'[s] = "stopping" /\ first \in Removals)
  PROVE  OwnInv(s)'
<1>1. PICK c \in Calls : /\ calls[c] = Idle
                         /\ calls' = [calls EXCEPT ![c] = Begun(s, first)]
                         /\ awaits' = [awaits EXCEPT ![s] = c]
  BY DEF Call, Free
<1>2. /\ awaits'[s] = c /\ calls'[c] = Begun(s, first) /\ c # NoCall
      /\ \A d \in Calls \ {c} : calls'[d] = calls[d]
  BY <1>1 DEF TypeOK
<1>3. /\ Begun(s, first).server = s /\ Begun(s, first).at = first /\ Begun(s, first).token = token[s]
      /\ Begun(s, first).alone = Alone(s) /\ Begun(s, first).known = FALSE
      /\ Begun(s, first).issued = NoToken
  BY DEF Begun
<1>4. s \notin doubt => Alone(s)
  BY DEF OwnInv, WaitInv, Alone, Of
<1>5. Alone(s) => \A d \in Calls : calls[d].server # s
  BY DEF Alone
<1>6. WaitInv(s)'
  BY <1>2, <1>3, <1>4, <1>5 DEF WaitInv, Of, Sole, Awaited
<1>7. ~Told(s)' /\ ~Told(s)
  BY <1>2, <1>3 DEF Told, Awaited, Removals
<1>8. GoneInv(s)'
  BY <1>7 DEF GoneInv
<1>9. TokenInv(s)'
  BY <1>2, <1>3, <1>7 DEF OwnInv, TokenInv, Of, Sole, Awaited, Present, Known
<1>. QED  BY <1>6, <1>8, <1>9 DEF OwnInv

LEMMA OwnPublisher ==
  ASSUME TypeOK, NEW s \in Servers, OwnInv(s), Publisher(s)
  PROVE  OwnInv(s)'
<1>1. CASE Start(s)
  <2>1. /\ UNCHANGED <<table, calls, token, awaits, doubt>> /\ up'[s] = "on" /\ awaits[s] = NoCall
    BY <1>1 DEF Start, TypeOK, OwnInv, WaitInv
  <2>. QED  BY <2>1 DEF OwnInv, WaitInv, GoneInv, TokenInv, Of, Awaited, Sole, Told, Present, Known
<1>2. CASE Publish(s)
  BY <1>2, CallOwn DEF Publish
<1>3. CASE Stop(s)
  <2>1. CASE s \in published
    <3>1. up'[s] = "stopping" /\ UNCHANGED <<table, token, doubt>> /\ awaits[s] = NoCall
      BY <1>3, <2>1 DEF Stop, Leaving, TypeOK
    <3>2. PICK first \in Removals : Call(s, first)
      BY <1>3, <2>1 DEF Stop, Leaving
    <3>. QED  BY <3>1, <3>2, CallOwn
  <2>2. CASE s \notin published
    <3>1. UNCHANGED <<table, calls, token, awaits, doubt>> /\ up'[s] = "off" /\ awaits[s] = NoCall
      BY <1>3, <2>2 DEF Stop, Leaving, TypeOK
    <3>. QED  BY <3>1 DEF OwnInv, WaitInv, GoneInv, TokenInv, Of, Awaited, Sole, Told, Present, Known
  <2>. QED  BY <2>1, <2>2
<1>4. CASE GiveUp(s) \/ Crash(s)
  <2>1. /\ UNCHANGED <<table, calls>> /\ awaits'[s] = NoCall /\ up'[s] \in {"on", "off"}
        /\ awaits[s] # NoCall => s \in doubt'
        /\ awaits[s] = NoCall => token'[s] = token[s] /\ (s \in doubt' <=> s \in doubt)
    BY <1>4 DEF GiveUp, Crash, TypeOK, OwnInv, WaitInv
  <2>. QED  BY <2>1 DEF OwnInv, WaitInv, GoneInv, TokenInv, Of, Awaited, Sole, Told, Present, Known
<1>. QED  BY <1>1, <1>2, <1>3, <1>4 DEF Publisher

(* What a handler's step leaves of its call, and where it goes.            *)
LEMMA HandlerStep ==
  ASSUME TypeOK, NEW c \in Calls, Handler(c), ~Answer(c)
  PROVE  /\ UNCHANGED publishers /\ \A d \in Calls \ {c} : calls'[d] = calls[d]
         /\ calls'[c].server = calls[c].server /\ calls'[c].alone = calls[c].alone
         /\ calls'[c].token = calls[c].token
         /\ calls[c].at = "gate" => calls'[c].at \in {"delete", "answer"}
         /\ calls[c].at \in {"delete", "astray"} => calls'[c].at = "answer"
         /\ calls[c].at \notin {"idle", "answer"}
         /\ calls'[c].issued = calls[c].issued \/ (calls'[c].at = "answer" /\ calls'[c].answer = "ok")
<1>1. calls \in [Calls -> CallType] /\ calls[c] \in CallType
  BY DEF TypeOK
<1>2. CASE ReadRow(c)
  BY <1>1, <1>2 DEF ReadRow, At, CallType
<1>3. CASE ReadHash(c)
  BY <1>1, <1>3 DEF ReadHash, Done, At, CallType
<1>4. CASE Upsert(c)
  BY <1>1, <1>4 DEF Upsert, Move, At, CallType
<1>5. CASE Fetch(c)
  BY <1>1, <1>5 DEF Fetch, Move, Done, At, CallType
<1>6. CASE SetToken(c)
  <2>1. PICK t \in Tokens :
           calls' = [calls EXCEPT ![c].at = "answer", ![c].answer = "ok", ![c].issued = t]
    BY <1>6 DEF SetToken
  <2>2. calls[c].at = "token" /\ UNCHANGED publishers
    BY <1>6 DEF SetToken, At
  <2>. QED  BY <1>1, <2>1, <2>2 DEF CallType
<1>7. CASE Gate(c)
  BY <1>1, <1>7 DEF Gate, Move, Done, At, CallType
<1>8. CASE Delete(c)
  BY <1>1, <1>8 DEF Delete, Done, At, CallType
<1>9. CASE Astray(c)
  BY <1>1, <1>9 DEF Astray, Done, At, CallType
<1>. QED  BY <1>2, <1>3, <1>4, <1>5, <1>6, <1>7, <1>8, <1>9 DEF Handler

(* A call that is not its server's only one: an answer has been missed.    *)
LEMMA CrowdedHandler ==
  ASSUME TypeOK, NEW s \in Servers, OwnInv(s), NEW c \in Calls, Of(c, s), ~Sole(s),
         Handler(c) \/ DropCall(c)
  PROVE  OwnInv(s)'
<1>1. s \in doubt
  BY DEF OwnInv, WaitInv, Sole
<1>2. calls \in [Calls -> CallType] /\ Idle.server # s /\ Idle.issued = NoToken
  BY DEF TypeOK, Idle
<1>i. calls[c].issued # NoToken => calls[c].at = "answer"
  BY DEF OwnInv, TokenInv
<1>3. CASE ~Answer(c) /\ Handler(c)
  <2>1. UNCHANGED <<up, token, awaits, doubt>>
    BY <1>3, HandlerStep DEF publishers
  <2>2. ~Sole(s)'
    BY <1>3, <2>1, HandlerStep, awaits[s] = NoCall \/ awaits[s] \in Calls DEF Sole, Awaited, TypeOK
  <2>3. WaitInv(s)'
    BY <1>1, <1>3, <2>1, <2>2, HandlerStep DEF OwnInv, WaitInv, Of, Awaited, TypeOK, Removals
  <2>4. TokenInv(s)'
    BY <1>1, <1>3, <1>i, <2>1, <2>2, HandlerStep DEF OwnInv, TokenInv, Of
  <2>5. GoneInv(s)'
    BY <1>1, <2>1, <2>2 DEF GoneInv
  <2>. QED  BY <2>3, <2>4, <2>5 DEF OwnInv
<1>4. CASE Answer(c) \/ DropCall(c)
  <2>1. calls'[c] = Idle /\ UNCHANGED table /\ \A d \in Calls \ {c} : calls'[d] = calls[d]
    BY <1>2, <1>4 DEF Answer, DropCall
  <2>2. CASE awaits[s] = c
    <3>1. Answered(s, calls[c])
      BY <1>4, <2>2 DEF Answer, DropCall, Of
    <3>2. ~calls[c].alone
      BY <2>2 DEF Sole, Awaited, TypeOK
    <3>3. awaits'[s] = NoCall /\ UNCHANGED doubt /\ up'[s] # "stopping"
      BY <3>1, <3>2 DEF Answered, Without, TypeOK
    <3>4. ~Sole(s)'
      BY <3>3 DEF Sole
    <3>5. WaitInv(s)' /\ GoneInv(s)'
      BY <1>1, <3>3, <3>4 DEF WaitInv, GoneInv
    <3>6. TokenInv(s)'
      BY <1>1, <1>2, <2>1, <3>3, <3>4 DEF OwnInv, TokenInv, Of
    <3>. QED  BY <3>5, <3>6 DEF OwnInv
  <2>3. CASE awaits[s] # c
    <3>1. UNCHANGED <<up, token, awaits, doubt>>
      BY <1>4, <2>3 DEF Answer, DropCall, Of, publishers
    <3>2. ~Sole(s)'
      BY <2>1, <2>3, <3>1, awaits[s] = NoCall \/ awaits[s] \in Calls DEF Sole, Awaited, TypeOK
    <3>3. WaitInv(s)'
      BY <1>1, <1>2, <2>1, <2>3, <3>1, <3>2, awaits[s] = NoCall \/ awaits[s] \in Calls
      DEF OwnInv, WaitInv, Of, Awaited, TypeOK
    <3>4. TokenInv(s)'
      BY <1>1, <1>2, <2>1, <3>1, <3>2 DEF OwnInv, TokenInv, Of
    <3>5. GoneInv(s)'
      BY <1>1, <3>1, <3>2 DEF GoneInv
    <3>. QED  BY <3>3, <3>4, <3>5 DEF OwnInv
  <2>. QED  BY <2>2, <2>3
<1>. QED  BY <1>3, <1>4

(* The only call of its server, which waits for it: its answer is what the row is. *)
LEMMA SoleHandler ==
  ASSUME TypeOK, NEW s \in Servers, OwnInv(s), NEW c \in Calls, Of(c, s), Sole(s), Handler(c)
  PROVE  OwnInv(s)'
<1>1. /\ awaits[s] = c /\ calls[c].alone /\ c # NoCall /\ calls[c].server = s
      /\ \A d \in Calls : calls[d].server = s => d = c
  BY DEF OwnInv, WaitInv, Sole, Awaited, Of
<1>2. /\ calls \in [Calls -> CallType] /\ table \in [Servers -> RowType \cup {NoRow}]
      /\ Idle.server # s /\ Idle.issued = NoToken /\ NoToken \notin Tokens
  BY DEF TypeOK, Idle
<1>3. /\ calls[c].issued # NoToken => calls[c].at = "answer" /\ calls[c].answer = "ok"
      /\ calls[c].token = token[s]
      /\ up[s] # "left"
      /\ up[s] = "stopping" => calls[c].at \in {"delete", "answer"} \cup Removals
      /\ table[s] # NoRow /\ calls[c].known /\ calls[c].at \in {"upsert", "fetch"} => Known(s)
      /\ s \notin doubt /\ table[s] # NoRow /\ calls[c].at # "answer" => Known(s)
  BY <1>1 DEF OwnInv, WaitInv, TokenInv, Sole, Awaited, Of, Present, Told
<1>4. CASE Answer(c)
  <2>1. calls'[c] = Idle /\ UNCHANGED table /\ \A d \in Calls \ {c} : calls'[d] = calls[d]
    BY <1>2, <1>4 DEF Answer
  <2>2. Answered(s, calls[c]) /\ calls[c].at = "answer"
    BY <1>1, <1>4 DEF Answer, At
  <2>3. /\ awaits'[s] = NoCall /\ up'[s] # "stopping"
        /\ token'[s] = IF calls[c].issued # NoToken THEN calls[c].issued ELSE token[s]
        /\ up'[s] = "left" => up[s] = "stopping" /\ calls[c].answer = "ok"
        /\ s \notin doubt' => s \notin doubt \/ calls[c].answer = "ok"
    <3>1. up[s] \in {"off", "on", "stopping", "left", "astray"}
      BY DEF TypeOK
    <3>. QED  BY <1>1, <1>3, <2>2, <3>1 DEF Answered, Without, TypeOK
  <2>4. ~Sole(s)' /\ \A d \in Calls : calls'[d].server # s
    BY <1>1, <1>2, <2>1, <2>3 DEF Sole
  <2>5. WaitInv(s)'
    BY <2>3, <2>4 DEF WaitInv, Of
  <2>6. GoneInv(s)'
    BY <1>1, <2>1, <2>2, <2>3, <2>4 DEF OwnInv, GoneInv, Told, Awaited, Present
  <2>7. s \notin doubt' /\ Present(s)' => Known(s)'
    <3>1. calls[c].answer = "ok" /\ table[s] # NoRow =>
             \/ calls[c].issued = NoToken /\ Known(s)
             \/ calls[c].issued # NoToken /\ table[s].token = calls[c].issued
      BY <1>1, <2>2 DEF OwnInv, TokenInv, Told, Awaited, Present
    <3>2. calls[c].answer # "ok" /\ table[s] # NoRow /\ s \notin doubt => Known(s)
      BY <1>1, <2>2 DEF OwnInv, TokenInv, Told, Awaited, Present
    <3>. QED  BY <1>3, <2>1, <2>3, <3>1, <3>2 DEF Known, Present
  <2>8. TokenInv(s)'
    BY <2>4, <2>7 DEF TokenInv, Of
  <2>. QED  BY <2>5, <2>6, <2>8 DEF OwnInv
<1>5. CASE ~Answer(c)
  <2>1. /\ UNCHANGED <<up, token, awaits, doubt>> /\ \A d \in Calls \ {c} : calls'[d] = calls[d]
        /\ calls'[c].server = s /\ calls'[c].alone /\ calls'[c].token = token[s]
        /\ calls[c].at # "answer"
        /\ up[s] = "stopping" => calls'[c].at \in {"delete", "answer"}
    BY <1>1, <1>3, <1>5, HandlerStep DEF publishers, Removals
  <2>2. WaitInv(s)'
    BY <1>1, <1>3, <2>1 DEF OwnInv, WaitInv, Of, Sole, Awaited, Removals
  <2>3. /\ calls'[c].issued # NoToken => calls'[c].at = "answer" /\ calls'[c].answer = "ok"
        /\ table'[s] # NoRow /\ calls'[c].known /\ calls'[c].at \in {"upsert", "fetch"} => Known(s)'
        /\ table'[s] # NoRow /\ calls'[c].at = "answer" /\ calls'[c].answer = "ok" =>
              \/ calls'[c].issued = NoToken /\ Known(s)'
              \/ calls'[c].issued # NoToken /\ table'[s].token = calls'[c].issued
        /\ s \notin doubt' /\ table'[s] # NoRow =>
              Known(s)' \/ (calls'[c].at = "answer" /\ calls'[c].answer = "ok")
        /\ up[s] = "stopping" /\ calls'[c].at = "answer" /\ calls'[c].answer = "ok" => table'[s] = NoRow
    <3>1. CASE ReadRow(c)
      BY <1>1, <1>2, <1>3, <2>1, <3>1 DEF ReadRow, At, CallType, Known
    <3>2. CASE ReadHash(c)
      BY <1>1, <1>2, <1>3, <2>1, <3>2 DEF ReadHash, Done, At, CallType, Known, Row
    <3>3. CASE Upsert(c)
      <4>1. table'[s] = Refreshed(table[s])
        BY <1>1, <1>2, <3>3 DEF Upsert, Tabled, Row
      <4>2. Known(s)' \/ (table[s] # NoRow /\ table'[s].token = table[s].token)
        BY <1>2, <2>1, <4>1 DEF Refreshed, NewRow, Known, RowType
      <4>3. /\ calls'[c].at = "fetch" /\ calls'[c].known = calls[c].known
            /\ calls'[c].issued = calls[c].issued /\ calls[c].at = "upsert"
        BY <1>1, <1>2, <3>3 DEF Upsert, Move, At, CallType
      <4>. QED  BY <1>3, <2>1, <4>2, <4>3 DEF Known, Removals
    <3>4. CASE Fetch(c)
      BY <1>1, <1>2, <1>3, <2>1, <3>4 DEF Fetch, Move, Done, At, CallType, Known, Row, Removals
    <3>5. CASE SetToken(c)
      <4>1. PICK t \in Tokens :
              /\ calls' = [calls EXCEPT ![c].at = "answer", ![c].answer = "ok", ![c].issued = t]
              /\ IF Row(c) = NoRow THEN UNCHANGED table ELSE Tabled(c, [Row(c) EXCEPT !.token = t])
        BY <3>5 DEF SetToken
      <4>2. calls'[c].issued = t /\ calls'[c].at = "answer" /\ calls'[c].answer = "ok" /\ calls[c].at = "token"
        BY <1>2, <3>5, <4>1 DEF SetToken, At, CallType
      <4>3. table'[s] # NoRow => table'[s].token = t
        <5>1. table[s] # NoRow => [table[s] EXCEPT !.token = t].token = t
          BY <1>2 DEF RowType
        <5>2. IF table[s] = NoRow THEN table' = table
              ELSE table' = [table EXCEPT ![s] = [table[s] EXCEPT !.token = t]]
          BY <1>1, <1>2, <4>1 DEF Tabled, Row
        <5>3. table[s] # NoRow => table'[s] = [table[s] EXCEPT !.token = t]
          BY <1>2, <5>2
        <5>. QED  BY <5>1, <5>2, <5>3
      <4>. QED  BY <1>2, <1>3, <2>1, <4>2, <4>3 DEF Removals
    <3>6. CASE Gate(c)
      BY <1>1, <1>2, <1>3, <2>1, <3>6 DEF Gate, Move, Done, At, CallType, Known
    <3>7. CASE Delete(c)
      BY <1>1, <1>2, <1>3, <2>1, <3>7 DEF Delete, Done, Tabled, At, CallType, Known
    <3>8. CASE Astray(c)
      BY <1>1, <1>2, <1>3, <2>1, <3>8 DEF Astray, Done, At, CallType, Known
    <3>. QED  BY <1>5, <3>1, <3>2, <3>3, <3>4, <3>5, <3>6, <3>7, <3>8 DEF Handler
  <2>4. Sole(s)' /\ (Awaited(s) = calls[c])' /\ \A d \in Calls : calls'[d].server = s => d = c
    BY <1>1, <2>1 DEF Sole, Awaited
  <2>5. awaits'[s] = c /\ (Told(s)' <=> calls'[c].at = "answer" /\ calls'[c].answer = "ok")
    BY <1>1, <2>1 DEF Told, Awaited
  <2>6. GoneInv(s)'
    BY <1>3, <2>1, <2>3, <2>5 DEF GoneInv, Present
  <2>7. TokenInv(s)'
    BY <2>1, <2>3, <2>4, <2>5 DEF TokenInv, Of, Present
  <2>. QED  BY <2>2, <2>6, <2>7 DEF OwnInv
<1>. QED  BY <1>4, <1>5

LEMMA Inductive == IInv /\ [Next]_vars => IInv'
<1>. SUFFICES ASSUME IInv, [Next]_vars PROVE IInv'
  OBVIOUS
<1>1. TypeOK /\ \A s \in Servers : OwnInv(s)
  BY DEF IInv
<1>2. TypeOK'
  <2>1. CASE UNCHANGED vars
    BY <1>1, <2>1 DEF vars, publishers, counters, TypeOK
  <2>. QED  BY <1>1, <2>1, PublisherTyped, HandlerTyped, ProberTyped, TickTyped DEF Next
<1>3. ASSUME NEW s \in Servers PROVE OwnInv(s)'
  <2>0. OwnInv(s)
    BY <1>1
  <2>1. CASE UNCHANGED vars
    <3>1. Undisturbed(s)
      BY <2>1 DEF vars, publishers, Undisturbed, Of
    <3>. QED  BY <1>1, <2>0, <3>1, Frame
  <2>2. ASSUME NEW r \in Servers, Publisher(r) PROVE OwnInv(s)'
    BY <1>1, <2>0, <2>2, OwnPublisher, OthersPublisher, Frame
  <2>3. ASSUME NEW c \in Calls, Handler(c) \/ DropCall(c) PROVE OwnInv(s)'
    <3>1. CASE ~Of(c, s)
      BY <1>1, <2>0, <2>3, <3>1, OthersHandler, Frame
    <3>2. CASE Of(c, s) /\ ~Sole(s)
      BY <1>1, <2>0, <2>3, <3>2, CrowdedHandler
    <3>3. CASE Of(c, s) /\ Sole(s)
      <4>1. ~DropCall(c)
        BY <2>0, <3>3 DEF DropCall, Of, OwnInv, WaitInv
      <4>. QED  BY <1>1, <2>0, <2>3, <3>3, <4>1, SoleHandler
    <3>. QED  BY <3>1, <3>2, <3>3
  <2>4. CASE Prober \/ Tick
    BY <1>1, <2>0, <2>4, ProberUndisturbs, Frame
  <2>. QED  BY <2>1, <2>2, <2>3, <2>4 DEF Next
<1>. QED  BY <1>2, <1>3 DEF IInv

LEMMA Invariant == Spec => []IInv
<1>1. Init => IInv
  <2>1. ASSUME Init, NEW s \in Servers PROVE OwnInv(s)
    BY <2>1 DEF Init, OwnInv, WaitInv, GoneInv, TokenInv, Of, Sole, Told, Present, Idle
  <2>. QED  BY <2>1, InitTyped DEF IInv
<1>. QED  BY <1>1, Inductive, PTL DEF Spec

(* A server that was told of its removal stays out of the table: no handler of an
   earlier call of it can be at work, so none enters it again.  (A server whose
   removal went astray was told of a removal, too, and is not meant.)         *)
THEOREM StoppedStayGone == Spec => []StoppedGone
<1>1. IInv => StoppedGone
  BY DEF IInv, OwnInv, GoneInv, StoppedGone
<1>. QED  BY <1>1, Invariant, PTL

(* What the service keeps as a server's token is what the server would send, or
   nothing, whatever was removed and entered again meanwhile.                *)
THEOREM RowsRecognised == Spec => []TokenAgrees
<1>1. IInv => TokenAgrees
  <2>1. ASSUME IInv, NEW s \in Servers, s \notin doubt, Present(s), \A c \in Calls : calls[c].server # s
        PROVE  table[s].token \in {token[s], NoToken}
    <3>1. awaits[s] \in Calls \cup {NoCall}
      BY <2>1 DEF IInv, TypeOK
    <3>2. ~Told(s)
      BY <2>1, <3>1 DEF IInv, OwnInv, WaitInv, Of, Told
    <3>. QED  BY <2>1, <3>2 DEF IInv, OwnInv, TokenInv, Known
  <2>. QED  BY <2>1 DEF TokenAgrees
<1>. QED  BY <1>1, Invariant, PTL

(* Who is waited for is never a call of another server, and a publisher that has
   missed no answer has at most the one call at work: what it tells the service
   arrives in the order in which it says it.                                 *)
THEOREM OneCallEach ==
  Spec => [](\A s \in Servers, c \in Calls, d \in Calls :
               s \notin doubt /\ calls[c].server = s /\ calls[d].server = s => c = d)
<1>1. IInv => \A s \in Servers, c \in Calls, d \in Calls :
               s \notin doubt /\ calls[c].server = s /\ calls[d].server = s => c = d
  BY DEF IInv, OwnInv, WaitInv, Of
<1>. QED  BY <1>1, Invariant, PTL
=============================================================================
