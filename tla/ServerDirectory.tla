--------------------------- MODULE ServerDirectory ---------------------------
(***************************************************************************)
(* The public directory of game servers: the master service with its table *)
(* of servers, the publishers in the game servers that keep their rows     *)
(* alive, and the prober that says which servers answer.                   *)
(*                                                                         *)
(* The handlers of the service are asynchronous: between two statements on *)
(* the database anything may happen, other calls of the same server        *)
(* included.  A publisher waits for its answer, and gives up after a time; *)
(* the handler then goes on, or is dropped where it waits.  A restart of   *)
(* the service is no more than that for all calls: the table is on disk.   *)
(*                                                                         *)
(* Time is counted in ages: a tick (a minute) makes every row, verdict and *)
(* snapshot older, up to an age from which on nothing changes any more.    *)
(***************************************************************************)
EXTENDS Naturals, FiniteSets

CONSTANTS
    Servers,          \* the publishers, and the rows the service keeps of them
    Calls,            \* the calls of publishers the service handles at once
    Nobody, NoCall, NoRow,
    Tokens, NoToken,  \* server tokens (a token and its hash are the same here)
    RequireToken,     \* require_server_token
    FreshAge,         \* HEARTBEAT_FRESH_MS: older rows are not listed
    HideAge,          \* UNREACHABLE_HIDE_MS: older verdicts hide nobody
    RecoveryAge,      \* SERVER_TOKEN_RECOVERY_MS: rows so old are anybody's
    MaxAge,           \* prune_max_age: older rows are removed
    OutageMin,        \* PROBE_OUTAGE_MIN_SERVERS
    MaxStarts,        \* bound: starts of game servers
    MaxLosses,        \* bound: answers given up, and publishers killed
    MaxMisses         \* bound: live servers the prober does not reach

ASSUME NamesAssumption == Nobody \notin Servers /\ NoCall \notin Calls /\ NoToken \notin Tokens
ASSUME AgesAssumption ==
    /\ FreshAge \in Nat /\ HideAge \in Nat /\ RecoveryAge \in Nat /\ MaxAge \in Nat
    /\ OutageMin \in Nat
ASSUME FlagAssumption == RequireToken \in BOOLEAN
ASSUME BoundsAssumption == MaxStarts \in Nat /\ MaxLosses \in Nat /\ MaxMisses \in Nat

VARIABLES
    table,      \* the servers table
    calls,      \* the handlers at work
    up,         \* of each game server: "off", "on", "stopping", or it "left" the directory,
                \* or went "astray": it takes itself to have left
    published,  \* those with a GPublishedServerId
    token,      \* g_serverToken of each, which is also in its file
    awaits,     \* the call each publisher waits for
    doubt,      \* history: the servers that may have missed an answer
    prober,     \* the prober's round
    starts, losses, misses

publishers == <<up, published, token, awaits, doubt>>
counters   == <<starts, losses, misses>>
vars       == <<table, calls, publishers, prober, counters>>

Older(x, y)    == IF x > y THEN x ELSE y
Oldest         == Older(FreshAge, Older(RecoveryAge, MaxAge)) + 1
Aged(a, limit) == IF a < limit THEN a + 1 ELSE limit

(* Of the prober's verdict a row has the age of the last "unreachable" (one
   failure is enough, UNREACHABLE_AFTER_FAILURES), and Expired without one.  *)
Expired == HideAge + 1
NewRow  == [age |-> 0, hidden |-> Expired, token |-> NoToken]
Idle    == [server |-> Nobody, at |-> "idle", token |-> NoToken, alone |-> FALSE,
            seen |-> RecoveryAge, known |-> FALSE, issued |-> NoToken, answer |-> "none"]

Present(s) == table[s] # NoRow
Rows       == {s \in Servers : Present(s)}

(* Repository::list with the browser's defaults: the rows that are alive, but
   for those the prober has found unreachable of late.                       *)
ListedEver(s) == Present(s) /\ table[s].hidden = Expired   \* mutant: not the row's age
Listed(s) ==
    /\ Present(s)
    /\ table[s].age <= FreshAge
    /\ table[s].hidden > HideAge

-----------------------------------------------------------------------------
(* The publisher in a game server.  It waits for its calls, one at a time.

   The id it knows of is the address it advertises (SetNetworkAdvertiseAddress, or
   else GetURL: the address of a network card) and its port.  register_server puts
   the public address the call comes from into the row instead, so the row of a
   server behind a router, or advertised by a name, has another id than the one
   the server asks to have removed: that call goes "astray".                  *)
Removals == {"gate", "astray"}

Free == {c \in Calls : calls[c] = Idle}
Alone(s) == \A d \in Calls : calls[d].server # s
Begun(s, first) == [server |-> s, at |-> first, token |-> token[s], alone |-> Alone(s),
                    seen |-> RecoveryAge, known |-> FALSE, issued |-> NoToken, answer |-> "none"]
Call(s, first) ==
    \E c \in Free :
        /\ c = CHOOSE d \in Free : TRUE       \* any: one is like the other
        /\ calls' = [calls EXCEPT ![c] = Begun(s, first)]
        /\ awaits' = [awaits EXCEPT ![s] = c]

(* StartMasterServerPublisher; the token is in the file.                   *)
Start(s) ==
    /\ up[s] \in {"off", "left", "astray"} /\ starts < MaxStarts
    /\ up' = [up EXCEPT ![s] = "on"]
    /\ starts' = starts + 1
    /\ UNCHANGED <<table, calls, published, token, awaits, doubt, prober, losses, misses>>

(* PublishState: on time (TickMasterServerPublisher), or because something has
   changed (NotifyMasterServerStateChanged).                                 *)
Publish(s) ==
    /\ up[s] = "on" /\ awaits[s] = NoCall
    /\ Call(s, "get")
    /\ UNCHANGED <<table, up, published, token, doubt, prober, counters>>

Leaving(s) ==
    IF s \in published
    THEN (\E first \in Removals : Call(s, first)) /\ up' = [up EXCEPT ![s] = "stopping"]
    ELSE up' = [up EXCEPT ![s] = "off"] /\ UNCHANGED <<calls, awaits>>
StopAtOnce(s) ==                 \* mutant: a call under way is not waited for
    /\ up[s] = "on"
    /\ published' = published \ {s}
    /\ Leaving(s)
    /\ UNCHANGED <<table, token, doubt, prober, counters>>
StopRemembering(s) ==            \* mutant: ResetPublisherState keeps GPublishedServerId
    /\ up[s] = "on" /\ awaits[s] = NoCall
    /\ Leaving(s)
    /\ UNCHANGED <<table, published, token, doubt, prober, counters>>

(* StopMasterServerPublisher.                                              *)
Stop(s) ==
    /\ up[s] = "on" /\ awaits[s] = NoCall
    /\ published' = published \ {s}
    /\ Leaving(s)
    /\ UNCHANGED <<table, token, doubt, prober, counters>>

(* What a removal makes of its server: 404 is a success to it, as well.      *)
Without(answer) == CASE answer = "ok" -> "left"
                     [] answer = "astray" -> "astray"
                     [] OTHER -> "off"

AnsweredForgetful(s, c) ==       \* mutant: a token is only taken by who has none
    LET ok == c.answer = "ok"
    IN /\ awaits' = [awaits EXCEPT ![s] = NoCall]
       /\ token' = [token EXCEPT ![s] = IF c.issued # NoToken /\ @ = NoToken THEN c.issued ELSE @]
       /\ up' = [up EXCEPT ![s] = IF @ = "stopping" THEN Without(c.answer) ELSE @]
       /\ published' = IF ok /\ up[s] = "on" THEN published \cup {s} ELSE published
       /\ doubt' = IF ok /\ c.alone THEN doubt \ {s} ELSE doubt

(* The answer arrives: CaptureIssuedServerToken, GPublishedServerId.       *)
Answered(s, c) ==
    LET ok == c.answer = "ok"
    IN /\ awaits' = [awaits EXCEPT ![s] = NoCall]
       /\ token' = [token EXCEPT ![s] = IF c.issued # NoToken THEN c.issued ELSE @]
       /\ up' = [up EXCEPT ![s] = IF @ = "stopping" THEN Without(c.answer) ELSE @]
       /\ published' = IF ok /\ up[s] = "on" THEN published \cup {s} ELSE published
       /\ doubt' = IF ok /\ c.alone THEN doubt \ {s} ELSE doubt

(* The time-out of the call: the handler knows nothing of it.              *)
GiveUp(s) ==
    /\ awaits[s] # NoCall /\ losses < MaxLosses
    /\ losses' = losses + 1
    /\ awaits' = [awaits EXCEPT ![s] = NoCall]
    /\ doubt' = doubt \cup {s}
    /\ up' = [up EXCEPT ![s] = IF @ = "stopping" THEN "off" ELSE @]
    /\ UNCHANGED <<table, calls, published, token, prober, starts, misses>>

(* The process is killed, perhaps while it writes a new token into its file. *)
Crash(s) ==
    /\ up[s] \in {"on", "stopping"} /\ losses < MaxLosses
    /\ losses' = losses + 1
    /\ up' = [up EXCEPT ![s] = "off"]
    /\ published' = published \ {s}
    /\ awaits' = [awaits EXCEPT ![s] = NoCall]
    /\ IF awaits[s] = NoCall THEN UNCHANGED <<token, doubt>>
       ELSE /\ doubt' = doubt \cup {s}
            /\ \/ UNCHANGED token
               \/ /\ calls[awaits[s]].issued # NoToken
                  /\ token' = [token EXCEPT ![s] = NoToken]
    /\ UNCHANGED <<table, calls, prober, starts, misses>>

-----------------------------------------------------------------------------
(* A handler of the service, from one await to the next.                   *)

At(c, where) == calls[c].at = where
Row(c)       == table[calls[c].server]
Move(c, to)  == calls' = [calls EXCEPT ![c].at = to]
Done(c, answer) == calls' = [calls EXCEPT ![c].at = "answer", ![c].answer = answer]
Tabled(c, row)  == table' = [table EXCEPT ![calls[c].server] = row]

(* register_server: first the row, ...                                     *)
ReadRow(c) ==
    /\ At(c, "get")
    /\ calls' = [calls EXCEPT ![c].at = "hash",
        ![c].seen = IF Row(c) # NoRow /\ Row(c).age < RecoveryAge THEN Row(c).age ELSE RecoveryAge]
    /\ UNCHANGED <<table, publishers, prober, counters>>

(* ... then its token, and the gate: a row that is alive is its owner's.   *)
OthersRowAlways(c) ==            \* mutant: no recovery
    RequireToken /\ Row(c) # NoRow /\ Row(c).token \notin {NoToken, calls[c].token}
OthersRow(c) ==
    /\ RequireToken /\ Row(c) # NoRow
    /\ Row(c).token \notin {NoToken, calls[c].token}
    /\ calls[c].seen < RecoveryAge

ReadHash(c) ==
    /\ At(c, "hash")
    /\ IF OthersRow(c) THEN Done(c, "refused")
       ELSE calls' = [calls EXCEPT ![c].at = "upsert",
                ![c].known = Row(c) # NoRow /\ calls[c].token # NoToken /\ Row(c).token = calls[c].token]
    /\ UNCHANGED <<table, publishers, prober, counters>>

(* Repository::register: a row that is there keeps its verdict and its token. *)
Refreshed(row) == IF row = NoRow THEN NewRow ELSE [row EXCEPT !.age = 0]
Upsert(c) ==
    /\ At(c, "upsert")
    /\ Tabled(c, Refreshed(Row(c)))
    /\ Move(c, "fetch")
    /\ UNCHANGED <<publishers, prober, counters>>

(* It is read again: "missing after upsert" if it was removed in between.  *)
Fetch(c) ==
    /\ At(c, "fetch")
    /\ IF Row(c) = NoRow THEN Done(c, "failed")
       ELSE IF calls[c].known THEN Done(c, "ok")
       ELSE Move(c, "token")
    /\ UNCHANGED <<table, publishers, prober, counters>>

(* Who was not known gets a token nobody else has.                         *)
InUse == {token[s] : s \in Servers} \cup {calls[c].token : c \in Calls}
         \cup {calls[c].issued : c \in Calls} \cup {table[s].token : s \in Rows}
SetToken(c) ==
    /\ At(c, "token") /\ Tokens \ InUse # {}
    /\ LET t == CHOOSE t \in Tokens : t \notin InUse
       IN /\ calls' = [calls EXCEPT ![c].at = "answer", ![c].answer = "ok", ![c].issued = t]
          /\ IF Row(c) = NoRow THEN UNCHANGED table ELSE Tabled(c, [Row(c) EXCEPT !.token = t])
    /\ UNCHANGED <<publishers, prober, counters>>

(* unregister_server: the gate knows no recovery.                          *)
Gate(c) ==
    /\ At(c, "gate")
    /\ IF RequireToken /\ Row(c) # NoRow /\ Row(c).token \notin {NoToken, calls[c].token}
       THEN Done(c, "refused") ELSE Move(c, "delete")
    /\ UNCHANGED <<table, publishers, prober, counters>>

Delete(c) ==
    /\ At(c, "delete")
    /\ Tabled(c, NoRow)
    /\ Done(c, "ok")
    /\ UNCHANGED <<publishers, prober, counters>>

(* No row has the id of a call that goes astray: the answer is 404, or 403 where a
   proxy tells the service who calls (client_ip_header), for the id must then be
   of the caller's address.                                                  *)
Astray(c) ==
    /\ At(c, "astray")
    /\ Done(c, "astray") \/ Done(c, "refused")
    /\ UNCHANGED <<table, publishers, prober, counters>>

(* The answer, to whoever still waits for it.                              *)
Answer(c) ==
    /\ At(c, "answer")
    /\ calls' = [calls EXCEPT ![c] = Idle]
    /\ LET s == calls[c].server
       IN IF awaits[s] = c THEN Answered(s, calls[c]) ELSE UNCHANGED publishers
    /\ UNCHANGED <<table, prober, counters>>

(* A handler nobody waits for may be dropped at any of its awaits.         *)
DropCall(c) ==
    /\ ~At(c, "idle") /\ awaits[calls[c].server] # c
    /\ calls' = [calls EXCEPT ![c] = Idle]
    /\ UNCHANGED <<table, publishers, prober, counters>>

-----------------------------------------------------------------------------
(* The prober: a program of its own, a round after the other.              *)

Resting == [at |-> "idle", list |-> {}, todo |-> {}, reached |-> {}]

FetchServers ==
    /\ prober.at = "idle" /\ Rows # {}
    /\ prober' = [at |-> "probing", list |-> Rows, todo |-> Rows, reached |-> {}]
    /\ UNCHANGED <<table, calls, publishers, counters>>

Probed(s, answered) == [at |-> "probing", list |-> prober.list, todo |-> prober.todo \ {s},
                        reached |-> prober.reached \cup answered]
ProbeOne(s) ==
    /\ prober.at = "probing" /\ s \in prober.todo
    /\ \/ /\ up[s] \in {"on", "stopping"}
          /\ prober' = Probed(s, {s}) /\ UNCHANGED misses
       \/ /\ up[s] \notin {"on", "stopping"}
          /\ prober' = Probed(s, {}) /\ UNCHANGED misses
       \/ /\ up[s] \in {"on", "stopping"} /\ misses < MaxMisses
          /\ prober' = Probed(s, {}) /\ misses' = misses + 1
    /\ UNCHANGED <<table, calls, publishers, starts, losses>>

(* A round that reached nobody is taken for an outage of the prober's own. *)
SuspectsItself == prober.reached = {} /\ Cardinality(prober.list) >= OutageMin
EndRound ==
    /\ prober.at = "probing" /\ prober.todo = {}
    /\ prober' = [prober EXCEPT !.at = "reporting",
                                !.todo = IF SuspectsItself THEN {} ELSE prober.list]
    /\ UNCHANGED <<table, calls, publishers, counters>>

(* observe_server.  A report that does not come through is not repeated.   *)
Report(s) ==
    /\ prober.at = "reporting" /\ s \in prober.todo
    /\ prober' = [prober EXCEPT !.todo = @ \ {s}]
    /\ \/ UNCHANGED table
       \/ /\ Present(s)
          /\ table' = [table EXCEPT ![s].hidden = IF s \in prober.reached THEN Expired ELSE 0]
    /\ UNCHANGED <<calls, publishers, counters>>

(* prune_servers, after the reports, or after a round that failed.         *)
Prune ==
    /\ \/ prober.at = "reporting" /\ prober.todo = {}
       \/ prober.at = "idle" /\ Rows # {}
    /\ prober' = Resting
    /\ table' = [s \in Servers |-> IF Present(s) /\ table[s].age > MaxAge THEN NoRow ELSE table[s]]
    /\ UNCHANGED <<calls, publishers, counters>>

-----------------------------------------------------------------------------
(* A minute passes.                                                        *)
Tick ==
    /\ table' = [s \in Servers |->
          IF Present(s) THEN [table[s] EXCEPT !.age = Aged(@, Oldest), !.hidden = Aged(@, Expired)]
          ELSE NoRow]
    /\ calls' = [c \in Calls |-> [calls[c] EXCEPT !.seen = Aged(@, RecoveryAge)]]
    /\ UNCHANGED <<publishers, prober, counters>>

Init ==
    /\ table = [s \in Servers |-> NoRow] /\ calls = [c \in Calls |-> Idle]
    /\ up = [s \in Servers |-> "off"] /\ published = {}
    /\ token = [s \in Servers |-> NoToken]
    /\ awaits = [s \in Servers |-> NoCall] /\ doubt = {}
    /\ prober = Resting
    /\ starts = 0 /\ losses = 0 /\ misses = 0

Publisher(s) == Start(s) \/ Publish(s) \/ Stop(s) \/ GiveUp(s) \/ Crash(s)
Handler(c) ==
    \/ ReadRow(c) \/ ReadHash(c) \/ Upsert(c) \/ Fetch(c) \/ SetToken(c)
    \/ Gate(c) \/ Delete(c) \/ Astray(c) \/ Answer(c)
Prober == FetchServers \/ (\E s \in Servers : ProbeOne(s) \/ Report(s)) \/ EndRound \/ Prune

Next ==
    \/ \E s \in Servers : Publisher(s)
    \/ \E c \in Calls : Handler(c) \/ DropCall(c)
    \/ Prober \/ Tick

Spec == Init /\ [][Next]_vars

(* A running publisher publishes every half minute, a handler goes on, time
   passes.  Nothing is assumed of the prober, nor that a server is ever stopped. *)
Fairness ==
    /\ \A s \in Servers : WF_vars(Publish(s))
    /\ \A c \in Calls : WF_vars(Handler(c))
    /\ WF_vars(Tick)

FairSpec == Spec /\ Fairness
-----------------------------------------------------------------------------
(* The variables keep to their types, and only a running publisher has an id it
   would ask to have removed.                                                *)
RowType == [age : 0 .. Oldest, hidden : 0 .. Expired, token : Tokens \cup {NoToken}]
CallType == [server : Servers \cup {Nobody},
             at : {"idle", "get", "hash", "upsert", "fetch", "token", "delete", "answer"} \cup Removals,
             token : Tokens \cup {NoToken}, alone : BOOLEAN, seen : 0 .. RecoveryAge, known : BOOLEAN,
             issued : Tokens \cup {NoToken}, answer : {"none", "ok", "astray", "refused", "failed"}]
TypeOK ==
    /\ table \in [Servers -> RowType \cup {NoRow}]
    /\ calls \in [Calls -> CallType]
    /\ \A c \in Calls : calls[c].server = Nobody => calls[c] = Idle
    /\ up \in [Servers -> {"off", "on", "stopping", "left", "astray"}]
    /\ published \subseteq {s \in Servers : up[s] = "on"} /\ doubt \subseteq Servers
    /\ token \in [Servers -> Tokens \cup {NoToken}]
    /\ awaits \in [Servers -> Calls \cup {NoCall}]
    /\ prober \in [at : {"idle", "probing", "reporting"}, list : SUBSET Servers,
                   todo : SUBSET Servers, reached : SUBSET Servers]
    /\ starts \in 0 .. MaxStarts /\ losses \in 0 .. MaxLosses /\ misses \in 0 .. MaxMisses

(* Between two calls a row has its publisher's token, or none, which is no
   obstacle to him, unless an answer to him was lost: whatever the prober removes
   and he enters again, and though a handler reads the row twice and writes it
   twice.                                                                    *)
TokenAgrees ==
    \A s \in Servers :
        s \notin doubt /\ Present(s) /\ (\A c \in Calls : calls[c].server # s)
        => table[s].token \in {token[s], NoToken}

(* A server that was told of its removal has no row any more: no handler of an
   earlier call enters it again, unless an answer was lost.  It is not so of a
   server whose removal went astray: it is told the same, and its row stays until
   it is too old.                                                            *)
StoppedGone == \A s \in Servers : up[s] = "left" /\ s \notin doubt => ~Present(s)

(* A running server is found in the list again and again: neither a token it has
   never received, nor a verdict of the prober, nor another handler's writing
   keeps it out for ever (SERVER_TOKEN_RECOVERY_MS, UNREACHABLE_HIDE_MS).    *)
KeptListed == \A s \in Servers : []<>(up[s] # "on" \/ Listed(s))

(* A server that is gone is gone from the list in the end, however it went and
   whether or not anybody probes or prunes (HEARTBEAT_FRESH_MS).             *)
GoneUnlisted == \A s \in Servers : []<>(up[s] \in {"on", "stopping"} \/ ~Listed(s))
=============================================================================
