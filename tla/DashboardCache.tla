--------------------------- MODULE DashboardCache ---------------------------
(***************************************************************************)
(* The dashboard's cache in Redis: a summary per active work item, with a  *)
(* TTL, and the sorted set of active work items, without one (backend/src/ *)
(* repositories/redis/dashboardCache.ts). Mutations write through after    *)
(* their commit; readers (services/dashboard/dashboardProjection.ts) fill  *)
(* in what they miss from Postgres snapshots of their own.                 *)
(*                                                                         *)
(* A cache write is two Redis commands that leave together; the commands   *)
(* of other connections run between them and a failing Redis may lose      *)
(* either. Postgres reads, command by command writes and answers of every  *)
(* request interleave.                                                     *)
(***************************************************************************)
EXTENDS IncidentBoard, Sequences

CONSTANTS
  Writers,      (* transition requests and worker batches under way at once   *)
  Readers,      (* dashboard requests under way at once                       *)
  Tables,       (* the rows to start from, a subset of Rows                   *)
  Failures,     (* what may fail in this instance                             *)
  MaxCommits,   (* bound of the model: row changes in a behaviour             *)
  MaxFaults     (* bound of the model: failures in a behaviour                *)

Actors == Writers \cup Readers

ASSUME CacheAssumption ==
  /\ Items # {}
  /\ Writers \cap Readers = {}
  /\ Tables \subseteq Rows
  /\ Failures \subseteq {"redis", "crash", "flush"}
  /\ MaxCommits \in Nat /\ MaxFaults \in Nat

VARIABLES
  told,         (* [Items -> State or Absent], the last state published       *)
  summary,      (* [Items -> State or Absent], dashboard:incident:<id>        *)
  listed,       (* SUBSET Items, dashboard:active_incidents                   *)
  sent,         (* [Actors -> Seq(Command)], commands Redis has yet to run    *)
  writer,       (* [Writers -> WriterState]                                   *)
  reader,       (* [Readers -> ReaderState]                                   *)
  commits,      (* row changes so far                                         *)
  faults,       (* failures so far                                            *)
  raced         (* history: a cache write was lost, or left the cache with    *)
                (* another state than the row had when it ran                 *)

vars == <<row, page, told, summary, listed, sent, writer, reader,
          commits, faults, raced>>

(* What a summary may say: a closed work item has none. *)
Summaries == (State \ {"CLOSED"}) \cup {Absent}

Command == [key : {"summary", "active"}, item : Items, value : Summaries]

WriterState == [at : {"idle", "write", "publish"}, item : Items, state : State]

(* need: ids whose summary is still to be asked for; miss: those Redis did *)
(* not have; found: what the answer holds so far.                              *)
ReaderState ==
  [at : {"idle", "page", "refill", "fill", "rows", "detail", "exists"},
   need : SUBSET Items, miss : SUBSET Items, found : Rows]

Active(i) == row[i] \notin {Absent, "CLOSED"}

ActiveItems == {i \in Items : Active(i)}

(* listActive: the active rows as they are now. *)
Snapshot == [i \in Items |-> IF Active(i) THEN row[i] ELSE Absent]

Nowhere == [i \in Items |-> Absent]

AtRest == [at |-> "idle", item |-> CHOOSE i \in Items : TRUE, state |-> "OPEN"]

Idle == [at |-> "idle", need |-> {}, miss |-> {}, found |-> Nowhere]

(* The cache kept up with the tables so far. *)
Init ==
  /\ row \in Tables
  /\ page = Nowhere /\ told = row
  /\ summary = Snapshot
  /\ listed = ActiveItems
  /\ sent = [a \in Actors |-> <<>>]
  /\ writer = [w \in Writers |-> AtRest]
  /\ reader = [q \in Readers |-> Idle]
  /\ commits = 0 /\ faults = 0
  /\ raced = FALSE

(* One of the failures of the instance strikes. *)
Fault(kind) == /\ kind \in Failures /\ faults < MaxFaults
               /\ faults' = faults + 1

-----------------------------------------------------------------------------
(* The commands of a cache write.                                          *)

(* Definitions named Faulty... are seeded faults: each replaces the        *)
(* definition after it in a run that must then find a property violated.   *)

(* Fault: a closed work item is upserted like any other. *)
FaultyCached(s) == s

(* upsertActiveIncident of a CLOSED row is removeIncident. *)
Cached(s) == IF s = "CLOSED" THEN Absent ELSE s

(* Fault: closing deletes the summary only. *)
FaultyUpsert(i, s) == << [key |-> "summary", item |-> i, value |-> Cached(s)] >> \o
  IF s = "CLOSED" THEN <<>> ELSE << [key |-> "active", item |-> i, value |-> s] >>

(* SET EX or DEL of the summary, then ZADD or ZREM. *)
Upsert(i, s) == << [key |-> "summary", item |-> i, value |-> Cached(s)],
                   [key |-> "active",  item |-> i, value |-> Cached(s)] >>

(* Redis runs the next command of a. *)
Execute(a) ==
  /\ sent[a] # <<>>
  /\ LET c == Head(sent[a]) IN
       /\ IF c.key = "summary"
            THEN summary' = [summary EXCEPT ![c.item] = c.value] /\ UNCHANGED listed
            ELSE /\ listed' = IF c.value = Absent THEN listed \ {c.item}
                                                  ELSE listed \cup {c.item}
                 /\ UNCHANGED summary
       /\ raced' = (raced \/ c.value # Cached(row[c.item]))
  /\ sent' = [sent EXCEPT ![a] = Tail(@)]
  /\ UNCHANGED <<row, page, told, writer, reader, commits, faults>>

(* Redis fails it: logged, and the caller goes on. *)
LoseCommand(a) ==
  /\ Fault("redis")
  /\ sent[a] # <<>>
  /\ sent' = [sent EXCEPT ![a] = Tail(@)]
  /\ raced' = TRUE
  /\ UNCHANGED <<row, page, told, summary, listed, writer, reader, commits>>

(* Fault: the TTL is dropped. *)
FaultyExpire(i) == FALSE /\ UNCHANGED vars

(* The TTL of a summary passes. *)
Expire(i) ==
  /\ summary[i] # Absent
  /\ summary' = [summary EXCEPT ![i] = Absent]
  /\ UNCHANGED <<row, page, told, listed, sent, writer, reader, commits, faults, raced>>

(* FLUSHALL, or a restart of Redis without its data. *)
Flush ==
  /\ Fault("flush")
  /\ summary' = Nowhere
  /\ listed' = {}
  /\ raced' = TRUE
  /\ UNCHANGED <<row, page, told, sent, writer, reader, commits>>

-----------------------------------------------------------------------------
(* The mutations: commit, cache, then publish.                             *)

(* Fault: the event leaves before the cache is written. *)
FaultyWriteThrough(w, i, s) ==
  /\ writer' = [writer EXCEPT ![w] = [at |-> "publish", item |-> i, state |-> s]]
  /\ sent' = [sent EXCEPT ![w] = Upsert(i, s)]

(* The row the commit returned goes to the cache; the event waits for it. *)
WriteThrough(w, i, s) ==
  /\ writer' = [writer EXCEPT ![w] = [at |-> "write", item |-> i, state |-> s]]
  /\ sent' = [sent EXCEPT ![w] = Upsert(i, s)]

(* Fault: the cache is written for a change that then does not commit. *)
FaultyCommit(w, i) ==
  /\ writer[w].at = "idle" /\ sent[w] = <<>>
  /\ \E s \in State : Rank(s) = Rank(row[i]) + 1 /\ WriteThrough(w, i, s)
  /\ UNCHANGED <<row, page, told, summary, listed, reader, commits, faults, raced>>

(* A batch creates the work item, or a request moves it one state on. *)
Commit(w, i) ==
  /\ commits < MaxCommits
  /\ writer[w].at = "idle" /\ sent[w] = <<>>
  /\ \E s \in State : Advance(i, s) /\ WriteThrough(w, i, s)
  /\ commits' = commits + 1
  /\ UNCHANGED <<page, told, summary, listed, reader, faults, raced>>

(* incrementSignalCount: the row it returns is written through, whatever   *)
(* its state, and no event follows.                                        *)
Count(w, i) ==
  /\ writer[w].at = "idle" /\ sent[w] = <<>>
  /\ row[i] # Absent
  /\ sent' = [sent EXCEPT ![w] = Upsert(i, row[i])]
  /\ UNCHANGED <<row, page, told, summary, listed, writer, reader, commits, faults, raced>>

(* Both commands were answered; alert and metrics done, the event is next. *)
Written(w) ==
  /\ writer[w].at = "write" /\ sent[w] = <<>>
  /\ writer' = [writer EXCEPT ![w].at = "publish"]
  /\ UNCHANGED <<row, page, told, summary, listed, sent, reader, commits, faults, raced>>

(* safePublish: workItemCreated or workItemStateChanged, for the streams   *)
(* of whoever is connected.                                                *)
Publish(w) ==
  /\ writer[w].at = "publish"
  /\ told' = [told EXCEPT ![writer[w].item] = writer[w].state]
  /\ writer' = [writer EXCEPT ![w] = AtRest]
  /\ UNCHANGED <<row, page, summary, listed, sent, reader, commits, faults, raced>>

(* Redis fails it: the event is dropped. *)
PublishFails(w) ==
  /\ Fault("redis")
  /\ writer[w].at = "publish"
  /\ writer' = [writer EXCEPT ![w] = AtRest]
  /\ UNCHANGED <<row, page, told, summary, listed, sent, reader, commits, raced>>

(* The process stops between the commit and the cache. *)
CrashWriter(w) ==
  /\ Fault("crash")
  /\ writer[w].at = "write"
  /\ writer' = [writer EXCEPT ![w] = AtRest]
  /\ sent' = [sent EXCEPT ![w] = <<>>]
  /\ raced' = TRUE
  /\ UNCHANGED <<row, page, told, summary, listed, reader, commits>>

-----------------------------------------------------------------------------
(* The readers.                                                            *)

Move(q, place) == reader' = [reader EXCEPT ![q].at = place]

Begin(q, place, ids) ==
  /\ reader[q].at = "idle" /\ sent[q] = <<>>
  /\ reader' = [reader EXCEPT ![q] = [Idle EXCEPT !.at = place, !.need = ids]]

(* GET /incidents, and GET /incidents/:id. *)
BeginList(q) ==
  /\ Begin(q, "page", {})
  /\ UNCHANGED <<row, page, told, summary, listed, sent, writer, commits, faults, raced>>

BeginDetail(q, i) ==
  /\ Begin(q, "detail", {i})
  /\ UNCHANGED <<row, page, told, summary, listed, sent, writer, commits, faults, raced>>

(* GET /incidents/:id/signals and /transitions: incidentExists first. *)
BeginExists(q, i) ==
  /\ Begin(q, "exists", {i})
  /\ UNCHANGED <<row, page, told, summary, listed, sent, writer, commits, faults, raced>>

(* total = 0 on the first read: nothing active, or nothing cached. *)
MustRefill(q) == listed = {} /\ reader[q].at = "page"

(* getActiveIncidentIds: ZCARD and ZRANGE, once more after a refill. *)
ReadPage(q) ==
  /\ \/ reader[q].at = "page"
     \/ reader[q].at = "fill" /\ reader[q].need = {} /\ sent[q] = <<>>
  /\ IF MustRefill(q)
       THEN Move(q, "refill")
       ELSE reader' = [reader EXCEPT ![q].at = "rows", ![q].need = listed,
                                     ![q].found = Nowhere]
  /\ UNCHANGED <<row, page, told, summary, listed, sent, writer, commits, faults, raced>>

(* CacheUnavailableError: the page is listActive of Postgres instead. *)
ReadPageFromPostgres(q) ==
  /\ Fault("redis")
  /\ \/ reader[q].at = "page"
     \/ reader[q].at = "fill" /\ reader[q].need = {} /\ sent[q] = <<>>
  /\ reader' = [reader EXCEPT ![q].at = "rows", ![q].found = Snapshot]
  /\ UNCHANGED <<row, page, told, summary, listed, sent, writer, commits, raced>>

(* repopulateActiveCache: the active rows of one snapshot ... *)
Refill(q) ==
  /\ reader[q].at = "refill"
  /\ reader' = [reader EXCEPT ![q].at = "fill", ![q].need = ActiveItems,
                              ![q].found = Snapshot]
  /\ UNCHANGED <<row, page, told, summary, listed, sent, writer, commits, faults, raced>>

(* ... are upserted, on one connection and so one after the other. *)
RefillItem(q, i) ==
  /\ reader[q].at = "fill" /\ i \in reader[q].need /\ sent[q] = <<>>
  /\ sent' = [sent EXCEPT ![q] = Upsert(i, reader[q].found[i])]
  /\ reader' = [reader EXCEPT ![q].need = @ \ {i}]
  /\ UNCHANGED <<row, page, told, summary, listed, writer, commits, faults, raced>>

Find(q, i, s) == reader' = [reader EXCEPT ![q].found[i] = s,
                                          ![q].need = @ \ {i}, ![q].miss = @ \ {i}]

(* GET of the summary. *)
LookUp(q, i) ==
  /\ reader[q].at \in {"rows", "detail", "exists"}
  /\ i \in reader[q].need
  /\ IF summary[i] = Absent
       THEN reader' = [reader EXCEPT ![q].need = @ \ {i}, ![q].miss = @ \cup {i}]
       ELSE Find(q, i, summary[i])
  /\ UNCHANGED <<row, page, told, summary, listed, sent, writer, commits, faults, raced>>

(* GET failed: taken for a miss. *)
LookUpFails(q, i) ==
  /\ Fault("redis")
  /\ reader[q].at \in {"rows", "detail", "exists"}
  /\ i \in reader[q].need
  /\ reader' = [reader EXCEPT ![q].need = @ \ {i}, ![q].miss = @ \cup {i}]
  /\ UNCHANGED <<row, page, told, summary, listed, sent, writer, commits, raced>>

(* An active row that was not cached is upserted; a closed one is not. *)
Fill(q, i) ==
  sent' = IF Active(i) THEN [sent EXCEPT ![q] = Upsert(i, row[i])] ELSE sent

(* findById after a miss. The list leaves a closed work item out, the      *)
(* detail shows it, and incidentExists caches nothing.                     *)
Load(q, i) ==
  /\ i \in reader[q].miss /\ sent[q] = <<>>
  /\ Find(q, i, IF reader[q].at = "rows" THEN Cached(row[i]) ELSE row[i])
  /\ IF reader[q].at = "exists" THEN UNCHANGED sent ELSE Fill(q, i)
  /\ UNCHANGED <<row, page, told, summary, listed, writer, commits, faults, raced>>

Complete(q) == /\ reader[q].at \in {"rows", "detail", "exists"}
               /\ reader[q].need = {} /\ reader[q].miss = {} /\ sent[q] = <<>>

(* The request is answered; page is the list that was served last. *)
Answer(q) ==
  /\ Complete(q)
  /\ reader' = [reader EXCEPT ![q] = Idle]
  /\ page' = IF reader[q].at = "rows" THEN reader[q].found ELSE page
  /\ UNCHANGED <<row, told, summary, listed, sent, writer, commits, faults, raced>>

-----------------------------------------------------------------------------

ServerStep(q) ==
  \/ \E i \in Items : LookUp(q, i) \/ Load(q, i) \/ RefillItem(q, i)
  \/ ReadPage(q) \/ Refill(q) \/ Answer(q)

Failure == \/ Flush
           \/ \E a \in Actors : LoseCommand(a)
           \/ \E w \in Writers : CrashWriter(w) \/ PublishFails(w)
           \/ \E q \in Readers : \/ ReadPageFromPostgres(q)
                                 \/ \E i \in Items : LookUpFails(q, i)

Next ==
  \/ \E a \in Actors : Execute(a)
  \/ \E i \in Items : Expire(i)
  \/ \E w \in Writers : \/ \E i \in Items : Commit(w, i) \/ Count(w, i)
                        \/ Written(w) \/ Publish(w)
  \/ \E q \in Readers : \/ BeginList(q) \/ \E i \in Items : BeginDetail(q, i) \/ BeginExists(q, i)
                        \/ ServerStep(q)
  \/ Failure

Spec == Init /\ [][Next]_vars

(* Redis runs what it is sent and lets TTLs pass, and whoever is under way *)
(* goes on. Nobody has to change a row or ask for a page, and nothing has  *)
(* to fail.                                                                *)
Fairness ==
  /\ \A a \in Actors : WF_vars(Execute(a))
  /\ \A i \in Items : WF_vars(Expire(i))
  /\ \A w \in Writers : WF_vars(Written(w) \/ Publish(w))
  /\ \A q \in Readers : WF_vars(ServerStep(q))

FairSpec == Spec /\ Fairness

-----------------------------------------------------------------------------

TypeOK ==
  /\ row \in Rows /\ page \in Rows /\ told \in Rows
  /\ summary \in [Items -> Summaries]
  /\ listed \in SUBSET Items
  /\ sent \in [Actors -> Seq(Command)]
  /\ writer \in [Writers -> WriterState]
  /\ reader \in [Readers -> ReaderState]
  /\ commits \in Nat /\ faults \in Nat /\ raced \in BOOLEAN

(* What the promise is about: the list that was served last. *)
Board == INSTANCE IncidentBoard WITH page <- page

(* Through the cache, snapshots of readers, their write-backs and the      *)
(* fallback to Postgres, a list shows a work item only in a state that the *)
(* tables have entered.                                                    *)
Implements == Board!BoardSpec

Quiet(i) == \A a \in Actors : \A n \in DOMAIN sent[a] : sent[a][n].item # i

(* Writers and readers, write-through and write-back, in any order: while  *)
(* no write was lost and none ran after a later commit, an item for which  *)
(* no command is on its way is cached as its row is, and not listed once   *)
(* closed. So a ghost in the list has one of those two causes.             *)
QuietCacheAgrees ==
  ~ raced => \A i \in Items : Quiet(i) =>
    /\ summary[i] \in {Absent, Cached(row[i])}
    /\ i \in listed => Active(i)

(* What a request that asks for i now is shown: the summary, or the row.   *)
Shown(i) == IF summary[i] # Absent THEN summary[i] ELSE row[i]

(* An event only says "fetch again" (docs/decisions/0007), so it must not  *)
(* overtake the cache: who fetches because of it is shown the announced    *)
(* state or a later one, unless a write was lost or raced.                 *)
EventsFollowCache ==
  ~ raced => \A i \in Items : Rank(told[i]) <= Rank(Shown(i))

(* The safety net of the TTL: whatever was lost and whoever raced, a       *)
(* summary that stays behind its row is gone in the end, and no reader     *)
(* brings it back.                                                         *)
SummariesConverge ==
  \A i \in Items, s \in State :
    <>[](row[i] = s) => <>[](summary[i] \in {Absent, Cached(s)})

=============================================================================
