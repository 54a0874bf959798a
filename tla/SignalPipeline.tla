--------------------------- MODULE SignalPipeline ---------------------------
(***************************************************************************)
(* From the queue to the stores: BullMQ jobs of signals, the workers that  *)
(* run processBatch (backend/src/workers/processBatch.ts) on them, and the *)
(* debouncer (backend/src/services/ingestion/debouncer.ts) that resolves   *)
(* each signal to a work item.                                             *)
(*                                                                         *)
(* A run of a job is a sequence of awaits on Redis, Postgres and MongoDB.  *)
(* The concurrency slots of every replica interleave at each of them, work *)
(* items are closed meanwhile, and a job may be delivered again: after a   *)
(* failed attempt, after a crash, or while a stalled run of it goes on.    *)
(***************************************************************************)
EXTENDS Integers, Sequences, FiniteSets, FiniteSetsExt

CONSTANTS
  Workers,      (* the concurrency slots of the workers                       *)
  NoWorker,
  Jobs,
  Signals,      (* signal ids, the client's or the server's                   *)
  Components,
  Batch,        (* [Jobs -> Seq(Signals)], the signals of each job            *)
  ComponentOf,  (* [Signals -> Components]                                    *)
  MaxAttempts,  (* QUEUE_MAX_ATTEMPTS                                         *)
  Failures,     (* what may fail in this instance                             *)
  MaxMishaps,   (* bound of the model: failures of all kinds                  *)
  MaxCloses     (* bound of the model: work items closed                      *)

None == 0

(* BullMQ's default: the worker's options set none. *)
MaxStalledCount == 1

JobState == {"waiting", "active", "completed", "exhausted", "abandoned", "dead", "lost"}
Resolving == {"session", "lock", "poll", "find", "create", "refind", "seed"}
Location == Resolving \cup {"idle", "insert", "count", "announce", "finish"}

Row == [component : Components, active : BOOLEAN, count : Nat, announced : Nat]

ASSUME PipelineAssumption ==
  /\ NoWorker \notin Workers
  /\ IsFiniteSet(Components) /\ IsFiniteSet(Workers)
  /\ Batch \in [Jobs -> Seq(Signals) \ {<<>>}]
  /\ ComponentOf \in [Signals -> Components]
  /\ MaxAttempts \in Nat \ {0}
  /\ Failures \subseteq {"outage", "crash", "stall", "lost_create", "lost_count"}
  /\ MaxMishaps \in Nat /\ MaxCloses \in Nat

VARIABLES
  items,        (* Seq(Row), work_items in the order they were inserted       *)
  stored,       (* [Signals -> DOMAIN items or None], the document's link     *)
  session,      (* [Components -> DOMAIN items or None], debounce:session:<id> *)
  lock,         (* the components whose debounce:lock:<id> exists             *)
  status,       (* [Jobs -> JobState]                                         *)
  holder,       (* [Jobs -> Workers or NoWorker], who may finish the job      *)
  attempts,     (* [Jobs -> 0..MaxAttempts], attemptsMade                     *)
  stalls,       (* [Jobs -> Nat], how often it was found without a holder     *)
  run,          (* [Workers -> record], the local state of a run              *)
  mishaps       (* [Failures -> Nat], how often each kind of failure struck   *)

queue  == <<status, holder, attempts, stalls>>
redis  == <<session, lock>>
stores == <<items, stored>>
vars   == <<items, stored, session, lock, status, holder, attempts, stalls, run, mishaps>>

-----------------------------------------------------------------------------

(* A slot with nothing to do. links are the resolutions so far, made the   *)
(* work items this run created, fresh the signals it inserted, found the   *)
(* work item to seed the session with, locked whether it took the lock.    *)
Idle == [pc |-> "idle", job |-> NoWorker, links |-> <<>>, made |-> {},
         fresh |-> {}, found |-> None, locked |-> FALSE]

Init ==
  /\ items = <<>>
  /\ stored = [s \in Signals |-> None]
  /\ session = [c \in Components |-> None]
  /\ lock = {}
  /\ status = [j \in Jobs |-> "waiting"]
  /\ holder = [j \in Jobs |-> NoWorker]
  /\ attempts = [j \in Jobs |-> 0]
  /\ stalls = [j \in Jobs |-> 0]
  /\ run = [w \in Workers |-> Idle]
  /\ mishaps = [kind \in Failures |-> 0]

At(w, place) == run[w].pc = place

Becomes(w, local) == run' = [run EXCEPT ![w] = local]

Goto(w, place) == Becomes(w, [run[w] EXCEPT !.pc = place])

BatchOf(w) == Batch[run[w].job]

(* The component of the signal being resolved. *)
Subject(w) == ComponentOf[BatchOf(w)[Len(run[w].links) + 1]]

Mishap(kind) == /\ kind \in Failures
                /\ MapThenSumSet(LAMBDA k : mishaps[k], Failures) < MaxMishaps
                /\ mishaps' = [mishaps EXCEPT ![kind] = @ + 1]

Active(c) == {i \in DOMAIN items : items[i].component = c /\ items[i].active}

(* Definitions named Faulty... are seeded faults: each replaces the        *)
(* definition after it in a run that must then find a property violated.   *)

-----------------------------------------------------------------------------
(* The queue.                                                              *)

(* A job that stalls this often is marked to fail. *)
StalledOut(j) == stalls[j] > MaxStalledCount

Take(w, j) ==
  /\ At(w, "idle") /\ status[j] = "waiting" /\ ~ StalledOut(j)
  /\ status' = [status EXCEPT ![j] = "active"]
  /\ holder' = [holder EXCEPT ![j] = w]
  /\ Becomes(w, [Idle EXCEPT !.pc = "session", !.job = j])
  /\ UNCHANGED <<stores, redis, attempts, stalls, mishaps>>

Holds(w) == holder[run[w].job] = w

(* The job has attempts left after the one that failed now. *)
Retries(j) == attempts[j] + 1 < MaxAttempts

(* processBatch threw: the job waits for its next attempt or is exhausted. *)
(* A run whose job was taken from it has no say any more.                  *)
AttemptFails(w) ==
  LET j == run[w].job IN
  /\ IF Holds(w)
       THEN /\ status' = [status EXCEPT
                            ![j] = IF Retries(j) THEN "waiting" ELSE "exhausted"]
            /\ attempts' = [attempts EXCEPT ![j] = @ + 1]
            /\ holder' = [holder EXCEPT ![j] = NoWorker]
            /\ UNCHANGED stalls
       ELSE UNCHANGED queue
  /\ Becomes(w, Idle)

Finish(w) ==
  /\ At(w, "finish")
  /\ IF Holds(w)
       THEN /\ status' = [status EXCEPT ![run[w].job] = "completed"]
            /\ holder' = [holder EXCEPT ![run[w].job] = NoWorker]
       ELSE UNCHANGED <<status, holder>>
  /\ Becomes(w, Idle)
  /\ UNCHANGED <<stores, redis, attempts, stalls, mishaps>>

(* The process of a slot stops: nobody holds its job. *)
Crash(w) ==
  /\ ~ At(w, "idle")
  /\ Mishap("crash")
  /\ holder' = IF Holds(w) THEN [holder EXCEPT ![run[w].job] = NoWorker] ELSE holder
  /\ Becomes(w, Idle)
  /\ UNCHANGED <<stores, redis, status, attempts, stalls>>

(* A run fails to renew its job's lock in time, and goes on. *)
Stall(j) ==
  /\ status[j] = "active" /\ holder[j] # NoWorker
  /\ Mishap("stall")
  /\ holder' = [holder EXCEPT ![j] = NoWorker]
  /\ UNCHANGED <<stores, redis, status, attempts, stalls, run>>

(* The stalled check puts a job that nobody holds back into the queue, and *)
(* counts how often it did.                                                *)
Requeue(j) ==
  /\ status[j] = "active" /\ holder[j] = NoWorker
  /\ status' = [status EXCEPT ![j] = "waiting"]
  /\ stalls' = [stalls EXCEPT ![j] = @ + 1]
  /\ UNCHANGED <<stores, redis, holder, attempts, run, mishaps>>

(* The worker that takes a job marked to fail fails it without a run, for  *)
(* good; the "failed" handler forwards it only if no attempt was left.     *)
FailStalledOut(j) ==
  /\ status[j] = "waiting" /\ StalledOut(j)
  /\ \E w \in Workers : At(w, "idle")
  /\ status' = [status EXCEPT ![j] = IF Retries(j) THEN "abandoned" ELSE "exhausted"]
  /\ attempts' = [attempts EXCEPT ![j] = @ + 1]
  /\ UNCHANGED <<stores, redis, holder, stalls, run, mishaps>>

(* forwardToDeadLetterQueue, from the "failed" handler. *)
DeadLetter(j) ==
  /\ status[j] = "exhausted"
  /\ status' = [status EXCEPT ![j] = "dead"]
  /\ UNCHANGED <<stores, redis, holder, attempts, stalls, run, mishaps>>

(* The process stops before the add, or the add fails and is only logged.  *)
DeadLetterLost(j) ==
  /\ status[j] = "exhausted"
  /\ Failures \cap {"crash", "outage"} # {}
  /\ status' = [status EXCEPT ![j] = "lost"]
  /\ UNCHANGED <<stores, redis, holder, attempts, stalls, run, mishaps>>

-----------------------------------------------------------------------------
(* The debouncer: resolve, signal by signal.                               *)

(* The signal is resolved to i; the next one's turn, or the insert's. *)
Link(w, i) ==
  LET resolved == Append(run[w].links, i)
      next     == IF Len(resolved) = Len(BatchOf(w)) THEN "insert" ELSE "session"
  IN Becomes(w, [run[w] EXCEPT !.pc = next, !.links = resolved,
                               !.found = None, !.locked = FALSE])

(* A valid session resolves the signal; its count and its age, which end   *)
(* its validity, are in SessionLapses.                                     *)
ReadSession(w) ==
  /\ At(w, "session")
  /\ IF session[Subject(w)] # None
       THEN Link(w, session[Subject(w)])
       ELSE Goto(w, "lock")
  /\ UNCHANGED <<stores, redis, queue, mishaps>>

(* SET debounce:lock:<id> NX. *)
TryLock(w) ==
  /\ At(w, "lock")
  /\ IF Subject(w) \in lock
       THEN Goto(w, "poll") /\ UNCHANGED lock
       ELSE /\ lock' = lock \cup {Subject(w)}
            /\ Becomes(w, [run[w] EXCEPT !.pc = "find", !.locked = TRUE])
  /\ UNCHANGED <<stores, session, queue, mishaps>>

PollHits(w) ==
  /\ At(w, "poll")
  /\ session[Subject(w)] # None
  /\ Link(w, session[Subject(w)])
  /\ UNCHANGED <<stores, redis, queue, mishaps>>

(* Fault: a caller without the lock waits until it sees a session. *)
FaultyPollGivesUp(w) == FALSE /\ UNCHANGED vars

(* DEBOUNCE_LOCK_WAIT_TIMEOUT_MS passes without a session seen. *)
PollGivesUp(w) ==
  /\ At(w, "poll")
  /\ Goto(w, "find")
  /\ UNCHANGED <<stores, redis, queue, mishaps>>

(* findActiveByComponentId has a row, and the run goes on to seed it. *)
Finds(w) == \E i \in Active(Subject(w)) :
              Becomes(w, [run[w] EXCEPT !.pc = "seed", !.found = i])

Find(w) ==
  /\ At(w, "find")
  /\ IF Active(Subject(w)) # {} THEN Finds(w) ELSE Goto(w, "create")
  /\ UNCHANGED <<stores, redis, queue, mishaps>>

NewRow(w) ==
  [component |-> Subject(w), active |-> TRUE, count |-> 0, announced |-> 0]

(* Fault: no unique index on the active component. *)
FaultyIndexAllows(c) == c \in Components

(* idx_work_items_active_component_id. *)
IndexAllows(c) == Active(c) = {}

Create(w) ==
  /\ At(w, "create")
  /\ IndexAllows(Subject(w))
  /\ items' = Append(items, NewRow(w))
  /\ Becomes(w, [run[w] EXCEPT !.pc = "seed", !.found = Len(items) + 1,
                                !.made = @ \cup {Len(items) + 1}])
  /\ UNCHANGED <<stored, redis, queue, mishaps>>

(* The row is inserted and the acknowledgement lost: the retry conflicts   *)
(* with the row of its own first try.                                      *)
CreateUnacknowledged(w) ==
  /\ At(w, "create")
  /\ IndexAllows(Subject(w))
  /\ Mishap("lost_create")
  /\ items' = Append(items, NewRow(w))
  /\ UNCHANGED <<stored, redis, queue, run>>

CreateConflicts(w) ==
  /\ At(w, "create")
  /\ ~ IndexAllows(Subject(w))
  /\ Goto(w, "refind")
  /\ UNCHANGED <<stores, redis, queue, mishaps>>

(* The lock is deleted by its component: whoever took it since loses it.   *)
Unlock(w) == lock' = IF run[w].locked THEN lock \ {Subject(w)} ELSE lock

(* Fault: that there is a winner is not checked. *)
FaultyRefind(w) ==
  /\ At(w, "refind")
  /\ \/ Active(Subject(w)) # {} /\ Finds(w)
     \/ Active(Subject(w)) = {} /\ Goto(w, "seed")
  /\ UNCHANGED <<stores, redis, queue, mishaps>>

(* The winner of the conflict, unless it was closed since: then the        *)
(* attempt fails.                                                          *)
Refind(w) ==
  /\ At(w, "refind")
  /\ \/ /\ Active(Subject(w)) # {}
        /\ Finds(w)
        /\ UNCHANGED <<lock, queue>>
     \/ /\ Active(Subject(w)) = {}
        /\ Unlock(w)
        /\ AttemptFails(w)
  /\ UNCHANGED <<stores, session, mishaps>>

Seeded(w) == session' = [session EXCEPT ![Subject(w)] = run[w].found]

(* seedSession, and the lock is deleted. *)
Seed(w) ==
  /\ At(w, "seed")
  /\ Seeded(w)
  /\ Unlock(w)
  /\ Link(w, run[w].found)
  /\ UNCHANGED <<stores, queue, mishaps>>

(* The session reaches its threshold or its window, or Redis drops it. *)
SessionLapses(c) ==
  /\ session[c] # None
  /\ session' = [session EXCEPT ![c] = None]
  /\ UNCHANGED <<stores, lock, queue, run, mishaps>>

LockLapses(c) ==
  /\ c \in lock
  /\ lock' = lock \ {c}
  /\ UNCHANGED <<stores, session, queue, run, mishaps>>

-----------------------------------------------------------------------------
(* processBatch: persist, count, announce.                                 *)

(* insertManyIdempotent: an unordered bulk insert, document by document.   *)
(* A signal that is there already, or gets there first, is skipped.        *)
Insert(w) ==
  /\ At(w, "insert")
  /\ \E k \in DOMAIN BatchOf(w) :
       LET s == BatchOf(w)[k] IN
       /\ stored[s] = None
       /\ stored' = [stored EXCEPT ![s] = run[w].links[k]]
       /\ Becomes(w, [run[w] EXCEPT !.fresh = @ \cup {s}])
  /\ UNCHANGED <<items, redis, queue, mishaps>>

InsertReturns(w) ==
  /\ At(w, "insert")
  /\ \A k \in DOMAIN BatchOf(w) : stored[BatchOf(w)[k]] # None
  /\ Goto(w, "count")
  /\ UNCHANGED <<stores, redis, queue, mishaps>>

(* Fault: every signal of the batch counts, new or not. *)
FaultyIncrement(w, i) ==
  Cardinality({k \in DOMAIN run[w].links : run[w].links[k] = i})

(* incrementsByWorkItemId: the signals of the batch that were inserted. *)
Increment(w, i) ==
  Cardinality({k \in DOMAIN run[w].links :
                 run[w].links[k] = i /\ BatchOf(w)[k] \in run[w].fresh})

(* updatedWorkItems. *)
Touched(w) == {i \in DOMAIN items : Increment(w, i) > 0}

(* incrementSignalCount on each of these work items. *)
Counted(w, these) ==
  items' = [i \in DOMAIN items |->
              IF i \in these THEN [items[i] EXCEPT !.count = @ + Increment(w, i)]
                             ELSE items[i]]

Count(w) ==
  /\ At(w, "count")
  /\ Counted(w, Touched(w))
  /\ Goto(w, "announce")
  /\ UNCHANGED <<stored, redis, queue, mishaps>>

(* An increment committed, its acknowledgement was lost, and it is retried. *)
CountUnacknowledged(w) ==
  /\ At(w, "count")
  /\ \E i \in Touched(w) : Counted(w, {i})
  /\ Mishap("lost_count")
  /\ UNCHANGED <<stored, redis, queue, run>>

(* Fault: every work item that was touched is announced. *)
FaultyCreatedWorkItems(w) == Touched(w)

(* createdWorkItems: created by this run, and counted into by it. *)
CreatedWorkItems(w) == run[w].made \cap Touched(w)

(* dispatch "created" and publishWorkItemCreated. Neither they nor the     *)
(* cache and the metrics before and after them throw.                      *)
Announce(w) ==
  /\ At(w, "announce")
  /\ items' = [i \in DOMAIN items |->
                 IF i \in CreatedWorkItems(w)
                   THEN [items[i] EXCEPT !.announced = @ + 1]
                   ELSE items[i]]
  /\ Goto(w, "finish")
  /\ UNCHANGED <<stored, redis, queue, mishaps>>

(* Fault: an insert that fails is taken for one that met duplicates. *)
FaultyThrow(w) ==
  /\ At(w, "insert")
  /\ Mishap("outage")
  /\ Goto(w, "count")
  /\ UNCHANGED <<stores, redis, queue>>

(* A call to Redis, Postgres or MongoDB fails, and with it the attempt.    *)
(* The lock's release is tried even then; of seedSession's two calls the   *)
(* first may have taken effect.                                            *)
Throw(w) ==
  /\ run[w].pc \in Resolving \cup {"insert"}
  /\ Mishap("outage")
  /\ UNCHANGED lock \/ Unlock(w)
  /\ UNCHANGED session \/ (At(w, "seed") /\ Seeded(w))
  /\ AttemptFails(w)
  /\ UNCHANGED stores

(* Promise.all: some increments commit, one fails. *)
CountFails(w) ==
  /\ At(w, "count")
  /\ Mishap("outage")
  /\ \E these \in SUBSET Touched(w) : Counted(w, these)
  /\ AttemptFails(w)
  /\ UNCHANGED <<stored, redis>>

(* The workflow closes a work item. *)
CloseItem(i) ==
  /\ items[i].active
  /\ Cardinality({k \in DOMAIN items : ~ items[k].active}) < MaxCloses
  /\ items' = [items EXCEPT ![i].active = FALSE]
  /\ UNCHANGED <<stored, redis, queue, run, mishaps>>

-----------------------------------------------------------------------------

Resolve(w) == \/ ReadSession(w) \/ TryLock(w) \/ PollHits(w) \/ PollGivesUp(w)
              \/ Find(w) \/ Create(w) \/ CreateConflicts(w) \/ Refind(w) \/ Seed(w)

Progress(w) == \/ \E j \in Jobs : Take(w, j)
               \/ Resolve(w)
               \/ Insert(w) \/ InsertReturns(w) \/ Count(w) \/ Announce(w)
               \/ Finish(w)

Failure(w) == \/ Crash(w) \/ Throw(w) \/ CountFails(w)
              \/ CreateUnacknowledged(w) \/ CountUnacknowledged(w)

Next == \/ \E w \in Workers : Progress(w) \/ Failure(w)
        \/ \E j \in Jobs : \/ Stall(j) \/ Requeue(j) \/ FailStalledOut(j)
                           \/ DeadLetter(j) \/ DeadLetterLost(j)
        \/ \E c \in Components : SessionLapses(c) \/ LockLapses(c)
        \/ \E i \in DOMAIN items : CloseItem(i)

Spec == Init /\ [][Next]_vars

(* A slot that can go on does: its calls return and its polls time out. A  *)
(* job without a holder is requeued, one marked to fail is taken to fail,  *)
(* and an exhausted one forwarded. No lapse, failure or close has to       *)
(* happen.                                                                 *)
Fairness == /\ \A w \in Workers : WF_vars(Progress(w))
            /\ \A j \in Jobs : /\ WF_vars(Requeue(j)) /\ WF_vars(FailStalledOut(j))
                               /\ WF_vars(DeadLetter(j))

FairSpec == Spec /\ Fairness

-----------------------------------------------------------------------------

Local == [pc : Location, job : Jobs \cup {NoWorker}, links : Seq(DOMAIN items),
          made : SUBSET DOMAIN items, fresh : SUBSET Signals,
          found : DOMAIN items \cup {None}, locked : BOOLEAN]

(* No reference to a work item dangles. *)
TypeOK ==
  /\ items \in Seq(Row)
  /\ stored \in [Signals -> DOMAIN items \cup {None}]
  /\ session \in [Components -> DOMAIN items \cup {None}]
  /\ lock \subseteq Components
  /\ status \in [Jobs -> JobState]
  /\ holder \in [Jobs -> Workers \cup {NoWorker}]
  /\ attempts \in [Jobs -> 0..MaxAttempts]
  /\ stalls \in [Jobs -> Nat]
  /\ run \in [Workers -> Local]
  /\ mishaps \in [Failures -> Nat]

(* docs/decisions/0010: "never a duplicate work item". Whatever became of  *)
(* sessions and locks, a component has one active work item at most, and   *)
(* sessions and documents name work items of their own component.          *)
OneWorkItemPerComponent ==
  /\ \A i, j \in DOMAIN items :
       /\ items[i].component = items[j].component
       /\ items[i].active /\ items[j].active
       => i = j
  /\ \A s \in Signals :
       stored[s] # None => items[stored[s]].component = ComponentOf[s]
  /\ \A c \in Components : session[c] # None => items[session[c]].component = c

(* The signals that MongoDB has under work item i. *)
Linked(i) == {s \in Signals : stored[s] = i}

(* What the runs under way will still add to the count of i. *)
Pending(i) == MapThenSumSet(LAMBDA w : IF run[w].pc \in {"insert", "count"}
                                         THEN Increment(w, i) ELSE 0, Workers)

Struck(kinds) == \E kind \in kinds \cap Failures : mishaps[kind] > 0

(* signal_count and MongoDB agree up to what the runs under way will add,  *)
(* however a job is retried, stalled or run twice at once. Only an attempt *)
(* that ends between the insert and the increment leaves signals out, and  *)
(* only a lost acknowledgement of an increment counts any twice.           *)
CountsArePersisted ==
  \A i \in DOMAIN items :
    LET total == items[i].count + Pending(i) IN
    /\ ~ Struck({"outage", "crash"}) => total >= Cardinality(Linked(i))
    /\ ~ Struck({"lost_count"}) => total <= Cardinality(Linked(i))

(* processBatch.ts: created is true "only ever once across a work item's   *)
(* lifetime": the flag alone, without the dispatcher's claim, never        *)
(* announces a work item twice, and none that counts no signal.            *)
AnnouncedOnce ==
  \A i \in DOMAIN items : /\ items[i].announced <= 1
                          /\ items[i].announced = 1 => items[i].count > 0

(* A completed job has every signal in MongoDB, whichever attempt or other *)
(* job stored it.                                                          *)
CompletedIsPersisted ==
  \A j \in Jobs : status[j] = "completed" =>
    \A k \in DOMAIN Batch[j] : stored[Batch[j][k]] # None

Hits(kinds) == MapThenSumSet(LAMBDA kind : mishaps[kind], kinds \cap Failures)

Settled(j) ==
  \/ status[j] \in {"completed", "dead", "lost"}
  \/ status[j] = "abandoned" /\ Hits({"crash", "stall"}) > MaxStalledCount

(* Locks left behind, conflicts, crashes and retries end: every job is     *)
(* completed, forwarded, or its forwarding was lost. Only one whose runs   *)
(* died or stalled more often than BullMQ allows ends without any of them, *)
(* with attempts left and no dead letter ("BullMQ will retry this one      *)
(* automatically", signalWorker.ts:78, is not so then).                    *)
JobsSettle == \A j \in Jobs : <>[] Settled(j)

(* docs/data-model.md:19-20: signal_count "is incremented by exactly 1 per *)
(* signal durably persisted to Mongo".                                     *)
OneCountPerSignal ==
  \A i \in DOMAIN items : items[i].count <= Cardinality(Linked(i))

(* docs/alerting.md:60, processBatch.ts:82: the alert "fires exactly once  *)
(* per work item creation".                                                *)
EveryCreationAnnounced ==
  (\A j \in Jobs : status[j] = "completed") /\ (\A w \in Workers : At(w, "idle"))
    => \A i \in DOMAIN items : items[i].announced = 1

=============================================================================
