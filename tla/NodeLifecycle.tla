--------------------------- MODULE NodeLifecycle ---------------------------
(***************************************************************************)
(* One backend process from boot to exit: main() of backend/src/index.ts,  *)
(* the requests of api/routes/signals.ts, the drain of the buffer into the *)
(* queue, and the shutdown that each SIGTERM or SIGINT starts, beside one  *)
(* that is under way. The buffer is a set with a capacity here; its lanes  *)
(* and marks are SignalBuffer's.                                           *)
(***************************************************************************)
EXTENDS Naturals, FiniteSets

CONSTANTS
  Requests,     (* requests that may be under way                             *)
  Signals,      (* the signals they may carry                                 *)
  Malformed,    (* those of them that the schema refuses                      *)
  MaxBatch,     (* the most signals of one request                            *)
  Room,         (* capacity of the buffer                                     *)
  Shutdowns,    (* signals that the process may get                           *)
  MaxBreaks     (* bound of the model: failed sink calls, startups, closes    *)

ASSUME NodeAssumption == /\ IsFiniteSet(Signals) /\ Malformed \subseteq Signals
                        /\ MaxBatch \in Nat /\ Room \in Nat /\ MaxBreaks \in Nat

Loops == {"tick"} \cup Shutdowns

VARIABLES
  boot,       (* what main() is waiting for, "serving" at its end             *)
  http,       (* "none", "open", "closing"                                    *)
  timer,      (* the buffer's interval is set                                 *)
  request,    (* [Requests -> SUBSET Signals], with the limiter               *)
  buffer,     (* signals in the buffer                                        *)
  batch,      (* [Loops -> SUBSET Signals], with the sink                     *)
  queued,     (* history: signals in a job                                    *)
  refused,    (* history: signals dropped, by the buffer or with a sink call  *)
  acked,      (* history: signals answered with 202                           *)
  late,       (* history: signals submitted after a drainAll returned         *)
  hook,       (* [Shutdowns -> HookState]                                     *)
  ranOut,     (* a drainAll gave up at its deadline                           *)
  exited,     (* "no", or the exit status                                     *)
  breaks

nodeVars == <<boot, http, timer, request, buffer, batch, queued, refused,
              acked, late, hook, ranOut, exited, breaks>>

HookState == {"idle", "unsubscribe", "drain", "workers", "http", "clients"}

NodeInit ==
  /\ boot = "clients" /\ http = "none" /\ timer = FALSE
  /\ request = [r \in Requests |-> {}]
  /\ buffer = {} /\ batch = [l \in Loops |-> {}]
  /\ queued = {} /\ refused = {} /\ acked = {} /\ late = {}
  /\ hook = [h \in Shutdowns |-> "idle"] /\ ranOut = FALSE
  /\ exited = "no" /\ breaks = 0

flow == <<request, buffer, batch, queued, refused, acked, late>>

Break == breaks < MaxBreaks /\ breaks' = breaks + 1

-----------------------------------------------------------------------------
(* main().                                                                 *)

(* connectClients, the subscriber, the worker system, the probes: each is  *)
(* awaited; setSink and start come between the last two.                   *)
BootStep ==
  /\ \/ boot = "clients" /\ boot' = "subscriber" /\ UNCHANGED <<timer, http>>
     \/ boot = "subscriber" /\ boot' = "workers" /\ UNCHANGED <<timer, http>>
     \/ boot = "workers" /\ boot' = "probes" /\ timer' = TRUE /\ UNCHANGED http
     \/ boot = "probes" /\ boot' = "serving" /\ http' = "open" /\ UNCHANGED timer
  /\ UNCHANGED <<flow, hook, ranOut, exited, breaks>>

(* One of them rejects. *)
BootFails ==
  /\ Break
  /\ boot # "serving"
  /\ exited' = "1"
  /\ UNCHANGED <<boot, http, timer, flow, hook, ranOut>>

-----------------------------------------------------------------------------
(* Requests.                                                               *)

Fresh == Signals \ (buffer \cup queued \cup refused \cup UNION {batch[l] : l \in Loops}
                    \cup UNION {request[r] : r \in Requests})

(* parseSignalBatch: one malformed signal refuses them all with a 400. *)
Parses(b) == b # {} /\ Cardinality(b) <= MaxBatch /\ b \cap Malformed = {}

(* POST /signals: validated, now with the rate limiter. *)
Receive(r) ==
  /\ http = "open" /\ request[r] = {}
  /\ \E b \in SUBSET Fresh : Parses(b) /\ request' = [request EXCEPT ![r] = b]
  /\ UNCHANGED <<boot, http, timer, buffer, batch, queued, refused, acked, late,
                 hook, ranOut, exited, breaks>>

(* 429; the signals were never submitted. *)
Limit(r) ==
  /\ request[r] # {}
  /\ request' = [request EXCEPT ![r] = {}]
  /\ refused' = refused \cup request[r]
  /\ UNCHANGED <<boot, http, timer, buffer, batch, queued, acked, late,
                 hook, ranOut, exited, breaks>>

Drained(h) == hook[h] \in {"workers", "http", "clients"}

(* submitOrReject of the whole batch and its answer, without a yield. The  *)
(* buffer accepts some, which in a full buffer may push others out; one    *)
(* that is not accepted makes the answer a 503 for all.                    *)
SubmitBatch(b) ==
  \E kept \in SUBSET b : \E gone \in SUBSET (buffer \cup kept) :
    /\ buffer' = (buffer \cup kept) \ gone
    /\ Cardinality(buffer') <= Room /\ (gone # {} => Cardinality(buffer') = Room)
    /\ refused' = refused \cup (b \ kept) \cup gone
    /\ acked' = IF kept = b THEN acked \cup b ELSE acked
    /\ late' = IF \E h \in Shutdowns : Drained(h) THEN late \cup kept ELSE late

(* The limiter lets it pass, or Redis fails and it passes as well. *)
Admit(r) ==
  /\ request[r] # {}
  /\ request' = [request EXCEPT ![r] = {}]
  /\ SubmitBatch(request[r])
  /\ UNCHANGED <<boot, http, timer, batch, queued, hook, ranOut, exited, breaks>>

(* POST /signals/bulk-test makes its signals up: no limiter, no such cap.  *)
BulkTest ==
  /\ http = "open"
  /\ \E b \in SUBSET (Fresh \ Malformed) : b # {} /\ SubmitBatch(b)
  /\ UNCHANGED <<boot, http, timer, request, batch, queued, hook, ranOut, exited, breaks>>

-----------------------------------------------------------------------------
(* The drain.                                                              *)

(* drainToSink: a batch leaves the buffer for queue.add. *)
Send(l) ==
  /\ batch[l] = {} /\ buffer # {}
  /\ \E b \in (SUBSET buffer) \ {{}} :
       /\ batch' = [batch EXCEPT ![l] = b]
       /\ buffer' = buffer \ b
  /\ UNCHANGED <<boot, http, timer, request, queued, refused, acked, late,
                 hook, ranOut, exited, breaks>>

DrainOnTimer == timer /\ Send("tick")

DrainInHook(h) == hook[h] = "drain" /\ Send(h)

SinkTakes(l) ==
  /\ batch[l] # {}
  /\ queued' = queued \cup batch[l]
  /\ batch' = [batch EXCEPT ![l] = {}]
  /\ UNCHANGED <<boot, http, timer, request, buffer, refused, acked, late,
                 hook, ranOut, exited, breaks>>

SinkThrows(l) ==
  /\ Break
  /\ batch[l] # {}
  /\ refused' = refused \cup batch[l]
  /\ batch' = [batch EXCEPT ![l] = {}]
  /\ UNCHANGED <<boot, http, timer, request, buffer, queued, acked, late,
                 hook, ranOut, exited>>

-----------------------------------------------------------------------------
(* shutdown(): one run for each signal.                                    *)

Advance(h, place) == hook' = [hook EXCEPT ![h] = place]

(* The reporter and the probes stop; the subscriber's quit is awaited.     *)
GetSignal(h) ==
  /\ boot = "serving" /\ hook[h] = "idle"
  /\ Advance(h, "unsubscribe")
  /\ UNCHANGED <<boot, http, timer, flow, ranOut, exited, breaks>>

(* The scheduler stops, the buffer's timer stops, and drainAll begins. *)
StopTimers(h) ==
  /\ hook[h] = "unsubscribe"
  /\ timer' = FALSE
  /\ Advance(h, "drain")
  /\ UNCHANGED <<boot, http, flow, ranOut, exited, breaks>>

(* Definitions named Faulty... are seeded faults: each replaces the        *)
(* definition after it in a run that must then find a property violated.   *)

(* Fault: one batch is enough. *)
FaultyDrainReturns(h) ==
  /\ hook[h] = "drain" /\ batch[h] = {}
  /\ Advance(h, "workers")
  /\ UNCHANGED <<boot, http, timer, flow, ranOut, exited, breaks>>

(* drainAll returns on an empty buffer, whatever the sink still holds for  *)
(* the last tick or for the other shutdown. *)
DrainReturns(h) ==
  /\ hook[h] = "drain" /\ batch[h] = {} /\ buffer = {}
  /\ Advance(h, "workers")
  /\ UNCHANGED <<boot, http, timer, flow, ranOut, exited, breaks>>

(* Or at its deadline, with the rest left behind. *)
DrainRunsOut(h) ==
  /\ hook[h] = "drain" /\ batch[h] = {} /\ buffer # {}
  /\ Advance(h, "workers")
  /\ ranOut' = TRUE
  /\ UNCHANGED <<boot, http, timer, flow, exited, breaks>>

(* stopWorkerSystem. *)
StopWorkers(h) ==
  /\ hook[h] = "workers"
  /\ Advance(h, "http")
  /\ UNCHANGED <<boot, http, timer, flow, ranOut, exited, breaks>>

(* server.close(): no new connections; the callback waits for the requests *)
(* under way. *)
CloseHttp(h) ==
  /\ hook[h] = "http" /\ http = "open"
  /\ http' = "closing"
  /\ Advance(h, "clients")
  /\ UNCHANGED <<boot, timer, flow, ranOut, exited, breaks>>

(* The other shutdown closed it already: close() reports an error. *)
CloseTwice(h) ==
  /\ hook[h] = "http" /\ http = "closing"
  /\ exited' = "1"
  /\ UNCHANGED <<boot, http, timer, flow, hook, ranOut, breaks>>

(* quit or close rejects. *)
ShutdownFails(h) ==
  /\ Break
  /\ hook[h] \in {"unsubscribe", "workers"}
  /\ exited' = "1"
  /\ UNCHANGED <<boot, http, timer, flow, hook, ranOut>>

(* disconnectClients, then process.exit(0). *)
Exit(h) ==
  /\ hook[h] = "clients" /\ \A r \in Requests : request[r] = {}
  /\ exited' = "0"
  /\ UNCHANGED <<boot, http, timer, flow, hook, ranOut, breaks>>

NodeNext ==
  /\ exited = "no"
  /\ \/ BootStep \/ BootFails
     \/ \E r \in Requests : Receive(r) \/ Limit(r) \/ Admit(r)
     \/ BulkTest
     \/ DrainOnTimer
     \/ \E l \in Loops : SinkTakes(l) \/ SinkThrows(l)
     \/ \E h \in Shutdowns :
          \/ GetSignal(h) \/ StopTimers(h) \/ DrainInHook(h) \/ DrainReturns(h)
          \/ DrainRunsOut(h) \/ StopWorkers(h) \/ CloseHttp(h) \/ CloseTwice(h)
          \/ ShutdownFails(h) \/ Exit(h)

NodeSpec == NodeInit /\ [][NodeNext]_nodeVars

-----------------------------------------------------------------------------

NodeTypeOK ==
  /\ boot \in {"clients", "subscriber", "workers", "probes", "serving"}
  /\ http \in {"none", "open", "closing"}
  /\ timer \in BOOLEAN /\ ranOut \in BOOLEAN /\ exited \in {"no", "0", "1"}
  /\ request \in [Requests -> SUBSET Signals] /\ batch \in [Loops -> SUBSET Signals]
  /\ buffer \subseteq Signals /\ Cardinality(buffer) <= Room
  /\ queued \subseteq Signals /\ refused \subseteq Signals
  /\ acked \subseteq Signals /\ late \subseteq Signals
  /\ hook \in [Shutdowns -> HookState] /\ breaks \in 0..MaxBreaks

(* "Nothing in flight at shutdown time is lost" (docs/backpressure.md), as *)
(* far as it goes. After exit 0, a signal answered with 202 is in a job or *)
(* was counted as dropped; or drainAll ran out of time; or it was answered *)
(* after a drainAll had returned (the HTTP server is closed last); or a    *)
(* sink call was still open, of the last tick or of the other shutdown.    *)
LossesHaveACause ==
  exited = "0" /\ ~ ranOut =>
    acked \ (queued \cup refused) \subseteq
      late \cup batch["tick"] \cup UNION {batch[h] : h \in {k \in Shutdowns : hook[k] = "drain"}}

=============================================================================
