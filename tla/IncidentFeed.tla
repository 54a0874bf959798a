---------------------------- MODULE IncidentFeed ----------------------------
(***************************************************************************)
(* The Live Feed of one browser (frontend/src/hooks/useIncidents.tsx): it  *)
(* fetches the page of active work items, is told over an event stream     *)
(* that something changed and fetches again, reconnects when the stream    *)
(* drops and polls once it has given up on it. The server's half is        *)
(* api/routes/incidentStream.ts over services/realtime.                    *)
(*                                                                         *)
(* version counts the changes that the list endpoint knows of, each        *)
(* published after the cache was written (EventsFollowCache, in            *)
(* DashboardCache). An event only says "fetch again", and is lost with     *)
(* Redis or with the stream; nothing tells the browser so.                 *)
(***************************************************************************)
EXTENDS Integers, FiniteSets

CONSTANTS
  Fetches,        (* requests of the browser that may be open together        *)
  MaxRetries,     (* MAX_SSE_RETRIES                                          *)
  MaxChanges,     (* bound of the model: changes of the board                 *)
  MaxDrops,       (* bound of the model: failures of stream, Redis, requests  *)
  MaxMounts       (* bound of the model: visits of the console                *)

NoFetch == "none"

ASSUME FeedAssumption ==
  /\ NoFetch \notin Fetches /\ Fetches # {}
  /\ {MaxRetries, MaxChanges, MaxDrops, MaxMounts} \subseteq Nat

VARIABLES
  version,      (* what the list endpoint serves                              *)
  mounted,      (* mountedRef                                                 *)
  data,         (* the version of the page shown, 0 for an empty one          *)
  loading,
  failed,       (* error                                                      *)
  fetch,        (* [Fetches -> FetchState]                                    *)
  controller,   (* listControllerRef                                          *)
  debounce,     (* the debounced refetch is due                               *)
  polling,      (* the poll timer runs                                        *)
  stream,       (* the EventSource and the server's half of it                *)
  waiting,      (* the reconnect timer runs                                   *)
  retries,
  inbox,        (* changes whose event is on its way to the browser           *)
  missed,       (* history: changes whose event will not arrive               *)
  drops,
  mounts

feedVars == <<version, mounted, data, loading, failed, fetch, controller, debounce,
              polling, stream, waiting, retries, inbox, missed, drops, mounts>>

boardVars  == <<data, loading, failed>>
requestVars == <<fetch, controller>>
streamVars == <<polling, stream, waiting, retries, inbox, missed>>

(* "body": the headers are here, and an abort no longer reaches the call.  *)
FetchState == [at : {"idle", "asked", "body"}, page : Nat, aborted : BOOLEAN]

Idle == [at |-> "idle", page |-> 0, aborted |-> FALSE]

Asked == [Idle EXCEPT !.at = "asked"]

(* "subscribed": the server's handler listens, the browser has not seen    *)
(* "open" yet.                                                             *)
StreamState == {"none", "opening", "subscribed", "open"}

FeedTrouble == drops < MaxDrops /\ drops' = drops + 1

(* Definitions named Faulty... are seeded faults: each replaces the        *)
(* definition after it in a run that must then find a property violated.   *)

(* abort(): a call that waits for headers ends there, and its AbortError   *)
(* is swallowed; one that has them goes on, to be ignored.                 *)
Abort(fs, f) ==
  IF f = NoFetch \/ fs[f].at = "idle" THEN fs
  ELSE IF fs[f].at = "asked" THEN [fs EXCEPT ![f] = Idle]
  ELSE [fs EXCEPT ![f].aborted = TRUE]

(* fetchList: the fetch in flight is superseded. *)
FetchList(fs) ==
  \E f \in Fetches :
    /\ Abort(fs, controller)[f].at = "idle"
    /\ fetch' = [Abort(fs, controller) EXCEPT ![f] = Asked]
    /\ controller' = f

FeedInit ==
  /\ version = 1 /\ mounted = FALSE
  /\ data = 0 /\ loading = TRUE /\ failed = FALSE
  /\ fetch = [f \in Fetches |-> Idle] /\ controller = NoFetch
  /\ debounce = FALSE /\ polling = FALSE
  /\ stream = "none" /\ waiting = FALSE /\ retries = 0
  /\ inbox = {} /\ missed = {}
  /\ drops = 0 /\ mounts = 0

(* The provider's effect, behind RequireAuth: a first page and a stream.   *)
Mount ==
  /\ ~ mounted /\ mounts < MaxMounts
  /\ mounts' = mounts + 1
  /\ mounted' = TRUE
  /\ data' = 0 /\ loading' = TRUE /\ failed' = FALSE
  /\ FetchList(fetch)
  /\ stream' = "opening" /\ retries' = 0
  /\ UNCHANGED <<version, debounce, polling, waiting, inbox, missed, drops>>

(* The effect's clean-up: timers, stream and fetch end with the provider.  *)
Unmount ==
  /\ mounted
  /\ mounted' = FALSE
  /\ fetch' = Abort(fetch, controller) /\ controller' = NoFetch
  /\ stream' = "none" /\ waiting' = FALSE
  /\ debounce' = FALSE /\ polling' = FALSE
  /\ inbox' = {} /\ missed' = missed \cup inbox
  /\ UNCHANGED <<version, boardVars, retries, drops, mounts>>

-----------------------------------------------------------------------------
(* The list.                                                               *)

(* refresh(), by hand. *)
Refresh ==
  /\ mounted
  /\ FetchList(fetch)
  /\ UNCHANGED <<version, mounted, boardVars, debounce, streamVars, drops, mounts>>

(* GET /api/v1/incidents reads its page and sends the headers. *)
Serve(f) ==
  /\ fetch[f].at = "asked"
  /\ fetch' = [fetch EXCEPT ![f].at = "body", ![f].page = version]
  /\ UNCHANGED <<version, mounted, boardVars, controller, debounce, streamVars, drops, mounts>>

(* What is tested after the await. *)
Wanted(f) == ~ fetch[f].aborted /\ mounted

(* The page is there: shown, or ignored. *)
Arrive(f) ==
  /\ fetch[f].at = "body"
  /\ fetch' = [fetch EXCEPT ![f] = Idle]
  /\ \/ Wanted(f) /\ data' = fetch[f].page /\ loading' = FALSE /\ failed' = FALSE
     \/ ~ Wanted(f) /\ UNCHANGED boardVars
  /\ UNCHANGED <<version, mounted, controller, debounce, streamVars, drops, mounts>>

(* Network, time-out or an answer that is an error. *)
FetchFails(f) ==
  /\ FeedTrouble
  /\ fetch[f].at # "idle"
  /\ fetch' = [fetch EXCEPT ![f] = Idle]
  /\ \/ Wanted(f) /\ failed' = TRUE /\ loading' = FALSE /\ UNCHANGED data
     \/ ~ Wanted(f) /\ UNCHANGED boardVars
  /\ UNCHANGED <<version, mounted, controller, debounce, streamVars, mounts>>

(* REFETCH_DEBOUNCE_MS after the last event. *)
Refetch ==
  /\ debounce
  /\ debounce' = FALSE
  /\ FetchList(fetch)
  /\ UNCHANGED <<version, mounted, boardVars, streamVars, drops, mounts>>

(* POLL_INTERVAL_MS, whether or not the last poll was answered. *)
Poll ==
  /\ polling
  /\ FetchList(fetch)
  /\ UNCHANGED <<version, mounted, boardVars, debounce, streamVars, drops, mounts>>

-----------------------------------------------------------------------------
(* The stream.                                                             *)

(* handleStream: a token that passes, the 200, and a listener. *)
HandleStream ==
  /\ stream = "opening"
  /\ stream' = "subscribed"
  /\ UNCHANGED <<version, mounted, boardVars, requestVars, debounce, polling, waiting,
                 retries, inbox, missed, drops, mounts>>

(* A work item is created or moves. Its event reaches the streams that     *)
(* listen, or is lost with Redis on either side.                           *)
Change ==
  /\ version <= MaxChanges
  /\ version' = version + 1
  /\ \/ /\ stream \in {"subscribed", "open"}
        /\ inbox' = inbox \cup {version'}
        /\ UNCHANGED <<missed, drops>>
     \/ /\ stream \notin {"subscribed", "open"} \/ drops < MaxDrops
        /\ missed' = missed \cup {version'}
        /\ drops' = IF stream \in {"subscribed", "open"} THEN drops + 1 ELSE drops
        /\ UNCHANGED inbox
  /\ UNCHANGED <<mounted, boardVars, requestVars, debounce, polling, stream, waiting,
                 retries, mounts>>

(* "open": the retries start over, and no page is fetched for what was     *)
(* missed.                                                                 *)
Opened ==
  /\ stream = "subscribed"
  /\ stream' = "open" /\ retries' = 0 /\ polling' = FALSE
  /\ UNCHANGED <<version, mounted, boardVars, requestVars, debounce, waiting, inbox,
                 missed, drops, mounts>>

(* Fault: an event is taken as answered by the fetch in flight. *)
FaultyScheduleRefetch ==
  debounce' = (debounce \/ controller = NoFetch \/ fetch[controller].at = "idle")

(* scheduleRefetch: the timer starts, or starts over. *)
ScheduleRefetch == debounce' = TRUE

(* work_item_created, work_item_state_changed. *)
OnIncidentEvent ==
  /\ stream = "open" /\ inbox # {}
  /\ \E v \in inbox : /\ \A w \in inbox : v <= w
                      /\ inbox' = inbox \ {v}
  /\ ScheduleRefetch
  /\ UNCHANGED <<version, mounted, boardVars, requestVars, polling, stream, waiting,
                 retries, missed, drops, mounts>>

(* "error": refused, expired token, server gone or network. What was on    *)
(* its way is lost. After MAX_SSE_RETRIES in a row nobody reconnects.      *)
StreamFails ==
  /\ FeedTrouble
  /\ stream # "none"
  /\ stream' = "none"
  /\ retries' = retries + 1
  /\ waiting' = (retries' <= MaxRetries)
  /\ polling' = (polling \/ retries' > MaxRetries)
  /\ inbox' = {} /\ missed' = missed \cup inbox
  /\ UNCHANGED <<version, mounted, boardVars, requestVars, debounce, mounts>>

(* The back-off is over: connectSse. *)
Reconnect ==
  /\ waiting
  /\ waiting' = FALSE
  /\ stream' = "opening"
  /\ UNCHANGED <<version, mounted, boardVars, requestVars, debounce, polling, retries,
                 inbox, missed, drops, mounts>>

-----------------------------------------------------------------------------

FeedNext ==
  \/ Mount \/ Unmount \/ Refresh \/ Refetch \/ Poll \/ Change
  \/ HandleStream \/ Opened \/ OnIncidentEvent \/ StreamFails \/ Reconnect
  \/ \E f \in Fetches : Serve(f) \/ Arrive(f) \/ FetchFails(f)

(* Timers fire, the server answers what it is asked, streams are accepted. *)
(* Polls and presses of the button supersede each other, so that a server  *)
(* that always takes longer than POLL_INTERVAL_MS is never heard: of the   *)
(* answers that are awaited, some arrive before they are superseded. No    *)
(* one has to change anything or to press a button.                        *)
FeedFairness ==
  /\ WF_feedVars(Refetch) /\ WF_feedVars(Poll) /\ WF_feedVars(Reconnect)
  /\ WF_feedVars(HandleStream) /\ WF_feedVars(Opened) /\ WF_feedVars(OnIncidentEvent)
  /\ \A f \in Fetches : SF_feedVars(Serve(f)) /\ WF_feedVars(Arrive(f))
  /\ SF_feedVars(\E f \in Fetches : Wanted(f) /\ Arrive(f))

FeedSpec == FeedInit /\ [][FeedNext]_feedVars /\ FeedFairness

-----------------------------------------------------------------------------

FeedTypeOK ==
  /\ version \in Nat /\ data \in Nat /\ data <= version
  /\ {mounted, loading, failed, debounce, polling, waiting} \subseteq BOOLEAN
  /\ fetch \in [Fetches -> FetchState] /\ controller \in Fetches \cup {NoFetch}
  /\ stream \in StreamState /\ retries \in Nat
  /\ inbox \in SUBSET Nat /\ missed \in SUBSET Nat
  /\ drops \in Nat /\ mounts \in Nat

(* One stream at most, and never beside the timers that replace it.        *)
OneTransport == /\ waiting => stream = "none" /\ ~ polling
                /\ polling => stream = "none"

(* "no stale page ever overwrites a newer one" (useIncidents.tsx): as long *)
(* as the provider lives, whichever answers come in which order.           *)
NoOlderPage == [][mounted /\ mounted' => data' >= data]_feedVars

(* "rather than leaving the UI stuck on stale data": a change that the     *)
(* list endpoint knows of is shown in the end, or an error, or the console *)
(* was left; unless its event was lost and the stream is up, when nothing  *)
(* brings it in before the next event.                                     *)
Caught(v) ==
  (mounted /\ version >= v) ~>
    (~ mounted \/ data >= v \/ failed \/ (v \in missed /\ stream = "open"))

(* The feed never goes back, listens or polls and never both, and catches  *)
(* up with every change.                                                   *)
FeedKeepsUp ==
  /\ NoOlderPage /\ []OneTransport
  /\ \A v \in 1..(MaxChanges + 1) : Caught(v)

=============================================================================
