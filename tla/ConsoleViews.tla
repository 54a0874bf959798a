---------------------------- MODULE ConsoleViews ----------------------------
(***************************************************************************)
(* How the views of the console load what they show. A view asks again     *)
(* whenever its inputs change and aborts what it had asked before: the     *)
(* signals of an incident (features/incidents/SignalsPanel.tsx), the       *)
(* closed incidents, whose page is in the URL (useClosedIncidents.ts), and *)
(* each panel of the analytics (useAnalyticsResource.ts). And the one      *)
(* poller of /health (hooks/useSystemHealth.tsx), which asks again by a    *)
(* timer and starts over when the user says so.                            *)
(*                                                                         *)
(* An effect runs with the change that causes it; the frame in between is  *)
(* not modelled.                                                           *)
(***************************************************************************)
EXTENDS Integers, FiniteSets

CONSTANTS
  Calls,          (* requests of one view that may be open together           *)
  Orders,         (* of the signals                                           *)
  Total,          (* rows that the endpoint has                               *)
  PageSize,
  MaxPresses,     (* bound of the model: buttons and links                    *)
  MaxErrors,      (* bound of the model: failing calls                        *)
  MaxTurns        (* bound of the model: changes of the server's health       *)

Nothing == << >>

ASSUME ViewsAssumption ==
  /\ Orders # {} /\ Total \in Nat /\ PageSize \in Nat \ {0}
  /\ {MaxPresses, MaxErrors, MaxTurns} \subseteq Nat

VARIABLES
  order, page,  (* the inputs                                                 *)
  rows,         (* the inputs that the rows shown were asked with             *)
  total,        (* as of the last answer                                      *)
  fetching, viewError,
  call,         (* [Calls -> CallState]                                       *)
  current,      (* the call whose controller is not aborted                   *)
  presses, viewErrors,
  status,       (* what /health would answer, as a count of its changes       *)
  loop,         (* [Nat -> LoopState], one per run of the poller's effect     *)
  live,         (* the run that is not cancelled                              *)
  fails, phase,
  healthShown   (* health, of the last answer                                 *)

viewVars == <<order, page, rows, total, fetching, viewError, call, current>>
pollVars == <<status, loop, live, fails, phase, healthShown>>
viewsVars == <<viewVars, pollVars, presses, viewErrors>>

Page == 1..(Total \div PageSize + 2)

Inputs == Orders \X Page

CallState == [at : {"idle", "asked", "body"}, inputs : Inputs, aborted : BOOLEAN]

Resting == [at |-> "idle", inputs |-> CHOOSE i \in Inputs : TRUE, aborted |-> FALSE]

Runs == 1..(MaxPresses + 1)

LoopState == [at : {"none", "asked", "body", "timer"}, found : Nat]

CallTrouble == viewErrors < MaxErrors /\ viewErrors' = viewErrors + 1

-----------------------------------------------------------------------------
(* Definitions named Faulty... are seeded faults: each replaces the        *)
(* definition after it in a run that must then find a property violated.   *)

(* The clean-up of the effect, then its next run. *)
Load(o, p) ==
  LET old == [c \in Calls |-> IF c # current \/ call[c].at = "idle" THEN call[c]
                              ELSE IF call[c].at = "asked" THEN Resting
                              ELSE [call[c] EXCEPT !.aborted = TRUE]]
  IN  \E c \in Calls :
        /\ old[c].at = "idle"
        /\ call' = [old EXCEPT ![c] = [at |-> "asked", inputs |-> <<o, p>>, aborted |-> FALSE]]
        /\ current' = c
        /\ fetching' = TRUE /\ viewError' = FALSE

ViewsInit ==
  /\ order \in Orders /\ page \in Page
  /\ rows = Nothing /\ total = 0 /\ fetching = TRUE /\ viewError = FALSE
  /\ \E c \in Calls :
       /\ current = c
       /\ call = [d \in Calls |-> IF d = c THEN [Resting EXCEPT !.at = "asked",
                                                               !.inputs = <<order, page>>]
                                  ELSE Resting]
  /\ presses = 0 /\ viewErrors = 0
  /\ status = 0 /\ live = 1 /\ fails = 0 /\ phase = "checking" /\ healthShown = 0
  /\ loop = [n \in Runs |-> [at |-> IF n = 1 THEN "asked" ELSE "none", found |-> 0]]

Press == presses < MaxPresses /\ presses' = presses + 1

PageCount == IF total = 0 THEN 1 ELSE (total + PageSize - 1) \div PageSize

(* setOrderAndResetPage; the buttons are off while the view loads, and the *)
(* current order reloads nothing but when the page changes with it.        *)
SetOrder(o) ==
  /\ Press /\ ~ fetching
  /\ <<o, 1>> # <<order, page>>
  /\ order' = o /\ page' = 1
  /\ Load(o, 1)
  /\ UNCHANGED <<rows, total, viewErrors, pollVars>>

(* Previous and Next, of rows that are shown, loading or not; a URL may     *)
(* name any page.                                                          *)
SetPage(p) ==
  /\ Press
  /\ p # page /\ p \in Page
  /\ \/ total > 0 /\ ~ viewError /\ p = page - 1
     \/ total > 0 /\ ~ viewError /\ p = page + 1 /\ page < PageCount
     \/ TRUE
  /\ page' = p /\ UNCHANGED order
  /\ Load(order, p)
  /\ UNCHANGED <<rows, total, viewErrors, pollVars>>

(* refetch, retry: the nonce. *)
Retry ==
  /\ Press /\ viewError
  /\ Load(order, page)
  /\ UNCHANGED <<order, page, rows, total, viewErrors, pollVars>>

(* The endpoint's answer depends on what it was asked only. *)
Respond(c) ==
  /\ call[c].at = "asked"
  /\ call' = [call EXCEPT ![c].at = "body"]
  /\ UNCHANGED <<order, page, rows, total, fetching, viewError, current, presses, viewErrors,
                 pollVars>>

(* Fault: an answer is taken for that of the latest call. *)
FaultyAwaited(c) == TRUE

Awaited(c) == ~ call[c].aborted

(* then: the rows, or nothing when superseded. *)
Show(c) ==
  /\ call[c].at = "body"
  /\ call' = [call EXCEPT ![c] = Resting]
  /\ \/ Awaited(c) /\ rows' = call[c].inputs /\ total' = Total /\ fetching' = FALSE
     \/ ~ Awaited(c) /\ UNCHANGED <<rows, total, fetching>>
  /\ UNCHANGED <<order, page, viewError, current, presses, viewErrors, pollVars>>

(* catch *)
CallFails(c) ==
  /\ CallTrouble
  /\ call[c].at # "idle"
  /\ call' = [call EXCEPT ![c] = Resting]
  /\ \/ Awaited(c) /\ viewError' = TRUE /\ fetching' = FALSE
     \/ ~ Awaited(c) /\ UNCHANGED <<viewError, fetching>>
  /\ UNCHANGED <<order, page, rows, total, current, presses, pollVars>>

-----------------------------------------------------------------------------
(* /health.                                                                *)

At(n, place) == loop' = [loop EXCEPT ![n].at = place]

(* The server's health changes. *)
HealthChanges ==
  /\ status < MaxTurns
  /\ status' = status + 1
  /\ UNCHANGED <<viewVars, loop, live, fails, phase, healthShown, presses, viewErrors>>

(* refresh: the run before is cancelled, its timer cleared, its call       *)
(* aborted unless the headers are here; fails is the new run's own.        *)
Restart ==
  /\ Press
  /\ live' = live + 1
  /\ loop' = [loop EXCEPT ![live].at = IF @ = "body" THEN "body" ELSE "none",
                          ![live + 1].at = "asked"]
  /\ fails' = 0
  /\ UNCHANGED <<viewVars, status, phase, healthShown, viewErrors>>

(* A 503 is an answer like another. *)
HealthAnswers(n) ==
  /\ loop[n].at = "asked"
  /\ loop' = [loop EXCEPT ![n] = [at |-> "body", found |-> status]]
  /\ UNCHANGED <<viewVars, status, live, fails, phase, healthShown, presses, viewErrors>>

Cancelled(n) == n # live

TickSucceeds(n) ==
  /\ loop[n].at = "body"
  /\ \/ /\ Cancelled(n)
        /\ At(n, "none") /\ UNCHANGED <<fails, phase, healthShown>>
     \/ /\ ~ Cancelled(n)
        /\ healthShown' = loop[n].found /\ phase' = "reachable" /\ fails' = 0
        /\ At(n, "timer")
  /\ UNCHANGED <<viewVars, status, live, presses, viewErrors>>

(* The last healthShown is kept: "last known". *)
TickFails(n) ==
  /\ CallTrouble
  /\ loop[n].at \in {"asked", "body"}
  /\ \/ /\ Cancelled(n)
        /\ At(n, "none") /\ UNCHANGED <<fails, phase>>
     \/ /\ ~ Cancelled(n)
        /\ phase' = "unreachable" /\ fails' = fails + 1
        /\ At(n, "timer")
  /\ UNCHANGED <<viewVars, status, live, healthShown, presses>>

(* 2 ** n *)
TwoTo[n \in Nat] == IF n = 0 THEN 1 ELSE 2 * TwoTo[n - 1]

(* Milliseconds to the next tick. *)
Delay(n) == LET backoff == 5000 * TwoTo[n]
            IN  IF n = 0 THEN 5000 ELSE IF backoff < 30000 THEN backoff ELSE 30000

Tick(n) ==
  /\ loop[n].at = "timer"
  /\ At(n, "asked")
  /\ UNCHANGED <<viewVars, status, live, fails, phase, healthShown, presses, viewErrors>>

-----------------------------------------------------------------------------

LoaderNext ==
  \/ \E o \in Orders : SetOrder(o)
  \/ \E p \in Page : SetPage(p)
  \/ Retry
  \/ \E c \in Calls : Respond(c) \/ Show(c) \/ CallFails(c)

PollerNext ==
  \/ HealthChanges \/ Restart
  \/ \E n \in Runs : HealthAnswers(n) \/ TickSucceeds(n) \/ TickFails(n) \/ Tick(n)

ViewsSpec == ViewsInit /\ [][LoaderNext \/ PollerNext]_viewsVars

-----------------------------------------------------------------------------

ViewsTypeOK ==
  /\ order \in Orders /\ page \in Page /\ rows \in Inputs \cup {Nothing}
  /\ total \in {0, Total} /\ {fetching, viewError} \subseteq BOOLEAN
  /\ call \in [Calls -> CallState] /\ current \in Calls
  /\ loop \in [Runs -> LoopState] /\ live \in Runs
  /\ {status, fails, healthShown, presses, viewErrors} \subseteq Nat
  /\ phase \in {"checking", "reachable", "unreachable"}

(* "a slow response for a page the operator has already navigated away     *)
(* from never lands" (SignalsPanel.tsx): a view that has stopped loading   *)
(* without an error shows the rows of its present page and order.          *)
RowsAreAskedFor == ~ fetching /\ ~ viewError => rows = <<order, page>>

(* "exactly one request in flight, not three" (useSystemHealth.tsx): one   *)
(* run of the poller asks or waits, however often the user starts it over. *)
OnePoller == Cardinality({n \in Runs : loop[n].at \in {"asked", "timer"}}) <= 1

(* One run at most, and its back-off stays within the cap.                 *)
PollsAlone == OnePoller /\ 5000 <= Delay(fails) /\ Delay(fails) <= 30000

(* A cancelled run's answer never takes the place of a newer one. *)
HealthNotOlder == [][healthShown' >= healthShown]_viewsVars

(* No view shows an answer in the place of a newer one, or one to what it  *)
(* no longer asks: the rows that are loaded, and the health.               *)
NothingStaleShown == HealthNotOlder /\ [](RowsAreAskedFor /\ PollsAlone)

=============================================================================
