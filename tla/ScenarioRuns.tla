--------------------------- MODULE ScenarioRuns ---------------------------
(***************************************************************************)
(* The scripts that drive a running system (scripts/scenarios): the        *)
(* cascading failure, which sends signals and then verifies what became of *)
(* them, and the replay, which takes its incidents to CLOSED. Pure         *)
(* functions of the answers they get: no variables.                        *)
(***************************************************************************)
EXTENDS Integers, Sequences, FiniteSets, SequencesExt

LOCAL Rca    == INSTANCE RcaRules
LOCAL Alerts == INSTANCE AlertRules WITH Within     <- [P0 |-> 0, P1 |-> 0, P2 |-> 0, P3 |-> 0],
                                         Configured <- {}

LOCAL First(P(_), s) == Min({i \in DOMAIN s : P(s[i])})

-----------------------------------------------------------------------------
(* Sending. *)

(* rampRatesPerSecond: one rate for each second, in a straight line,       *)
(* rounded.                                                                *)
RampRates(from, to, duration) ==
  LET steps == duration - 1
  IN  IF duration <= 1 THEN <<to>>
      ELSE [i \in 1..duration |->
              (2 * (from * steps + (to - from) * (i - 1)) + steps) \div (2 * steps)]

(* postSignals: the status of each attempt in turn. It goes on while it is *)
(* refused with 429, and gives up at the refusal after maxRetries retries. *)
PostSignals(statuses, maxRetries) ==
  IF \A i \in 1..(maxRetries + 1) : statuses[i] = 429
    THEN [ok |-> FALSE, retries |-> maxRetries]
    ELSE LET last == First(LAMBDA s : s # 429, statuses)
         IN  [ok |-> TRUE, status |-> statuses[last], retries |-> last - 1]

(* postBatch: the totals after a batch of n and its answer. An empty batch *)
(* is not posted.                                                          *)
PostBatch(totals, n, answer) ==
  IF n = 0 THEN totals
  ELSE [sent     |-> totals.sent + n,
        accepted |-> totals.accepted + answer.accepted,
        dropped  |-> totals.dropped + answer.dropped,
        retries  |-> totals.retries + answer.retries]

(* runSignalSpec: the batches of a burst, or of a ramp. *)
BatchesOf(spec) ==
  IF spec.mode = "burst" THEN <<spec.count>>
  ELSE RampRates(spec.from, spec.to, spec.duration)

(* A beat starts at its time, or as soon as those before it are done.      *)
(* beats: <<time, how long its batches take>>.                             *)
BeatStarts(beats) ==
  LET end[n \in 0..Len(beats)] == IF n = 0 THEN 0
                                  ELSE Max({beats[n][1], end[n - 1]}) + beats[n][2]
  IN  [n \in DOMAIN beats |-> Max({beats[n][1], end[n - 1]})]

-----------------------------------------------------------------------------
(* Waiting: the outcome of each check until the deadline.                  *)

(* waitFor: a check that throws is as good as one that says no. *)
WaitFor(checks) == \E i \in DOMAIN checks : checks[i] = "ready"

(* waitForValue: a check that throws ends it. *)
WaitForValue(checks) ==
  LET decisive == {i \in DOMAIN checks : checks[i] # "not"}
  IN  decisive # {} /\ checks[Min(decisive)] = "ready"

-----------------------------------------------------------------------------
(* Verifying. *)

NoRow == -1

(* A component after the run: the counts that findActive showed, one a     *)
(* second, then the one it is read for.                                    *)
VerifyComponent(baseline, sent, counts, final) ==
  LET expected == baseline + sent
  IN  CASE ~ WaitFor([i \in DOMAIN counts |-> IF counts[i] >= expected THEN "ready" ELSE "not"])
                              -> "failed"
        [] OTHER -> IF final = NoRow THEN "failed"
                    ELSE IF final = expected THEN "ok" ELSE "noted"

(* SEVERITY_FLOOR, a copy of the strategies' floors. *)
SeverityFloor ==
  [RDBMS |-> "P0", API |-> "P1", MCP_HOST |-> "P1", NOSQL |-> "P1", QUEUE |-> "P1",
   CACHE |-> "P2"]

SeverityRank == [P0 |-> 0, P1 |-> 1, P2 |-> 2, P3 |-> 3]

ExpectedAlert(type, reported) ==
  IF SeverityRank[reported] < SeverityRank[SeverityFloor[type]] THEN reported
  ELSE SeverityFloor[type]

-----------------------------------------------------------------------------
(* The replay. *)

(* RCA_TEMPLATES: the category, and the least length of the three texts.   *)
LOCAL Template(category, least) == [category |-> category, least |-> least]

RcaTemplates ==
  [RDBMS    |-> Template("CAPACITY_EXHAUSTION", 78),
   API      |-> Template("EXTERNAL_DEPENDENCY", 71),
   MCP_HOST |-> Template("EXTERNAL_DEPENDENCY", 61),
   CACHE    |-> Template("EXTERNAL_DEPENDENCY", 78),
   QUEUE    |-> Template("CAPACITY_EXHAUSTION", 43),
   NOSQL    |-> Template("CAPACITY_EXHAUSTION", 48)]

(* What it submits: from the first signal until now. *)
Submission(type, firstSignalAt, now) ==
  [start |-> firstSignalAt, end |-> now, category |-> RcaTemplates[type].category,
   padded |-> FALSE, length |-> [f \in Rca!TextField |-> RcaTemplates[type].least]]

ReplaySteps == <<"INVESTIGATING", "RESOLVED", "CLOSED">>

(* One incident: it asks for the three moves in turn, and leaves the rest  *)
(* when one is refused. accepted: the moves <<from, to>> the server makes. *)
Replay(from, accepted) ==
  FoldLeft(LAMBDA item, to : IF item.left \/ <<item.state, to>> \notin accepted
                               THEN [item EXCEPT !.left = TRUE]
                               ELSE [item EXCEPT !.state = to],
           [state |-> from, left |-> FALSE], ReplaySteps)

-----------------------------------------------------------------------------
(* Laws. *)

(* A ramp starts and ends where it says, and never turns back.             *)
RampGoesUp(from, to, duration) ==
  LET rates == RampRates(from, to, duration)
  IN  /\ Len(rates) = Max({1, duration})
      /\ rates[Len(rates)] = to
      /\ duration > 1 => rates[1] = from
      /\ \A i \in 1..(Len(rates) - 1) : from <= to => rates[i] <= rates[i + 1]

(* A batch is given up only after that many retries, and never retried     *)
(* after an answer that is not a 429.                                      *)
RetriesAreBounded(statuses, maxRetries) ==
  LET result == PostSignals(statuses, maxRetries)
  IN  /\ result.retries <= maxRetries
      /\ \A i \in 1..result.retries : statuses[i] = 429
      /\ result.ok => result.status # 429 /\ statuses[result.retries + 1] = result.status

(* No beat overtakes the one before it. *)
BeatsKeepOrder(beats) ==
  LET starts == BeatStarts(beats)
  IN  \A n \in DOMAIN beats :
        /\ starts[n] >= beats[n][1]
        /\ n > 1 => starts[n] >= starts[n - 1] + beats[n - 1][2]

(* Both waits agree unless a check throws before one is ready. *)
WaitsAgree(checks) ==
  /\ WaitForValue(checks) => WaitFor(checks)
  /\ ~ (\E i \in DOMAIN checks : checks[i] = "threw") => WaitForValue(checks) = WaitFor(checks)

(* The copy of the floors, and of the comparison, says what the dispatcher *)
(* does.                                                                   *)
ExpectsWhatIsSent(type, reported) ==
  ExpectedAlert(type, reported) = Alerts!Reconcile(Alerts!StrategyOf(type).floor, reported)

(* The templates pass the server's rules, and close with a repair time.    *)
TemplatesPass(type, firstSignalAt, now) ==
  firstSignalAt < now =>
    /\ Rca!CanClose(Submission(type, firstSignalAt, now), firstSignalAt, now)
    /\ Rca!CalculateMttr(firstSignalAt, now).ok

(* The server's graph lets the replay close what is OPEN, and nothing      *)
(* else: an incident it left half-way is not taken up by the next replay.  *)
ReplayClosesOpen(from) ==
  LET order == <<"OPEN", "INVESTIGATING", "RESOLVED", "CLOSED">>
      moves == {<<order[i], order[i + 1]>> : i \in 1..3}
  IN  Replay(from, moves) = [state |-> IF from = "OPEN" THEN "CLOSED" ELSE from,
                            left  |-> from # "OPEN"]
=============================================================================
