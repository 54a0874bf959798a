------------------------------ MODULE FeedPage ------------------------------
(***************************************************************************)
(* What an operator sees of the incidents and of the system's health:      *)
(* filters and pages of the live feed (features/incidents), the time in a  *)
(* state and of a repair, and the three places that show /health. Pure     *)
(* functions: no variables.                                                *)
(*                                                                         *)
(* "" is a filter that is not set. An address may hold any text for one.   *)
(***************************************************************************)
EXTENDS Integers, Sequences, FiniteSets

FeedPageSize == 25

Filter == {"severity", "state", "componentType"}

-----------------------------------------------------------------------------
(* Filters and pages.                                                      *)

(* parseFilters: the casts test nothing. *)
ParseFilters(address) ==
  [f \in Filter |-> IF f \in DOMAIN address THEN address[f] ELSE ""]

(* setFilter: none is no parameter. *)
SetFilter(address, f, value) ==
  IF value = ""
    THEN [g \in DOMAIN address \ {f} |-> address[g]]
    ELSE [g \in DOMAIN address \cup {f} |-> IF g = f THEN value ELSE address[g]]

ApplyFilters(incidents, filters) ==
  SelectSeq(incidents, LAMBDA i : \A f \in Filter : filters[f] \in {"", i[f]})

HasActiveFilters(filters) == \E f \in Filter : filters[f] # ""

PageCount(total) == IF total = 0 THEN 1 ELSE (total + FeedPageSize - 1) \div FeedPageSize

Least(a, b) == IF a < b THEN a ELSE b

PageItems(filtered, page) ==
  SubSeq(filtered, (page - 1) * FeedPageSize + 1, Least(page * FeedPageSize, Len(filtered)))

(* The two effects after a render, in order: back to the first page when   *)
(* the filters changed, and down to the last one.                          *)
Settled(page, pageCount, changed) == Least(IF changed THEN 1 ELSE page, pageCount)

(* Pagination: the words, and which of its buttons can be pressed.         *)
Shown(page, total) ==
  [first |-> IF total = 0 THEN 0 ELSE (page - 1) * FeedPageSize + 1,
   last  |-> Least(page * FeedPageSize, total)]

CanPress(button, page, pageCount) ==
  IF button = "Previous" THEN page > 1 ELSE page < pageCount

Press(button, page) == IF button = "Previous" THEN page - 1 ELSE page + 1

(* What is there instead of rows. *)
Notice(data, loading, error, filtered) ==
  CASE data = <<>> /\ loading -> "skeleton"
    [] data = <<>> /\ ~ loading /\ error -> "error"
    [] data = <<>> /\ ~ loading /\ ~ error -> "quiet"
    [] data # <<>> /\ filtered = <<>> -> "no match"
    [] data # <<>> /\ filtered # <<>> -> "rows"

(* countBySeverity, of the feed as it is loaded. *)
CountBySeverity(incidents) ==
  [s \in {"P0", "P1", "P2", "P3"} |->
     Cardinality({n \in DOMAIN incidents : incidents[n].severity = s})]

-----------------------------------------------------------------------------
(* Times.                                                                  *)

Minutes == 60 * 1000

(* tier: what a row says of an incident that still needs someone.          *)
Tier(elapsed, state) ==
  IF state \notin {"OPEN", "INVESTIGATING"} THEN "settled"
  ELSE IF elapsed >= 30 * Minutes THEN "critical"
  ELSE IF elapsed >= 10 * Minutes THEN "elevated"
  ELSE "fresh"

(* formatDuration: <<amount, unit in seconds>> of each part of the text.   *)
FormatDuration(seconds) ==
  LET minutes == (seconds + 30) \div 60
      hours   == minutes \div 60
      parts   == IF seconds < 60 THEN <<<<seconds, 1>>>>
                 ELSE IF minutes < 60 THEN <<<<minutes, 60>>>>
                 ELSE IF hours < 24 THEN <<<<hours, 3600>>, <<minutes % 60, 60>>>>
                 ELSE <<<<hours \div 24, 86400>>, <<hours % 24, 3600>>>>
  IN  SelectSeq(parts, LAMBDA p : Len(parts) = 1 \/ p[1] > 0)

-----------------------------------------------------------------------------
(* Health. *)

Stores == {"postgres", "mongo", "redis", "queue"}

(* buildHealthResponse. *)
BuildHealth(up, shedding) ==
  [status |-> IF up # Stores THEN "unhealthy" ELSE IF shedding THEN "degraded" ELSE "healthy",
   up |-> up, shedding |-> shedding]

(* An answer that is not JSON: a proxy's, for one. The poller takes it for *)
(* a health that it reached.                                               *)
NoHealth == [status |-> "none", up |-> {}, shedding |-> FALSE]

(* deriveBanner, SystemBanner.tsx. *)
DeriveBanner(phase, health) ==
  IF phase = "unreachable" THEN [tone |-> "critical", down |-> {}]
  ELSE IF phase = "reachable" /\ health.status = "unhealthy"
    THEN [tone |-> "critical", down |-> Stores \ health.up]
  ELSE IF phase = "reachable" /\ (health.status = "degraded" \/ health.shedding)
    THEN [tone |-> "warning", down |-> {}]
  ELSE [tone |-> "none", down |-> {}]

(* ConnectionStatusIndicator. *)
Indicator(phase, health) ==
  CASE phase = "checking" -> "connecting"
    [] phase = "unreachable" -> "offline"
    [] phase = "reachable" /\ health.status = "degraded" -> "shedding"
    [] phase = "reachable" /\ health.status = "unhealthy" -> "degraded"
    [] phase = "reachable" /\ health.status \notin {"degraded", "unhealthy"} -> "connected"

(* BufferMeter, with the fill in percent. *)
MeterTier(fill, shedding) ==
  IF shedding \/ fill >= 90 THEN "critical" ELSE IF fill >= 70 THEN "warning" ELSE "good"

(* friendlyErrorMessage: by kind, or in the server's words.                *)
MessageFor(kind) ==
  CASE kind \in {"network", "timeout", "unavailable", "not_found"} -> kind
    [] kind \in {"validation", "invalid_rca", "conflict"} -> "server"
    [] OTHER -> "other"

IsTransient(kind) == kind \in {"network", "timeout", "unavailable"}

-----------------------------------------------------------------------------
(* What an operator may rely on.                                           *)

(* Turning the pages shows each incident that passes the filters once, in  *)
(* the server's order, and the words under the list count the rows above.  *)
PagesShowAll(filtered) ==
  LET count == PageCount(Len(filtered))
      upTo[p \in 0..count] == IF p = 0 THEN <<>> ELSE upTo[p - 1] \o PageItems(filtered, p)
  IN  /\ upTo[count] = filtered
      /\ \A p \in 1..count :
           LET shown == Shown(p, Len(filtered))
           IN  filtered # <<>> =>
                 /\ PageItems(filtered, p) # <<>>
                 /\ Len(PageItems(filtered, p)) = shown.last - shown.first + 1

(* Once the effects ran the page is there, whatever resolved meanwhile,    *)
(* and a refresh that leaves it there does not turn it ("otherwise yank an *)
(* operator back to page 1 mid-review", ActiveIncidentsView.tsx:66).       *)
PageIsThere(page, total, changed) ==
  LET settled == Settled(page, PageCount(total), changed)
  IN  /\ settled \in 1..PageCount(total)
      /\ ~ changed /\ page <= PageCount(total) => settled = page
      /\ \A b \in {"Previous", "Next"} :
           CanPress(b, settled, PageCount(total)) =>
             Press(b, settled) \in 1..PageCount(total)

(* An empty list tells why: a filter hides the rows, which the offered     *)
(* button takes away, and a feed that is quiet is told from one that       *)
(* failed. An error above rows that are shown stays a line.                *)
EmptinessExplained(incidents, address, loading, error) ==
  LET filtered == ApplyFilters(incidents, ParseFilters(address))
      notice   == Notice(incidents, loading, error, filtered)
  IN  /\ notice = "no match" => HasActiveFilters(ParseFilters(address))
      /\ notice = "quiet" => ~ error /\ ~ loading
      /\ ApplyFilters(incidents, ParseFilters(<<>>)) = incidents

(* A duration reads as it is, up to half a minute; from a day on, minutes  *)
(* are cut off.                                                            *)
DurationIsClose(seconds) ==
  LET text  == FormatDuration(seconds)
      total == IF Len(text) = 1 THEN text[1][1] * text[1][2]
               ELSE text[1][1] * text[1][2] + text[2][1] * text[2][2]
  IN  /\ text # <<>>
      /\ total - seconds <= 30
      /\ seconds - total < IF total >= 86400 THEN 3630 ELSE 31

(* Banner and dot tell the same of every health that the server can build: *)
(* none says that all is well while another shows an outage or shedding,   *)
(* and an outage is not told as shedding, though both may be the case.     *)
BannerAndDotAgree(phase, health) ==
  LET tone == DeriveBanner(phase, health).tone
      dot  == Indicator(phase, health)
  IN  /\ tone = "critical" <=> dot \in {"offline", "degraded"}
      /\ tone = "warning"  <=> dot = "shedding"
      /\ dot = "degraded" <=> DeriveBanner(phase, health).down # {}

=============================================================================
