-------------------------- MODULE IncidentConsole --------------------------
(***************************************************************************)
(* The page of one incident in one browser tab: what it shows of the       *)
(* incident (features/incidents/useIncidentDetail.ts), the buttons that    *)
(* move it (StateMachineControl.tsx), and the form that closes it with its *)
(* root cause analysis (features/rca/RcaForm.tsx), whose draft is kept in  *)
(* the session storage (rcaDraft.ts) and which the operator has to confirm *)
(* to leave (useUnsavedChangesWarning.ts). Others move the incidents too,  *)
(* answers come in any order, and the session may end at any answer        *)
(* (lib/api.ts, hooks/useAuth.tsx).                                        *)
(*                                                                         *)
(* An incident stands at its rank in the life cycle, from 0 (OPEN) to 3    *)
(* (CLOSED): see WorkItemLifecycle. What the form checks is in RcaRules.   *)
(***************************************************************************)
EXTENDS Integers, FiniteSets

CONSTANTS
  Incidents,
  Gets,           (* GETs of the detail that may be open together             *)
  Posts,          (* transitions and submissions that may be open together    *)
  MaxVisits,      (* bound of the model: pages opened                         *)
  MaxOthers,      (* bound of the model: moves by others                      *)
  MaxMishaps      (* bound of the model: failures, logouts, reloads, jumps    *)

None == "none"
Blank == "blank"
Feed == "feed"
Login == "login"

ASSUME ConsoleAssumption ==
  /\ Incidents # {} /\ {None, Blank, Feed, Login} \cap Incidents = {} /\ None \notin Gets
  /\ {MaxVisits, MaxOthers, MaxMishaps} \subseteq Nat

Investigating == 1
Resolved == 2
Closed == 3

VARIABLES
  actual,       (* [Incidents -> 0..Closed], in Postgres                      *)
  route, from,  (* of the tab, and where a login returns to                   *)
  parked,       (* the navigation that the blocker holds back                 *)
  detail, detailError,
  get, awaited, (* the GETs, and controllerRef                                *)
  post,
  form,         (* the RcaForm of the page                                    *)
  draft,        (* [Incidents -> ...], sessionStorage                         *)
  typed,        (* history: [Incidents -> BOOLEAN], the operator wrote an RCA *)
  settled,      (* history: where the incident of the route stood when its    *)
                (* last move or submission from this page was answered        *)
  jumped,       (* history: this tab went from one incident's page straight   *)
                (* to another's                                               *)
  visits, others, mishaps

tabVars == <<route, from, parked>>
pageVars == <<detail, detailError, get, awaited>>
formVars == <<form, draft, typed>>
boundVars == <<visits, others, mishaps>>
consoleVars == <<actual, tabVars, pageVars, post, formVars, settled, jumped, boundVars>>

Shown == [id : Incidents \cup {None}, rank : 0..Closed]

NoDetail == [id |-> None, rank |-> 0]

(* "body": the headers are here; aborted: to be ignored. *)
Get == [at : {"idle", "asked", "body"}, id : Incidents, rank : 0..Closed, aborted : BOOLEAN]

(* page, form: the page, the form that sent it is still mounted. page is   *)
(* the incident that its refresh asks for, that of the route at the click. *)
Post == [at : {"idle", "asked", "done", "refused", "invalid"}, id : Incidents,
         target : {Investigating, Resolved, Closed},
         page : Incidents \cup {None}, form : BOOLEAN]

Form == [on : BOOLEAN, text : Incidents \cup {Blank}, dirty : BOOLEAN, submitting : BOOLEAN,
         submitted : BOOLEAN]

NoForm == [on |-> FALSE, text |-> Blank, dirty |-> FALSE, submitting |-> FALSE,
           submitted |-> FALSE]

FreeGet == [at |-> "idle", id |-> CHOOSE i \in Incidents : TRUE, rank |-> 0, aborted |-> FALSE]

FreePost == [at |-> "idle", id |-> CHOOSE i \in Incidents : TRUE, target |-> Closed,
             page |-> None, form |-> FALSE]

Mishap == mishaps < MaxMishaps /\ mishaps' = mishaps + 1

ConsoleInit ==
  /\ actual \in [Incidents -> 0..Closed]
  /\ route = Feed /\ from = Feed /\ parked = None
  /\ detail = NoDetail /\ detailError = FALSE
  /\ get = [g \in Gets |-> FreeGet] /\ awaited = None
  /\ post = [p \in Posts |-> FreePost]
  /\ form = NoForm /\ draft = [i \in Incidents |-> None] /\ typed = [i \in Incidents |-> FALSE]
  /\ settled = 0 /\ jumped = FALSE
  /\ visits = 0 /\ others = 0 /\ mishaps = 0

(* Another operator moves an incident, or a request is applied after its   *)
(* time-out.                                                               *)
OthersMove(i) ==
  /\ others < MaxOthers /\ others' = others + 1
  /\ actual[i] < Closed
  /\ actual' = [actual EXCEPT ![i] = @ + 1]
  /\ UNCHANGED <<tabVars, pageVars, post, formVars, settled, jumped, visits, mishaps>>

-----------------------------------------------------------------------------
(* Definitions named Faulty... are seeded faults: each replaces the        *)
(* definition after it in a run that must then find a property violated.   *)

(* controllerRef.current?.abort(): a call that waits for its headers ends. *)
AbortGet ==
  IF awaited = None THEN get
  ELSE [get EXCEPT ![awaited] = IF @.at = "body" THEN [@ EXCEPT !.aborted = TRUE] ELSE FreeGet]

(* fetchDetail, of incident i. *)
FetchDetail(i) ==
  LET free == {g \in Gets : AbortGet[g].at = "idle"}
      g == CHOOSE g \in free : TRUE
  IN  /\ free # {}
      /\ get' = [AbortGet EXCEPT ![g] = [FreeGet EXCEPT !.at = "asked", !.id = i]]
      /\ awaited' = g

(* The route's element unmounts. The requests it sent go on.               *)
LeavePage ==
  /\ get' = AbortGet /\ awaited' = None
  /\ detail' = NoDetail /\ detailError' = FALSE
  /\ form' = NoForm
  /\ post' = [p \in Posts |-> [post[p] EXCEPT !.page = None, !.form = FALSE]]
  /\ parked' = None /\ settled' = 0

Blocked == form.on /\ form.dirty /\ ~ form.submitted

(* The form's effects when another detail is rendered: it mounts with the  *)
(* draft, or a fresh form, which it saves at once; it unmounts; or, on an  *)
(* incident's page that became another's, it stays what it is, saved as    *)
(* the other's draft. The default end time of a form that reads a draft is *)
(* not that of the draft, unless both are of the same minute.              *)
RenderForm(shown) ==
  IF shown.rank # Resolved
  THEN /\ form' = NoForm /\ UNCHANGED draft
       /\ parked' = None
  ELSE IF form.on
  THEN /\ UNCHANGED <<form, parked>>
       /\ draft' = IF form.submitted THEN draft ELSE [draft EXCEPT ![shown.id] = form.text]
  ELSE \E late \in BOOLEAN :
         LET text == IF draft[shown.id] = None THEN Blank ELSE draft[shown.id]
         IN  /\ form' = [NoForm EXCEPT !.on = TRUE, !.text = text,
                           !.dirty = text # Blank \/ (late /\ draft[shown.id] # None)]
             /\ draft' = [draft EXCEPT ![shown.id] = text]
             /\ UNCHANGED parked

(* useParams and the effect of useIncidentDetail, for a route that is      *)
(* taken.                                                                  *)
Go(r) ==
  /\ route' = r
  /\ \/ /\ r \in Incidents /\ route \notin Incidents
        /\ visits < MaxVisits /\ visits' = visits + 1
        /\ FetchDetail(r)
        /\ detail' = NoDetail /\ detailError' = FALSE /\ settled' = 0 /\ parked' = None
        /\ UNCHANGED <<post, form, jumped, others, mishaps>>
     \/ /\ r \in Incidents /\ route \in Incidents
        /\ FetchDetail(r)
        /\ Mishap
        /\ jumped' = TRUE /\ parked' = None
        /\ UNCHANGED <<detail, detailError, settled, post, form, visits, others>>
     \/ /\ r \notin Incidents
        /\ LeavePage
        /\ UNCHANGED <<jumped, boundVars>>
  /\ UNCHANGED <<actual, from, draft, typed>>

(* A link, or the history, which may lead from one page to another's.      *)
Navigate(r) ==
  /\ route # Login /\ r # route
  /\ route \in Incidents /\ r \in Incidents => mishaps < MaxMishaps
  /\ \/ ~ Blocked /\ Go(r)
     \/ /\ Blocked
        /\ parked' = r
        /\ UNCHANGED <<actual, route, from, pageVars, post, formVars, settled, jumped, boundVars>>

(* "Leave anyway" *)
Proceed == parked # None /\ Go(parked)

(* "Keep editing" *)
Stay ==
  /\ parked # None
  /\ parked' = None
  /\ UNCHANGED <<actual, route, from, pageVars, post, formVars, settled, jumped, boundVars>>

(* The session ends, by hand or by a 401: RequireAuth renders the login,   *)
(* which no blocker holds back, and remembers the route.                   *)
Logout ==
  /\ route # Login
  /\ Mishap
  /\ route' = Login /\ from' = route
  /\ LeavePage
  /\ UNCHANGED <<actual, draft, typed, jumped, visits, others>>

(* The login returns. *)
LogIn ==
  /\ route = Login
  /\ route' = from
  /\ \/ /\ from \in Incidents
        /\ visits < MaxVisits /\ visits' = visits + 1
        /\ FetchDetail(from)
     \/ from \notin Incidents /\ UNCHANGED <<get, awaited, visits, others>>
  /\ UNCHANGED <<actual, from, parked, detail, detailError, post, formVars, settled,
                 jumped, others, mishaps>>

(* A reload of the tab: all is gone but the session storage. *)
Reload ==
  /\ Mishap
  /\ route' = Login /\ from' = IF route = Login THEN from ELSE route
  /\ parked' = None /\ detail' = NoDetail /\ detailError' = FALSE
  /\ get' = [g \in Gets |-> FreeGet] /\ awaited' = None
  /\ post' = [p \in Posts |-> FreePost] /\ form' = NoForm
  /\ settled' = 0
  /\ UNCHANGED <<actual, draft, typed, jumped, visits, others>>

-----------------------------------------------------------------------------
(* The detail.                                                             *)

(* GET /api/v1/incidents/:id *)
GetServed(g) ==
  /\ get[g].at = "asked"
  /\ get' = [get EXCEPT ![g].at = "body", ![g].rank = actual[get[g].id]]
  /\ UNCHANGED <<actual, tabVars, detail, detailError, awaited, post, formVars, settled,
                 jumped, boundVars>>

Unaborted(g) == ~ get[g].aborted

GetArrives(g) ==
  /\ get[g].at = "body"
  /\ get' = [get EXCEPT ![g] = FreeGet]
  /\ \/ /\ Unaborted(g)
        /\ detail' = [id |-> get[g].id, rank |-> get[g].rank] /\ detailError' = FALSE
        /\ RenderForm(detail')
     \/ /\ ~ Unaborted(g)
        /\ UNCHANGED <<detail, detailError, form, draft, parked>>
  /\ UNCHANGED <<actual, route, from, awaited, post, typed, settled, jumped, boundVars>>

(* What is shown stays, and hides the error. *)
GetFails(g) ==
  /\ Mishap
  /\ get[g].at # "idle"
  /\ get' = [get EXCEPT ![g] = FreeGet]
  /\ detailError' = (detailError \/ Unaborted(g))
  /\ UNCHANGED <<actual, tabVars, detail, awaited, post, formVars, settled, jumped, visits, others>>

(* "Retry", shown while there is nothing else to show. *)
RetryDetail ==
  /\ detail = NoDetail /\ detailError
  /\ FetchDetail(route)
  /\ UNCHANGED <<actual, tabVars, detail, detailError, post, formVars, settled, jumped,
                 boundVars>>

-----------------------------------------------------------------------------
(* Moves and submissions.                                                  *)

SendPost(p, target, ofForm) ==
  /\ post[p].at = "idle" /\ p = CHOOSE q \in Posts : post[q].at = "idle"
  /\ post' = [post EXCEPT ![p] = [at |-> "asked", id |-> detail.id, target |-> target,
                                  page |-> route, form |-> ofForm]]

(* pendingTarget: the buttons of the page are off while one is answered. *)
MovePending == \E p \in Posts : /\ post[p].at # "idle" /\ post[p].page # None
                            /\ post[p].target # Closed

(* handleClick, of the one step that legalNextStates offers without data. *)
Click(p) ==
  /\ detail # NoDetail /\ ~ MovePending /\ parked = None
  /\ detail.rank + 1 \in {Investigating, Resolved}
  /\ SendPost(p, detail.rank + 1, FALSE)
  /\ UNCHANGED <<actual, tabVars, pageVars, formVars, settled, jumped, boundVars>>

(* setField: a keystroke, saved unless the form was submitted. *)
Type ==
  /\ form.on /\ parked = None
  /\ form.text # detail.id
  /\ form' = [form EXCEPT !.text = detail.id, !.dirty = TRUE]
  /\ draft' = IF form.submitted THEN draft ELSE [draft EXCEPT ![detail.id] = detail.id]
  /\ typed' = [typed EXCEPT ![detail.id] = TRUE]
  /\ UNCHANGED <<actual, tabVars, pageVars, post, settled, jumped, boundVars>>

(* handleSubmit, of a form that its own check passes.                      *)
Submit(p) ==
  /\ form.on /\ ~ form.submitting /\ parked = None
  /\ form.text # Blank
  /\ SendPost(p, Closed, TRUE)
  /\ form' = [form EXCEPT !.submitting = TRUE]
  /\ UNCHANGED <<actual, tabVars, pageVars, draft, typed, settled, jumped, boundVars>>

(* The workflow decides: done, 409, or 422 with its own clock and rules.   *)
Decide(p) ==
  /\ post[p].at = "asked"
  /\ \/ /\ post[p].target = actual[post[p].id] + 1
        /\ actual' = [actual EXCEPT ![post[p].id] = @ + 1]
        /\ post' = [post EXCEPT ![p].at = "done"]
        /\ UNCHANGED mishaps
     \/ /\ post[p].target # actual[post[p].id] + 1
        /\ post' = [post EXCEPT ![p].at = "refused"]
        /\ UNCHANGED <<actual, mishaps>>
     \/ /\ post[p].target = Closed /\ actual[post[p].id] = Resolved
        /\ Mishap
        /\ post' = [post EXCEPT ![p].at = "invalid"]
        /\ UNCHANGED actual
  /\ UNCHANGED <<tabVars, pageVars, formVars, settled, jumped, visits, others>>

(* Fault: a conflict is an answer like another. *)
FaultyRefreshed(p) == post[p].at = "done"

(* onTransitioned, onSubmitted, onConflict: handleRefresh. *)
Refreshed(p) == post[p].at \in {"done", "refused"}

(* The page's part of an answer. The refresh is that of the render of the  *)
(* click. That of a page that is gone is not seen.                         *)
HandleRefresh(p) ==
  \/ Refreshed(p) /\ post[p].page # None /\ FetchDetail(post[p].page)
  \/ ~ (Refreshed(p) /\ post[p].page # None) /\ UNCHANGED <<get, awaited>>

(* Fault: the draft goes with the submission, accepted or not. *)
FaultyAccepted(p) == post[p].target = Closed

Accepted(p) == post[p].at = "done" /\ post[p].target = Closed

(* The form's part: submitted before the draft is cleared, so that it is   *)
(* not saved again; what was parked goes through. The parked navigation's  *)
(* own steps follow.                                                       *)
Answered(p) ==
  /\ post[p].at \in {"done", "refused", "invalid"}
  /\ post' = [post EXCEPT ![p] = FreePost]
  /\ draft' = IF Accepted(p) THEN [draft EXCEPT ![post[p].id] = None] ELSE draft
  /\ form' = IF post[p].form
             THEN [form EXCEPT !.submitting = FALSE, !.submitted = @ \/ Accepted(p)]
             ELSE form
  /\ HandleRefresh(p)
  /\ settled' = IF /\ post[p].at \in {"done", "refused"}
                   /\ post[p].page # None /\ post[p].id = route
                THEN actual[route] ELSE settled
  /\ UNCHANGED <<actual, tabVars, detail, detailError, typed, jumped, boundVars>>

(* A time-out, the network, a 5xx or another 4xx: a message, nothing else. *)
(* The server may apply the request later.                                 *)
PostFails(p) ==
  /\ Mishap
  /\ post[p].at # "idle"
  /\ post' = [post EXCEPT ![p] = FreePost]
  /\ form' = IF post[p].form THEN [form EXCEPT !.submitting = FALSE] ELSE form
  /\ UNCHANGED <<actual, tabVars, pageVars, draft, typed, settled, jumped, visits, others>>

(* The guard is off: the parked navigation goes on. *)
Unblock == form.on /\ parked # None /\ ~ Blocked /\ Go(parked)

-----------------------------------------------------------------------------

ConsoleNext ==
  \/ \E i \in Incidents : OthersMove(i)
  \/ \E r \in Incidents \cup {Feed} : Navigate(r)
  \/ Proceed \/ Stay \/ Unblock \/ Logout \/ LogIn \/ Reload \/ RetryDetail \/ Type
  \/ \E g \in Gets : GetServed(g) \/ GetArrives(g) \/ GetFails(g)
  \/ \E p \in Posts : Click(p) \/ Submit(p) \/ Decide(p) \/ Answered(p) \/ PostFails(p)

ConsoleSpec == ConsoleInit /\ [][ConsoleNext]_consoleVars

-----------------------------------------------------------------------------

ConsoleTypeOK ==
  /\ actual \in [Incidents -> 0..Closed]
  /\ route \in Incidents \cup {Feed, Login} /\ from \in Incidents \cup {Feed}
  /\ parked \in Incidents \cup {Feed, None}
  /\ detail \in Shown
  /\ get \in [Gets -> Get] /\ awaited \in Gets \cup {None}
  /\ post \in [Posts -> Post] /\ form \in Form
  /\ draft \in [Incidents -> Incidents \cup {Blank, None}]
  /\ typed \in [Incidents -> BOOLEAN] /\ settled \in 0..Closed
  /\ {detailError, jumped} \subseteq BOOLEAN /\ {visits, others, mishaps} \subseteq Nat

(* The page waits for no answer, and has an answer since the last error.   *)
AtRest == /\ route \in Incidents /\ ~ detailError
          /\ awaited # None => get[awaited].at = "idle"

(* "the server's state wins on any disagreement" (useIncidentDetail.ts):   *)
(* at rest, the page shows the incident of its route, and at least where   *)
(* it stood when a move or a submission from this page was last answered,  *)
(* by a 200 or a 409, whatever was asked and answered in between; but for  *)
(* a tab that went from one incident's page straight to another's.         *)
ServerStateWins ==
  AtRest /\ ~ jumped => detail.id = route /\ detail.rank >= settled

(* "Keyed per incident so two incidents' drafts never collide", "a draft   *)
(* is meant to survive an accidental navigation or reload" (rcaDraft.ts):  *)
(* what the operator wrote of an incident is in the session storage until  *)
(* the incident is closed, and nowhere else; but for a tab that went from  *)
(* one incident's page straight to another's.                              *)
DraftsKept ==
  ~ jumped => \A i \in Incidents :
                /\ draft[i] \in {None, Blank, i}
                /\ typed[i] /\ actual[i] # Closed => draft[i] = i

=============================================================================
