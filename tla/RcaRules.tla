------------------------------ MODULE RcaRules ------------------------------
(***************************************************************************)
(* What makes a root cause analysis acceptable: the rules of the server    *)
(* (backend/src/domain/rca), their mirror in the form                      *)
(* (frontend/src/features/rca/rcaValidation.ts), and the repair time that  *)
(* follows. Pure functions: no variables.                                  *)
(*                                                                         *)
(* Times are milliseconds, NoTime an absent or unparseable one. A text is  *)
(* its length without the blanks around it, 0 for one that is absent. The  *)
(* browser's local time is taken to have no change of clock.               *)
(***************************************************************************)
EXTENDS Integers, Sequences

NoTime == -1

Minute == 60000

(* MIN_TEXT_FIELD_LENGTH, of both sides. *)
MinText == 10

RootCauseCategories ==
  {"CODE_DEFECT", "INFRASTRUCTURE_FAILURE", "CONFIGURATION_ERROR", "CAPACITY_EXHAUSTION",
   "EXTERNAL_DEPENDENCY", "NETWORK", "HUMAN_ERROR", "UNKNOWN"}

TextField == {"rootCauseDescription", "fixApplied", "preventionSteps"}

(* A submission; a category is blank, another name, or one of the above,   *)
(* and padded when there are blanks around it.                             *)
RcaRecord ==
  [start : Nat \cup {NoTime}, end : Nat \cup {NoTime},
   category : RootCauseCategories \cup {"blank", "other"}, padded : BOOLEAN,
   length : [TextField -> Nat]]

-----------------------------------------------------------------------------
(* The server: every rule a submission breaks, as <<field, rule>>.         *)

TextErrors(rca) ==
  {<<f, "required">> : f \in {t \in TextField : rca.length[t] = 0}} \cup
  {<<f, "short">> : f \in {t \in TextField : rca.length[t] \in 1..(MinText - 1)}}

CategoryErrors(rca) ==
  IF rca.category = "blank" THEN {<<"rootCauseCategory", "required">>}
  ELSE IF rca.category \in RootCauseCategories /\ ~ rca.padded THEN {}
  ELSE {<<"rootCauseCategory", "unknown">>}

Broken(condition, field, rule) == IF condition THEN {<<field, rule>>} ELSE {}

(* validateRca: relations are tested between times that are there. *)
ValidateRca(rca, firstSignalAt, now) ==
  LET hasStart == rca.start # NoTime
      hasEnd   == rca.end # NoTime
  IN
  UNION {
    Broken(~ hasStart, "incidentStartTime", "required"),
    Broken(~ hasEnd, "incidentEndTime", "required"),
    CategoryErrors(rca),
    TextErrors(rca),
    Broken(hasStart /\ hasEnd /\ rca.end <= rca.start, "incidentEndTime", "order"),
    Broken(hasStart /\ rca.start < firstSignalAt, "incidentStartTime", "early"),
    Broken(hasStart /\ rca.start > now, "incidentStartTime", "future"),
    Broken(hasEnd /\ rca.end > now, "incidentEndTime", "future") }

(* createRcaCloseGuard: what the state graph asks before CLOSED. *)
CanClose(rca, firstSignalAt, now) == ValidateRca(rca, firstSignalAt, now) = {}

(* calculateMttr: seconds, rounded, or a clock that disagrees. *)
CalculateMttr(firstSignalAt, submittedAt) ==
  IF submittedAt < firstSignalAt
    THEN [ok |-> FALSE, mttrSeconds |-> 0]
    ELSE [ok |-> TRUE, mttrSeconds |-> (submittedAt - firstSignalAt + 500) \div 1000]

-----------------------------------------------------------------------------
(* The form: one message per field, that of the first rule broken.         *)

(* Blanks around the category are cut off first. *)
FormCategoryErrors(values) == CategoryErrors([values EXCEPT !.padded = FALSE])

(* validateRcaForm. *)
ValidateRcaForm(values, firstSignalAt, now) ==
  LET hasStart == values.start # NoTime
      hasEnd   == values.end # NoTime
      late     == hasStart /\ hasEnd /\ values.end <= values.start
      early    == hasStart /\ values.start < firstSignalAt
  IN
  UNION {
    Broken(~ hasStart, "incidentStartTime", "required"),
    Broken(~ hasEnd, "incidentEndTime", "required"),
    FormCategoryErrors(values),
    TextErrors(values),
    Broken(late, "incidentEndTime", "order"),
    Broken(early, "incidentStartTime", "early"),
    Broken(hasStart /\ ~ early /\ values.start > now, "incidentStartTime", "future"),
    Broken(hasEnd /\ ~ late /\ values.end > now, "incidentEndTime", "future") }

(* RCA_FIELD_ORDER, from top to bottom. *)
FieldOrder == <<"incidentStartTime", "incidentEndTime", "rootCauseCategory",
                "rootCauseDescription", "fixApplied", "preventionSteps">>

FieldsOf(errors) == {e[1] : e \in errors}

(* firstInvalidField: where the focus goes after a refusal. *)
FirstInvalidField(errors) ==
  LET places == {n \in DOMAIN FieldOrder : FieldOrder[n] \in FieldsOf(errors)}
  IN  IF places = {} THEN "" ELSE FieldOrder[CHOOSE n \in places : \A m \in places : n <= m]

FloorMinute(t) == (t \div Minute) * Minute

(* defaultStartValue: the fields hold whole minutes, so it is rounded up,  *)
(* for the first signal is where an incident may start at the earliest.    *)
DefaultStart(firstSignalAt) == FloorMinute(firstSignalAt + Minute - 1)

(* buildDefaults: the end is the minute that the form was opened in. *)
BuildDefaults(firstSignalAt, now) ==
  [start |-> DefaultStart(firstSignalAt), end |-> FloorMinute(now),
   category |-> "blank", padded |-> FALSE, length |-> [f \in TextField |-> 0]]

-----------------------------------------------------------------------------
(* What a reader may rely on; RulesProofs proves each for every value,     *)
(* and MCRules has TLC evaluate them over small ones.                  *)

(* "it must not disagree with the backend about what's valid"              *)
(* (rcaValidation.ts): with the same values and clock the form marks the   *)
(* fields that the server would, by a rule that the server finds broken.   *)
(* The form's select offers categories without blanks only: with them the  *)
(* form would pass what the server refuses.                                *)
FormMirrorsServer(values, firstSignalAt, now) ==
  ~ values.padded =>
    /\ FieldsOf(ValidateRcaForm(values, firstSignalAt, now))
         = FieldsOf(ValidateRca(values, firstSignalAt, now))
    /\ ValidateRcaForm(values, firstSignalAt, now) \subseteq ValidateRca(values, firstSignalAt, now)

(* What the inline display needs: no field is marked twice. *)
OneMessagePerField(values, firstSignalAt, now) ==
  \A e, f \in ValidateRcaForm(values, firstSignalAt, now) : e[1] = f[1] => e = f

(* submitIncidentRca answers 500 when the repair time is negative: an      *)
(* analysis that was accepted at the same instant never gets there.        *)
AcceptedHasMttr(rca, firstSignalAt, now) ==
  CanClose(rca, firstSignalAt, now) => CalculateMttr(firstSignalAt, now).ok

(* "Round UP so the default is itself valid" (RcaForm.tsx:36-38): it is    *)
(* never early, but it is in the future for the rest of the minute of the  *)
(* first signal, and the default end is not after it in that and the next. *)
DefaultsNeedAMinute(firstSignalAt, now) ==
  LET times == {e \in ValidateRcaForm(BuildDefaults(firstSignalAt, now), firstSignalAt, now) :
                  e[1] \in {"incidentStartTime", "incidentEndTime"}}
  IN  /\ <<"incidentStartTime", "early">> \notin times
      /\ times = {} <=> DefaultStart(firstSignalAt) + Minute <= now

=============================================================================
