----------------------------- MODULE RulesProofs -----------------------------
(* The claims of the modules without variables, for every input: what      *)
(* RcaRules says of every submission, first signal and clock, Configuration*)
(* of every environment that starts, Analytics and AnalyticsPanels of every*)
(* series, range and interval, FeedPage of feeds of every length, Recorders*)
(* of every histogram, scrape and set of channels, and LoadReport and      *)
(* ScenarioRuns of all rates, samples and checks.                          *)
EXTENDS SumTheorems, SequenceTheorems, RcaRules, Configuration, AnalyticsPanels, FeedPage,
        Recorders, TLAPS

Load   == INSTANCE LoadReport
Script == INSTANCE ScenarioRuns

-----------------------------------------------------------------------------
(* Root causes.                                                            *)

(* An error of a union of conditional ones, spelt out. *)
LEMMA ServerSays ==
  ASSUME NEW rca \in RcaRecord, NEW first \in Nat, NEW now \in Nat, NEW e
  PROVE  e \in ValidateRca(rca, first, now) <=>
           \/ rca.start = NoTime /\ e = <<"incidentStartTime", "required">>
           \/ rca.end = NoTime /\ e = <<"incidentEndTime", "required">>
           \/ e \in CategoryErrors(rca)
           \/ e \in TextErrors(rca)
           \/ /\ rca.start # NoTime /\ rca.end # NoTime /\ rca.end <= rca.start
              /\ e = <<"incidentEndTime", "order">>
           \/ rca.start # NoTime /\ rca.start < first /\ e = <<"incidentStartTime", "early">>
           \/ rca.start # NoTime /\ rca.start > now /\ e = <<"incidentStartTime", "future">>
           \/ rca.end # NoTime /\ rca.end > now /\ e = <<"incidentEndTime", "future">>
  BY DEF ValidateRca, Broken

LEMMA FormSays ==
  ASSUME NEW v \in RcaRecord, NEW first \in Nat, NEW now \in Nat, NEW e
  PROVE  e \in ValidateRcaForm(v, first, now) <=>
           \/ v.start = NoTime /\ e = <<"incidentStartTime", "required">>
           \/ v.end = NoTime /\ e = <<"incidentEndTime", "required">>
           \/ e \in FormCategoryErrors(v)
           \/ e \in TextErrors(v)
           \/ /\ v.start # NoTime /\ v.end # NoTime /\ v.end <= v.start
              /\ e = <<"incidentEndTime", "order">>
           \/ v.start # NoTime /\ v.start < first /\ e = <<"incidentStartTime", "early">>
           \/ /\ v.start # NoTime /\ ~ (v.start < first) /\ v.start > now
              /\ e = <<"incidentStartTime", "future">>
           \/ /\ v.end # NoTime /\ ~ (v.start # NoTime /\ v.end <= v.start) /\ v.end > now
              /\ e = <<"incidentEndTime", "future">>
  BY DEF ValidateRcaForm, Broken

(* For a category without blanks the two sides read the same record. *)
LEMMA SameCategory ==
  ASSUME NEW v \in RcaRecord, ~ v.padded
  PROVE  FormCategoryErrors(v) = CategoryErrors(v)
  <1>1. [v EXCEPT !.padded = FALSE] = v
    BY DEF RcaRecord
  <1> QED BY <1>1 DEF FormCategoryErrors

(* Each field has rules of its own. *)
LEMMA WhoseErrors ==
  ASSUME NEW v \in RcaRecord, NEW e
  PROVE  /\ e \in CategoryErrors(v) => e \in {<<"rootCauseCategory", "required">>,
                                               <<"rootCauseCategory", "unknown">>}
         /\ e \in TextErrors(v) => \E f \in TextField : e \in {<<f, "required">>, <<f, "short">>}
  <1>1. e \in CategoryErrors(v) => e \in {<<"rootCauseCategory", "required">>,
                                         <<"rootCauseCategory", "unknown">>}
    BY DEF CategoryErrors
  <1>2. e \in TextErrors(v) => \E f \in TextField : e \in {<<f, "required">>, <<f, "short">>}
    BY DEF TextErrors
  <1> QED BY <1>1, <1>2

(* The form marks the fields that the server would, for its reasons. *)
THEOREM Mirror ==
  ASSUME NEW v \in RcaRecord, NEW first \in Nat, NEW now \in Nat
  PROVE  FormMirrorsServer(v, first, now)
  <1> DEFINE F == ValidateRcaForm(v, first, now)
             S == ValidateRca(v, first, now)
  <1>1. SUFFICES ASSUME ~ v.padded
                 PROVE  FieldsOf(F) = FieldsOf(S) /\ F \subseteq S
    BY DEF FormMirrorsServer
  <1>2. FormCategoryErrors(v) = CategoryErrors(v)
    BY <1>1, SameCategory
  <1>3. v.start \in Int /\ v.end \in Int
    BY DEF RcaRecord, NoTime
  <1>4. ASSUME NEW e \in F PROVE e \in S
    BY <1>2, <1>3, ServerSays, FormSays
  <1>5. ASSUME NEW e \in S PROVE \E d \in F : d[1] = e[1]
    <2>1. CASE v.start # NoTime /\ v.start < first /\ e = <<"incidentStartTime", "future">>
      <3>1. <<"incidentStartTime", "early">> \in F
        BY <2>1, FormSays
      <3> QED BY <2>1, <3>1
    <2>2. CASE /\ v.start # NoTime /\ v.end # NoTime /\ v.end <= v.start
               /\ e = <<"incidentEndTime", "future">>
      <3>1. <<"incidentEndTime", "order">> \in F
        BY <2>2, FormSays
      <3> QED BY <2>2, <3>1
    <2>3. ASSUME ~ (v.start # NoTime /\ v.start < first /\ e = <<"incidentStartTime", "future">>),
                 ~ (/\ v.start # NoTime /\ v.end # NoTime /\ v.end <= v.start
                    /\ e = <<"incidentEndTime", "future">>)
          PROVE  e \in F
      BY <1>2, <1>3, <1>5, <2>3, ServerSays, FormSays
    <2> QED BY <2>1, <2>2, <2>3
  <1> QED BY <1>4, <1>5 DEF FieldsOf

(* No field is marked by two rules. *)
THEOREM OneMessage ==
  ASSUME NEW v \in RcaRecord, NEW first \in Nat, NEW now \in Nat
  PROVE  OneMessagePerField(v, first, now)
  <1>1. v.start \in Int /\ v.end \in Int
    BY DEF RcaRecord, NoTime
  <1>2. SUFFICES ASSUME NEW e \in ValidateRcaForm(v, first, now),
                        NEW f \in ValidateRcaForm(v, first, now), e[1] = f[1]
                 PROVE  e = f
    BY DEF OneMessagePerField
  <1>3. [v EXCEPT !.padded = FALSE] \in RcaRecord
    BY DEF RcaRecord
  <1>4. \A d : d \in FormCategoryErrors(v) => d[1] = "rootCauseCategory"
    BY <1>3, WhoseErrors DEF FormCategoryErrors
  <1>5. \A d, g : d \in FormCategoryErrors(v) /\ g \in FormCategoryErrors(v) => d = g
    BY DEF FormCategoryErrors, CategoryErrors
  <1>6. \A d, g : d \in TextErrors(v) /\ g \in TextErrors(v) /\ d[1] = g[1] => d = g
    BY DEF TextErrors, MinText
  <1>7. \A d : d \in TextErrors(v) => d[1] \in TextField
    BY DEF TextErrors
  <1>8. \A d : d \in ValidateRcaForm(v, first, now) =>
          /\ d[1] \in TextField => d \in TextErrors(v)
          /\ d[1] = "rootCauseCategory" => d \in FormCategoryErrors(v)
          /\ d[1] \in TextField \cup {"rootCauseCategory", "incidentStartTime", "incidentEndTime"}
    BY <1>4, <1>7, FormSays DEF TextField
  <1>9. CASE e[1] \in TextField
    BY <1>2, <1>6, <1>8, <1>9
  <1>10. CASE e[1] = "rootCauseCategory"
    BY <1>2, <1>5, <1>8, <1>10
  <1>11. CASE e[1] = "incidentStartTime"
    <2>1. e \notin TextErrors(v) /\ f \notin TextErrors(v)
      BY <1>2, <1>7, <1>11 DEF TextField
    <2>2. e \notin FormCategoryErrors(v) /\ f \notin FormCategoryErrors(v)
      BY <1>2, <1>4, <1>11
    <2>3. ASSUME NEW d \in ValidateRcaForm(v, first, now), d[1] = "incidentStartTime",
                 d \notin TextErrors(v), d \notin FormCategoryErrors(v)
          PROVE  \/ v.start = NoTime /\ d = <<"incidentStartTime", "required">>
                 \/ v.start # NoTime /\ v.start < first /\ d = <<"incidentStartTime", "early">>
                 \/ /\ v.start # NoTime /\ ~ (v.start < first)
                    /\ d = <<"incidentStartTime", "future">>
      BY <2>3, FormSays
    <2>4. f[1] = "incidentStartTime"
      BY <1>2, <1>11
    <2> QED BY <1>11, <2>1, <2>2, <2>3, <2>4, SMTT(60)
  <1>0. CASE e[1] = "incidentEndTime"
    <2>1. e \notin TextErrors(v) /\ f \notin TextErrors(v)
      BY <1>2, <1>7, <1>0 DEF TextField
    <2>2. e \notin FormCategoryErrors(v) /\ f \notin FormCategoryErrors(v)
      BY <1>2, <1>4, <1>0
    <2>3. ASSUME NEW d \in ValidateRcaForm(v, first, now), d[1] = "incidentEndTime",
                 d \notin TextErrors(v), d \notin FormCategoryErrors(v)
          PROVE  \/ v.end = NoTime /\ d = <<"incidentEndTime", "required">>
                 \/ /\ v.end # NoTime /\ v.start # NoTime /\ v.end <= v.start
                    /\ d = <<"incidentEndTime", "order">>
                 \/ /\ v.end # NoTime /\ ~ (v.start # NoTime /\ v.end <= v.start)
                    /\ d = <<"incidentEndTime", "future">>
      BY <2>3, FormSays
    <2>4. f[1] = "incidentEndTime"
      BY <1>2, <1>0
    <2> QED BY <1>0, <2>1, <2>2, <2>3, <2>4, SMTT(60)
  <1> QED BY <1>2, <1>8, <1>9, <1>10, <1>11, <1>0

(* An accepted analysis has a repair time. *)
THEOREM AcceptedIsTimed ==
  ASSUME NEW v \in RcaRecord, NEW first \in Nat, NEW now \in Nat
  PROVE  AcceptedHasMttr(v, first, now)
  <1>1. SUFFICES ASSUME ValidateRca(v, first, now) = {}
                 PROVE  CalculateMttr(first, now).ok
    BY DEF AcceptedHasMttr, CanClose
  <1>2. v.start \in Int
    BY DEF RcaRecord, NoTime
  <1>3. v.start # NoTime /\ ~ (v.start < first) /\ ~ (v.start > now)
    <2>1. /\ <<"incidentStartTime", "required">> \notin ValidateRca(v, first, now)
          /\ <<"incidentStartTime", "early">> \notin ValidateRca(v, first, now)
          /\ <<"incidentStartTime", "future">> \notin ValidateRca(v, first, now)
      BY <1>1
    <2> QED BY <2>1, ServerSays
  <1>4. ~ (now < first)
    BY <1>2, <1>3
  <1> QED BY <1>4 DEF CalculateMttr

(* When the form's own suggestion passes its checks. *)
THEOREM DefaultsInTime ==
  ASSUME NEW first \in Nat, NEW now \in Nat, first <= now
  PROVE  DefaultsNeedAMinute(first, now)
  <1> DEFINE d == BuildDefaults(first, now)
             F == ValidateRcaForm(d, first, now)
             Times == {e \in F : e[1] \in {"incidentStartTime", "incidentEndTime"}}
  <1>1. /\ DefaultStart(first) \in Nat /\ DefaultStart(first) >= first
        /\ DefaultStart(first) < first + Minute
        /\ FloorMinute(now) \in Nat /\ FloorMinute(now) <= now
    BY DEF DefaultStart, FloorMinute, Minute
  <1>2. FloorMinute(now) <= DefaultStart(first) <=> ~ (DefaultStart(first) + Minute <= now)
    BY DEF DefaultStart, FloorMinute, Minute
  <1>3. d \in RcaRecord /\ d.start = DefaultStart(first) /\ d.end = FloorMinute(now)
    <2>1. [f \in TextField |-> 0] \in [TextField -> Nat]
      OBVIOUS
    <2> QED BY <1>1, <2>1 DEF BuildDefaults, RcaRecord
  <1>4. d.start # NoTime /\ d.end # NoTime /\ ~ (d.start < first) /\ ~ (d.end > now)
    BY <1>1, <1>3 DEF NoTime
  <1> HIDE DEF d
  <1>5. [d EXCEPT !.padded = FALSE] \in RcaRecord
    BY <1>3 DEF RcaRecord
  <1>6. \A e : \/ e \in FormCategoryErrors(d) \/ e \in TextErrors(d)
                 => e[1] \notin {"incidentStartTime", "incidentEndTime"}
    BY <1>3, <1>5, WhoseErrors DEF FormCategoryErrors, TextField
  <1>7. <<"incidentStartTime", "early">> \notin Times
    BY <1>3, <1>4, <1>6, FormSays
  <1>8. ASSUME DefaultStart(first) + Minute <= now PROVE Times = {}
    <2>1. ~ (d.end <= d.start) /\ ~ (d.start > now)
      BY <1>1, <1>2, <1>3, <1>8 DEF Minute
    <2> QED BY <1>3, <1>4, <1>6, <2>1, FormSays
  <1>9. ASSUME ~ (DefaultStart(first) + Minute <= now) PROVE Times # {}
    <2>1. d.end <= d.start
      BY <1>2, <1>3, <1>9
    <2>2. <<"incidentEndTime", "order">> \in F
      BY <1>3, <1>4, <2>1, FormSays
    <2> QED BY <2>2
  <1> QED BY <1>7, <1>8, <1>9 DEF DefaultsNeedAMinute, d

-----------------------------------------------------------------------------
(* The configuration: a process that started runs with marks and ceilings  *)
(* that fit the buffer, whatever was in its environment.                   *)

(* Products with the same factor are in the order of the other ones. *)
LEMMA ProductsInOrder ==
  ASSUME NEW n \in Nat, NEW a \in Int, NEW b \in Int, a <= b
  PROVE  n * a <= n * b
  <1>1. PICK d \in Nat : b = a + d
    <2>1. b - a \in Nat /\ b = a + (b - a)
      OBVIOUS
    <2> QED BY <2>1
  <1>2. n * d \in Nat
    OBVIOUS
  <1>3. n * b = n * a + n * d
    BY <1>1
  <1> QED BY <1>2, <1>3

LEMMA ProductsApart ==
  ASSUME NEW n \in Nat \ {0}, NEW a \in Int, NEW b \in Int, a < b
  PROVE  n * a + n <= n * b
  <1>1. n * (a + 1) <= n * b
    BY ProductsInOrder
  <1>2. n * (a + 1) = n * a + n
    OBVIOUS
  <1> QED BY <1>1, <1>2

(* Rounding keeps the order: down both, or the lower one down and the      *)
(* higher one up, and then a difference remains a difference.              *)
LEMMA FloorsInOrder ==
  ASSUME NEW a \in Int, NEW b \in Int, a <= b
  PROVE  a \div Unit <= b \div Unit
  BY DEF Unit

LEMMA FloorBelowCeiling ==
  ASSUME NEW a \in Int, NEW b \in Int, a < b
  PROVE  a \div Unit < (b + Unit - 1) \div Unit
  BY DEF Unit

(* Each of the six settings in the range that its schema gives it. *)
LEMMA SettingIsInt ==
  ASSUME NEW env \in Environment, NEW name \in DOMAIN Counts \cup DOMAIN Fractions
  PROVE  Setting(env, name) \in Int
  <1>1. CASE name \in DOMAIN env.number
    <2>1. env.number[name] \in Text
      BY <1>1 DEF Environment
    <2>2. Number(env.number[name]) \in Int
      BY <2>1 DEF Number, Text
    <2> QED BY <1>1, <2>2 DEF Setting
  <1>2. CASE name \notin DOMAIN env.number /\ name \in DOMAIN Counts
    <2>1. Counts[name] \in Int
      BY <1>2 DEF Counts
    <2>2. Setting(env, name) = Counts[name] * Unit
      BY <1>2 DEF Setting
    <2> QED BY <2>1, <2>2 DEF Unit
  <1>3. CASE name \notin DOMAIN env.number /\ name \notin DOMAIN Counts
    <2>1. Fractions[name] \in Int
      BY <1>3 DEF Fractions
    <2>2. Setting(env, name) = Fractions[name]
      BY <1>3 DEF Setting
    <2> QED BY <2>1, <2>2
  <1> QED BY <1>1, <1>2, <1>3

LEMMA RangeOfCapacity ==
  ASSUME NEW value \in Int, WithinRange("BUFFER_CAPACITY", value)
  PROVE  value % Unit = 0 /\ value > 0
  <1>1. "BUFFER_CAPACITY" \in DOMAIN Counts
    BY DEF Counts
  <1> QED BY <1>1 DEF WithinRange

LEMMA RangeOfLowMark ==
  ASSUME NEW value \in Int, WithinRange("BUFFER_LOW_WATER_MARK_FRACTION", value)
  PROVE  0 <= value
  BY DEF WithinRange

LEMMA RangeOfFraction ==
  ASSUME NEW name \in DOMAIN Fractions \ {"BUFFER_LOW_WATER_MARK_FRACTION"},
         NEW value \in Int, WithinRange(name, value)
  PROVE  0 < value /\ value <= Unit
  BY DEF WithinRange

(* A process starts with the settings that its environment was turned to. *)
LEMMA StartedParses ==
  ASSUME NEW env, LoadConfig(env).started
  PROVE  /\ Parses(env)
         /\ \A name \in Numeric : LoadConfig(env).setting[name] = Setting(env, name)
  <1>1. Parses(env)
    BY DEF LoadConfig
  <1>2. LoadConfig(env).setting = [name \in Numeric |-> Setting(env, name)]
    BY <1>1 DEF LoadConfig
  <1> QED BY <1>1, <1>2

LEMMA SixSettings ==
  ASSUME NEW env \in Environment, LoadConfig(env).started,
         NEW config, config = LoadConfig(env).setting
  PROVE  /\ BufferSlots(config) \in Nat \ {0}
         /\ config["BUFFER_LOW_WATER_MARK_FRACTION"] \in Nat
         /\ \A name \in DOMAIN Fractions \ {"BUFFER_LOW_WATER_MARK_FRACTION"} :
              config[name] \in 1..Unit
         /\ config["BUFFER_LOW_WATER_MARK_FRACTION"] < config["BUFFER_HIGH_WATER_MARK_FRACTION"]
         /\ config["BUFFER_SHED_CEILING_P3_FRACTION"] < config["BUFFER_SHED_CEILING_P2_FRACTION"]
         /\ config["BUFFER_SHED_CEILING_P2_FRACTION"] < config["BUFFER_SHED_CEILING_P1_FRACTION"]
  <1>1. Parses(env) /\ \A name \in Numeric : config[name] = Setting(env, name)
    BY StartedParses
  <1>2. /\ "BUFFER_CAPACITY" \in DOMAIN Counts
        /\ DOMAIN Fractions = {"BUFFER_HIGH_WATER_MARK_FRACTION", "BUFFER_LOW_WATER_MARK_FRACTION",
                               "BUFFER_SHED_CEILING_P1_FRACTION", "BUFFER_SHED_CEILING_P2_FRACTION",
                               "BUFFER_SHED_CEILING_P3_FRACTION"}
    BY DEF Counts, Fractions
  <1>3. DOMAIN Counts \subseteq Numeric /\ DOMAIN Fractions \subseteq Numeric
    BY DEF Numeric
  <1>4. \A name \in DOMAIN Counts \cup DOMAIN Fractions :
          config[name] \in Int /\ WithinRange(name, config[name])
    BY <1>1, <1>3, SettingIsInt DEF Parses
  <1>5. BufferSlots(config) \in Nat \ {0}
    <2>1. config["BUFFER_CAPACITY"] \in Int /\ WithinRange("BUFFER_CAPACITY", config["BUFFER_CAPACITY"])
      BY <1>2, <1>4
    <2>2. config["BUFFER_CAPACITY"] % Unit = 0 /\ config["BUFFER_CAPACITY"] > 0
      BY <2>1, RangeOfCapacity
    <2> QED BY <2>1, <2>2 DEF BufferSlots, Unit
  <1>6. config["BUFFER_LOW_WATER_MARK_FRACTION"] \in Nat
    <2>1. /\ config["BUFFER_LOW_WATER_MARK_FRACTION"] \in Int
          /\ WithinRange("BUFFER_LOW_WATER_MARK_FRACTION", config["BUFFER_LOW_WATER_MARK_FRACTION"])
      BY <1>2, <1>4
    <2> QED BY <2>1, RangeOfLowMark
  <1>7. \A name \in DOMAIN Fractions \ {"BUFFER_LOW_WATER_MARK_FRACTION"} : config[name] \in 1..Unit
    <2> TAKE name \in DOMAIN Fractions \ {"BUFFER_LOW_WATER_MARK_FRACTION"}
    <2>1. config[name] \in Int /\ WithinRange(name, config[name])
      BY <1>4
    <2>2. 0 < config[name] /\ config[name] <= Unit
      BY <2>1, RangeOfFraction
    <2>3. \A v \in Int : 0 < v /\ v <= Unit => v \in 1..Unit
      BY DEF Unit
    <2> QED BY <2>1, <2>2, <2>3
  <1>8. /\ config["BUFFER_LOW_WATER_MARK_FRACTION"] < config["BUFFER_HIGH_WATER_MARK_FRACTION"]
        /\ config["BUFFER_SHED_CEILING_P3_FRACTION"] < config["BUFFER_SHED_CEILING_P2_FRACTION"]
        /\ config["BUFFER_SHED_CEILING_P2_FRACTION"] < config["BUFFER_SHED_CEILING_P1_FRACTION"]
    BY <1>1, <1>2, <1>3 DEF Parses, MarksInOrder, CeilingsInOrder
  <1> QED BY <1>5, <1>6, <1>7, <1>8

(* The schema's refinement of the two marks is enough for SignalBuffer's   *)
(* assumption about them: shedding begins within the capacity and ends     *)
(* below where it began, also where the product of capacity and fraction   *)
(* is rounded.                                                             *)
THEOREM StartedMarksFit ==
  ASSUME NEW env \in Environment, LoadConfig(env).started
  PROVE  MarksFit(LoadConfig(env).setting)
  <1> DEFINE config == LoadConfig(env).setting
             slots  == BufferSlots(config)
             low    == config["BUFFER_LOW_WATER_MARK_FRACTION"]
             high   == config["BUFFER_HIGH_WATER_MARK_FRACTION"]
  <1>1. slots \in Nat \ {0} /\ low \in Nat /\ high \in 1..Unit /\ low < high
    <2>1. "BUFFER_HIGH_WATER_MARK_FRACTION" \in DOMAIN Fractions \ {"BUFFER_LOW_WATER_MARK_FRACTION"}
      BY DEF Fractions
    <2> QED BY <2>1, SixSettings
  <1>2. /\ HighMarkOf(config) = (slots * high + Unit - 1) \div Unit
        /\ LowMarkOf(config) = (slots * low) \div Unit
    BY DEF HighMarkOf, LowMarkOf, Part
  <1> HIDE DEF slots, low, high
  <1>3. slots * low \in Nat /\ slots * high \in Nat
    BY <1>1 DEF Unit
  <1>4. slots * low < slots * high
    <2>1. slots * low + slots <= slots * high
      BY <1>1, ProductsApart DEF Unit
    <2> QED BY <1>1, <1>3, <2>1
  <1>5. slots * high <= slots * Unit
    BY <1>1, ProductsInOrder DEF Unit
  <1>6. (slots * high + Unit - 1) \div Unit \in 1..slots
    BY <1>1, <1>3, <1>4, <1>5 DEF Unit
  <1>7. (slots * low) \div Unit \in Nat
    BY <1>3 DEF Unit
  <1>8. (slots * low) \div Unit < (slots * high + Unit - 1) \div Unit
    BY <1>3, <1>4, FloorBelowCeiling
  <1> QED BY <1>1, <1>2, <1>6, <1>7, <1>8 DEF MarksFit, slots

(* The schema's refinement of the ceilings gives a lower severity never    *)
(* more slots than a higher one, and none more than the capacity.          *)
THEOREM StartedHeadroomInOrder ==
  ASSUME NEW env \in Environment, LoadConfig(env).started
  PROVE  HeadroomInOrder(LoadConfig(env).setting)
  <1> DEFINE config == LoadConfig(env).setting
             slots  == BufferSlots(config)
             p1     == config["BUFFER_SHED_CEILING_P1_FRACTION"]
             p2     == config["BUFFER_SHED_CEILING_P2_FRACTION"]
             p3     == config["BUFFER_SHED_CEILING_P3_FRACTION"]
  <1>1. /\ slots \in Nat \ {0} /\ p1 \in 1..Unit /\ p2 \in 1..Unit /\ p3 \in 1..Unit
        /\ p3 < p2 /\ p2 < p1
    <2>1. {"BUFFER_SHED_CEILING_P1_FRACTION", "BUFFER_SHED_CEILING_P2_FRACTION",
           "BUFFER_SHED_CEILING_P3_FRACTION"}
            \subseteq DOMAIN Fractions \ {"BUFFER_LOW_WATER_MARK_FRACTION"}
      BY DEF Fractions
    <2> QED BY <2>1, SixSettings
  <1>2. /\ CeilingOf(config, "BUFFER_SHED_CEILING_P1_FRACTION") = (slots * p1) \div Unit
        /\ CeilingOf(config, "BUFFER_SHED_CEILING_P2_FRACTION") = (slots * p2) \div Unit
        /\ CeilingOf(config, "BUFFER_SHED_CEILING_P3_FRACTION") = (slots * p3) \div Unit
    BY DEF CeilingOf, Part
  <1> HIDE DEF slots, p1, p2, p3
  <1>3. slots * p1 \in Nat /\ slots * p2 \in Nat /\ slots * p3 \in Nat
    BY <1>1 DEF Unit
  <1>4. slots * p3 <= slots * p2 /\ slots * p2 <= slots * p1 /\ slots * p1 <= slots * Unit
    BY <1>1, ProductsInOrder DEF Unit
  <1>5. /\ (slots * p3) \div Unit <= (slots * p2) \div Unit
        /\ (slots * p2) \div Unit <= (slots * p1) \div Unit
    BY <1>3, <1>4, FloorsInOrder
  <1>6. (slots * p1) \div Unit <= slots
    BY <1>1, <1>3, <1>4 DEF Unit
  <1>7. (slots * p3) \div Unit \in Nat
    BY <1>3 DEF Unit
  <1> QED BY <1>2, <1>5, <1>6, <1>7 DEF HeadroomInOrder, slots

-----------------------------------------------------------------------------
(* How time is cut up and how the series come to exist.                    *)

LEMMA UnitDivides ==
  ASSUME NEW interval \in Nat \ {0}, NEW length \in {Day, 3600, 60, 1}, interval % length = 0
  PROVE  (interval \div length) * length = interval
  <1>1. CASE length = Day
    BY <1>1 DEF Day
  <1>2. CASE length = 3600
    BY <1>2
  <1>3. CASE length = 60
    BY <1>3
  <1>4. CASE length = 1
    BY <1>4
  <1> QED BY <1>1, <1>2, <1>3, <1>4

(* An interval in days, hours, minutes or seconds is as long as it was: no *)
(* bucket is wider or narrower than the one that was asked for.            *)
THEOREM IntervalIsKept ==
  ASSUME NEW interval \in Nat \ {0}
  PROVE  SpecKeepsInterval(interval)
  <1> DEFINE spec == ToBucketSpec(interval)
  <1>1. CASE interval % Day = 0
    <2>1. spec = [unit |-> "day", binSize |-> interval \div UnitSeconds["day"]]
      <3>1. interval % 3600 = 0 /\ interval % 60 = 0
        BY <1>1 DEF Day
      <3> QED BY <1>1, <3>1 DEF ToBucketSpec
    <2>2. UnitSeconds["day"] = Day
      BY DEF UnitSeconds
    <2>3. (interval \div Day) * Day = interval
      BY <1>1, UnitDivides
    <2> QED BY <2>1, <2>2, <2>3 DEF SpecKeepsInterval, Width
  <1>2. CASE interval % Day # 0 /\ interval % 3600 = 0
    <2>1. spec = [unit |-> "hour", binSize |-> interval \div UnitSeconds["hour"]]
      BY <1>2 DEF ToBucketSpec
    <2>2. UnitSeconds["hour"] = 3600
      BY DEF UnitSeconds
    <2>3. (interval \div 3600) * 3600 = interval
      BY <1>2, UnitDivides
    <2> QED BY <2>1, <2>2, <2>3 DEF SpecKeepsInterval, Width
  <1>3. CASE interval % 3600 # 0 /\ interval % 60 = 0
    <2>1. interval % Day # 0
      BY <1>3 DEF Day
    <2>2. spec = [unit |-> "minute", binSize |-> interval \div UnitSeconds["minute"]]
      BY <1>3, <2>1 DEF ToBucketSpec
    <2>3. UnitSeconds["minute"] = 60
      BY DEF UnitSeconds
    <2>4. (interval \div 60) * 60 = interval
      BY <1>3, UnitDivides
    <2> QED BY <2>2, <2>3, <2>4 DEF SpecKeepsInterval, Width
  <1>4. CASE interval % 60 # 0
    <2>1. interval % 3600 # 0 /\ interval % Day # 0
      BY <1>4 DEF Day
    <2>2. spec = [unit |-> "second", binSize |-> interval \div UnitSeconds["second"]]
      BY <1>4, <2>1 DEF ToBucketSpec
    <2>3. UnitSeconds["second"] = 1
      BY DEF UnitSeconds
    <2>4. (interval \div 1) * 1 = interval
      OBVIOUS
    <2> QED BY <2>2, <2>3, <2>4 DEF SpecKeepsInterval, Width
  <1> QED BY <1>1, <1>2, <1>3, <1>4

(* Each time is in the one bucket that starts at or before it and ends     *)
(* after it.                                                               *)
THEOREM BucketIsItsOwn ==
  ASSUME NEW interval \in Nat \ {0}, NEW ts \in Nat
  PROVE  BucketHolds(ts, ToBucketSpec(interval))
  <1>1. Width(ToBucketSpec(interval)) = interval
    BY IntervalIsKept DEF SpecKeepsInterval
  <1>2. ts = (ts \div interval) * interval + (ts % interval)
    OBVIOUS
  <1>3. ts % interval \in 0..(interval - 1)
    OBVIOUS
  <1>4. (ts \div interval) * interval \in Int
    OBVIOUS
  <1>5. Bucket(ts, ToBucketSpec(interval)) = (ts \div interval) * interval
    BY <1>1 DEF Bucket
  <1> HIDE DEF BucketHolds
  <1> QED BY <1>1, <1>2, <1>3, <1>4, <1>5 DEF BucketHolds

-----------------------------------------------------------------------------

LEMMA SomeSeriesTaken ==
  ASSUME NEW listed, NEW existing
  PROVE  /\ EnsureCollections(listed, existing).fails <=>
              \E n \in DOMAIN AllSeries : AllSeries[n] \notin listed /\ AllSeries[n] \in existing
         /\ existing \subseteq EnsureCollections(listed, existing).existing
         /\ \A n \in DOMAIN AllSeries :
              AllSeries[n] \in existing => AllSeries[n] \in EnsureCollections(listed, existing).existing
  BY DEF EnsureCollections

(* With a true listing nothing fails, and every series is there.           *)
LEMMA TrueListing ==
  ASSUME NEW existing
  PROVE  /\ ~ EnsureCollections(existing, existing).fails
         /\ EnsureCollections(existing, existing).existing
              = existing \cup {AllSeries[n] : n \in DOMAIN AllSeries}
  <1> DEFINE todo  == {n \in DOMAIN AllSeries : AllSeries[n] \notin existing}
             taken == {n \in todo : AllSeries[n] \in existing}
  <1>1. taken = {}
    OBVIOUS
  <1>2. EnsureCollections(existing, existing)
          = [fails |-> taken # {},
             existing |-> existing \cup {AllSeries[n] : n \in {m \in todo : \A t \in taken : m < t}}]
    BY Zenon DEF EnsureCollections
  <1>3. {m \in todo : \A t \in taken : m < t} = todo
    BY <1>1
  <1>4. existing \cup {AllSeries[n] : n \in todo} = existing \cup {AllSeries[n] : n \in DOMAIN AllSeries}
    OBVIOUS
  <1>5. ~ EnsureCollections(existing, existing).fails
    BY SomeSeriesTaken
  <1>6. EnsureCollections(existing, existing).existing = existing \cup {AllSeries[n] : n \in todo}
    <2>1. EnsureCollections(existing, existing).existing
            = existing \cup {AllSeries[n] : n \in {m \in todo : \A t \in taken : m < t}}
      BY <1>2
    <2> QED BY <2>1, <1>3
  <1> QED BY <1>4, <1>5, <1>6

(* Whatever a boot that raced with another one left behind, and however    *)
(* old the listing was that it went by, the next boot that is alone makes  *)
(* every series and fails no more, and the one after it changes nothing.   *)
THEOREM BootsConverge ==
  ASSUME NEW listed, NEW existing
  PROVE  SeriesConverge(listed, existing)
  <1> DEFINE first == EnsureCollections(listed, existing)
             next  == EnsureCollections(first.existing, first.existing)
             last  == EnsureCollections(next.existing, next.existing)
             all   == {AllSeries[n] : n \in DOMAIN AllSeries}
  <1>1. existing \subseteq first.existing
    BY SomeSeriesTaken
  <1>2. ~ next.fails /\ next.existing = first.existing \cup all
    BY TrueListing
  <1>3. ~ last.fails /\ last.existing = next.existing \cup all
    BY TrueListing
  <1>4. last.existing = next.existing
    BY <1>2, <1>3
  <1>5. \A n \in DOMAIN AllSeries : AllSeries[n] \in next.existing
    BY <1>2
  <1> QED BY <1>1, <1>2, <1>3, <1>4, <1>5 DEF SeriesConverge

-----------------------------------------------------------------------------
(* The feed.                                                               *)

(* How many pages there are for so many incidents. *)
LEMMA PagesFor ==
  ASSUME NEW total \in Nat
  PROVE  /\ PageCount(total) \in Nat \ {0}
         /\ (PageCount(total) - 1) * FeedPageSize <= total
         /\ total <= PageCount(total) * FeedPageSize
         /\ total > 0 => (PageCount(total) - 1) * FeedPageSize < total
  <1>1. CASE total = 0
    BY <1>1 DEF PageCount, FeedPageSize
  <1>2. CASE total # 0
    <2>1. PageCount(total) = (total + 24) \div 25
      BY <1>2 DEF PageCount, FeedPageSize
    <2> QED BY <1>2, <2>1 DEF FeedPageSize
  <1> QED BY <1>1, <1>2

(* After the effects of a render the page is one of those there are, a     *)
(* refresh that leaves the page there does not turn it, and the buttons    *)
(* that can be pressed lead to pages: for every page and number of rows.   *)
THEOREM SettledPageIsThere ==
  ASSUME NEW page \in Nat \ {0}, NEW total \in Nat, NEW changed \in BOOLEAN
  PROVE  PageIsThere(page, total, changed)
  <1> DEFINE count   == PageCount(total)
             settled == Settled(page, count, changed)
  <1>1. count \in Nat \ {0}
    BY PagesFor
  <1> HIDE DEF count
  <1>2. settled \in 1..count
    BY <1>1 DEF Settled, Least
  <1>3. ~ changed /\ page <= count => settled = page
    BY <1>1 DEF Settled, Least
  <1> HIDE DEF settled
  <1>4. ASSUME NEW b \in {"Previous", "Next"}, CanPress(b, settled, count)
        PROVE  Press(b, settled) \in 1..count
    BY <1>1, <1>2, <1>4 DEF CanPress, Press
  <1> QED BY <1>2, <1>3, <1>4 DEF PageIsThere, settled, count

(* The pages up to one are a prefix of what passed the filters. *)
LEMMA PagesAreAPrefix ==
  ASSUME NEW X, NEW filtered \in Seq(X), NEW p \in 1..PageCount(Len(filtered))
  PROVE  SubSeq(filtered, 1, Least((p - 1) * FeedPageSize, Len(filtered)))
            \o PageItems(filtered, p)
           = SubSeq(filtered, 1, Least(p * FeedPageSize, Len(filtered)))
  <1> DEFINE n    == Len(filtered)
             low  == (p - 1) * FeedPageSize
             high == Least(p * FeedPageSize, n)
  <1>1. n \in Nat /\ (PageCount(n) - 1) * FeedPageSize <= n /\ PageCount(n) \in Nat \ {0}
    BY PagesFor
  <1>2. low \in Nat /\ low <= n
    BY <1>1 DEF FeedPageSize
  <1>3. high \in Nat /\ low <= high /\ high <= n /\ Least(low, n) = low
    BY <1>1, <1>2 DEF FeedPageSize, Least
  <1>4. PageItems(filtered, p) = SubSeq(filtered, low + 1, high)
    BY DEF PageItems
  <1> HIDE DEF low, high
  <1>5. SubSeq(filtered, 1, low) \o SubSeq(filtered, low + 1, high) = SubSeq(filtered, 1, high)
    <2>1. 1 \in 1..(Len(filtered) + 1) /\ low \in (1 - 1)..Len(filtered)
          /\ high \in low..Len(filtered)
      BY <1>1, <1>2, <1>3
    <2> QED BY <2>1, ConcatAdjacentSubSeq
  <1> QED BY <1>3, <1>4, <1>5 DEF low, high

(* Turning the pages shows each incident that passes the filters once and  *)
(* in order, and the words under the list count the rows above: for feeds  *)
(* of every length. The recursion over pages is known by a function that   *)
(* satisfies it and is the only one that does, for it is defined from it.  *)
THEOREM PagesShowTheFeed ==
  ASSUME NEW X, NEW filtered \in Seq(X)
  PROVE  PagesShowAll(filtered)
  <1> DEFINE n     == Len(filtered)
             count == PageCount(n)
             upTo[p \in 0..count] == IF p = 0 THEN <<>> ELSE upTo[p - 1] \o PageItems(filtered, p)
             First(p) == SubSeq(filtered, 1, Least(p * FeedPageSize, n))
             prefix   == [p \in 0..count |-> First(p)]
  <1>1. /\ n \in Nat /\ count \in Nat \ {0} /\ n <= count * FeedPageSize
        /\ n > 0 => (count - 1) * FeedPageSize < n
    <2>1. n \in Nat
      OBVIOUS
    <2> HIDE DEF n
    <2> QED BY <2>1, PagesFor
  <1>2. First(0) = <<>> /\ First(count) = filtered
    <2>1. Least(0 * FeedPageSize, n) = 0 /\ Least(count * FeedPageSize, n) = n
      BY <1>1 DEF Least, FeedPageSize
    <2>2. SubSeq(filtered, 1, 0) = <<>>
      BY SubSeqEmpty
    <2> QED BY <2>1, <2>2, SubSeqFull
  <1>3. \A p \in 1..count : First(p - 1) \o PageItems(filtered, p) = First(p)
    BY PagesAreAPrefix
  <1> DEFINE Step(f, p) == IF p = 0 THEN <<>> ELSE f[p - 1] \o PageItems(filtered, p)
             Ways(f)    == f = [p \in 0..count |-> Step(f, p)]
  <1>4. Ways(prefix)
    <2> HIDE DEF First
    <2>1. ASSUME NEW p \in 0..count PROVE Step(prefix, p) = First(p)
      <3>1. CASE p = 0
        BY <1>2, <3>1
      <3>2. CASE p # 0
        <4>1. p \in 1..count /\ p - 1 \in 0..count
          BY <1>1, <3>2
        <4> QED BY <1>3, <3>2, <4>1
      <3> QED BY <3>1, <3>2
    <2> HIDE DEF Step
    <2> QED BY <2>1
  <1>5. Ways(upTo)
    <2>1. upTo = CHOOSE f : Ways(f)
      OBVIOUS
    <2> HIDE DEF upTo, Ways, prefix
    <2> QED BY <1>4, <2>1
  <1>6. \A p \in 0..count : upTo[p] = First(p)
    <2> DEFINE B == {p \in 0..count : upTo[p] # First(p)}
    <2>1. SUFFICES ASSUME B # {} PROVE FALSE
      OBVIOUS
    <2>2. PICK p \in B : \A l \in B : p <= l
      <3>1. B \subseteq Nat
        BY <1>1
      <3> HIDE DEF B
      <3> QED BY <2>1, <3>1, LeastNumber
    <2> HIDE DEF upTo, First
    <2>3. p # 0
      <3>1. 0 \in 0..count
        BY <1>1
      <3> QED BY <1>2, <1>5, <2>2, <3>1
    <2>4. p \in 1..count /\ p - 1 \in 0..count /\ p - 1 \notin B
      BY <1>1, <2>2, <2>3
    <2>5. upTo[p] = upTo[p - 1] \o PageItems(filtered, p)
      BY <1>5, <2>2, <2>3
    <2> QED BY <1>3, <2>2, <2>4, <2>5
  <1>7. upTo[count] = filtered
    <2>1. count \in 0..count
      BY <1>1
    <2> HIDE DEF upTo, First, count
    <2> QED BY <1>2, <1>6, <2>1
  <1>8. ASSUME NEW p \in 1..count, filtered # <<>>
        PROVE  /\ PageItems(filtered, p) # <<>>
               /\ Len(PageItems(filtered, p)) = Shown(p, n).last - Shown(p, n).first + 1
    <2> DEFINE low  == (p - 1) * FeedPageSize + 1
               high == Least(p * FeedPageSize, n)
    <2>1. n > 0
      BY <1>8, EmptySeq
    <2>2. low \in 1..n /\ high \in low..n
      BY <1>1, <2>1 DEF FeedPageSize, Least
    <2>3. Shown(p, n) = [first |-> low, last |-> high]
      BY <2>1 DEF Shown
    <2>4. PageItems(filtered, p) = SubSeq(filtered, low, high)
      BY DEF PageItems
    <2> HIDE DEF low, high
    <2>5. Len(SubSeq(filtered, low, high)) = high - low + 1
      BY <2>2, SubSeqProperties
    <2>6. Len(PageItems(filtered, p)) = high - low + 1 /\ high - low + 1 > 0
      BY <2>2, <2>4, <2>5
    <2>7. PageItems(filtered, p) # <<>>
      BY <2>6, EmptySeq
    <2> QED BY <2>3, <2>6, <2>7
  <1> QED BY <1>7, <1>8 DEF PagesShowAll

(* Banner and dot tell the same of every health that the server can build, *)
(* and of an answer that is none, in each phase of the poller.             *)
THEOREM BannerAndDotSaySo ==
  ASSUME NEW up \in SUBSET Stores, NEW shedding \in BOOLEAN,
         NEW phase \in {"checking", "reachable", "unreachable"},
         NEW health \in {BuildHealth(up, shedding), NoHealth}
  PROVE  BannerAndDotAgree(phase, health)
  <1>1. /\ health.status \in {"none", "unhealthy", "degraded", "healthy"}
        /\ health.shedding \in BOOLEAN
        /\ health.status = "unhealthy" <=> health # NoHealth /\ Stores \ health.up # {}
        /\ health.shedding => health.status \in {"unhealthy", "degraded"}
        /\ health.status = "degraded" => health.shedding
    <2>1. CASE health = NoHealth
      BY <2>1 DEF NoHealth
    <2>2. CASE health = BuildHealth(up, shedding)
      BY <2>2 DEF BuildHealth, NoHealth
    <2> QED BY <2>1, <2>2
  <1>2. CASE phase = "checking"
    BY <1>1, <1>2 DEF BannerAndDotAgree, DeriveBanner, Indicator
  <1>3. CASE phase = "unreachable"
    BY <1>1, <1>3 DEF BannerAndDotAgree, DeriveBanner, Indicator
  <1>4. CASE phase = "reachable"
    BY <1>1, <1>4 DEF BannerAndDotAgree, DeriveBanner, Indicator
  <1> QED BY <1>2, <1>3, <1>4

-----------------------------------------------------------------------------
(* What is counted.                                                        *)

(* A finite series of documents with times and values.                     *)
Documents(series) ==
  /\ IsFiniteSet(series)
  /\ \A d \in series : d.ts \in Nat /\ d.value \in Int

KeyOf(d, spec, names) ==
  [bucket |-> Bucket(d.ts, spec), by |-> [n \in names |-> d.dims[n]]]

(* A group holds the documents of its key. *)
LEMMA GroupIsOfKey ==
  ASSUME NEW docs, NEW spec, NEW names, NEW k \in Keys(docs, spec, names)
  PROVE  Group(docs, spec, k) = {d \in docs : KeyOf(d, spec, names) = k}
  <1>1. PICK e \in docs : k = KeyOf(e, spec, names)
    BY DEF Keys, KeyOf
  <1>2. /\ k.bucket = Bucket(e.ts, spec) /\ DOMAIN k.by = names
        /\ \A n \in names : k.by[n] = e.dims[n]
    BY <1>1 DEF KeyOf
  <1>3. ASSUME NEW d \in docs
        PROVE  KeyOf(d, spec, names) = k
                 <=> Bucket(d.ts, spec) = k.bucket /\ \A n \in DOMAIN k.by : d.dims[n] = k.by[n]
    <2> DEFINE by == [n \in names |-> d.dims[n]]
               at == [n \in names |-> e.dims[n]]
    <2>1. by = at <=> \A n \in names : d.dims[n] = e.dims[n]
      <3>1. by = at => \A n \in names : by[n] = at[n]
        OBVIOUS
      <3> QED BY <3>1
    <2>2. KeyOf(d, spec, names) = [bucket |-> Bucket(d.ts, spec), by |-> by]
      BY DEF KeyOf
    <2>3. k = [bucket |-> Bucket(e.ts, spec), by |-> at]
      BY <1>1 DEF KeyOf
    <2> HIDE DEF by, at
    <2>4. KeyOf(d, spec, names) = k <=> Bucket(d.ts, spec) = Bucket(e.ts, spec) /\ by = at
      BY <2>2, <2>3
    <2> QED BY <1>2, <2>1, <2>4
  <1> QED BY <1>3 DEF Group

(* The keys of finitely many documents are finite. *)
LEMMA KeysAreFinite ==
  ASSUME NEW docs, IsFiniteSet(docs), NEW spec, NEW names
  PROVE  /\ IsFiniteSet(Keys(docs, spec, names))
         /\ \A d \in docs : KeyOf(d, spec, names) \in Keys(docs, spec, names)
  <1>1. Keys(docs, spec, names) = {KeyOf(d, spec, names) : d \in docs}
    BY DEF Keys, KeyOf
  <1> DEFINE R == {KeyOf(d, spec, names) : d \in docs}
  <1>2. [d \in docs |-> KeyOf(d, spec, names)] \in Surjection(docs, R)
    BY DEF Surjection
  <1>3. IsFiniteSet(R)
    BY <1>2, FS_Surjection
  <1> QED BY <1>1, <1>3

(* The counts of all groups add up to what there is in the documents. *)
LEMMA CountedOnce ==
  ASSUME NEW docs, Documents(docs), NEW spec, NEW names
  PROVE  /\ SumOver(Counted(docs, spec, names), LAMBDA r : r.count)
              = SumOver(docs, LAMBDA d : d.value)
         /\ SumOver(docs, LAMBDA d : d.value) \in Int
  <1> DEFINE K      == Keys(docs, spec, names)
             f      == [d \in docs |-> d.value]
             key    == [d \in docs |-> KeyOf(d, spec, names)]
             In(k)  == {d \in docs : key[d] = k}
             sums   == [k \in K |-> SumOf(f, In(k))]
             G      == [k \in K |-> [key |-> k, count |-> sums[k]]]
             C      == Counted(docs, spec, names)
             v      == [r \in C |-> r.count]
  <1>1. IsFiniteSet(docs) /\ \A d \in docs : f[d] \in Int
    BY DEF Documents
  <1>2. IsFiniteSet(K) /\ \A d \in docs : key[d] \in K
    BY <1>1, KeysAreFinite
  <1>3. SumOver(docs, LAMBDA d : d.value) = SumOf(f, docs)
    BY DEF SumOver, SumOf
  <1>4. SumOver(C, LAMBDA r : r.count) = SumOf(v, C)
    BY DEF SumOver, SumOf
  <1>5. OneByOne(f, docs)
    <2> HIDE DEF f
    <2> QED BY <1>1, SumOfOneMore
  <1>6. \A k \in K : In(k) \in SUBSET docs
    OBVIOUS
  <1>7. \A k \in K : sums[k] \in Int
    <2> HIDE DEF f, In, K
    <2> QED BY <1>5, <1>6 DEF OneByOne
  <1>8. ASSUME NEW k \in K
        PROVE  SumOver(Group(docs, spec, k), LAMBDA d : d.value) = sums[k]
    <2> DEFINE g == Group(docs, spec, k)
               u == [d \in g |-> d.value]
    <2>1. g = In(k)
      BY GroupIsOfKey
    <2>2. SumOver(g, LAMBDA d : d.value) = SumOf(u, g)
      BY DEF SumOver, SumOf
    <2>3. IsFiniteSet(g) /\ \A d \in g : u[d] = f[d]
      <3>1. g \in SUBSET docs
        BY <2>1
      <3>2. IsFiniteSet(g)
        BY <1>1, <3>1, FS_Subset
      <3> QED BY <3>1, <3>2
    <2>4. SumOf(u, g) = SumOf(f, g)
      <3> HIDE DEF u, f, g
      <3> QED BY <2>3, SumOfSame
    <2> HIDE DEF g, u, In, f
    <2> QED BY <2>1, <2>2, <2>4 DEF g
  <1>9. C = {G[k] : k \in K}
    <2>1. C = {[key |-> k, count |-> SumOver(Group(docs, spec, k), LAMBDA d : d.value)] : k \in K}
      BY DEF Counted
    <2> HIDE DEF C, K, sums
    <2> QED BY <1>8, <2>1
  <1> HIDE DEF In, f, key, K
  <1>10. SumOf(f, docs) = SumOf(sums, K)
    BY <1>1, <1>2, SumOfGroups DEF In
  <1>11. SumOf(v, C) = SumOf(sums, K)
    <2> HIDE DEF C, sums
    <2>1. \A k, l \in K : G[k] = G[l] => k = l
      OBVIOUS
    <2>2. \A k \in K : v[G[k]] = sums[k] /\ v[G[k]] \in Int
      BY <1>7, <1>9
    <2> DEFINE w == [k \in K |-> v[G[k]]]
    <2> HIDE DEF G, v
    <2>3. SumOf(v, {G[k] : k \in K}) = SumOf(w, K)
      BY <1>2, <2>1, <2>2, SumOfImage
    <2>4. \A k \in K : w[k] = sums[k]
      BY <2>2
    <2> HIDE DEF w
    <2>5. SumOf(w, K) = SumOf(sums, K)
      BY <1>2, <2>4, SumOfSame
    <2> QED BY <1>9, <2>3, <2>5
  <1>0. SumOf(f, docs) \in Int
    BY <1>5 DEF OneByOne
  <1> HIDE DEF C, v, sums
  <1> QED BY <1>3, <1>4, <1>10, <1>11, <1>0 DEF C

(* No document is lost or counted twice between two ranges that meet: the  *)
(* counts of queryThroughput over both add up to the values of all of it,  *)
(* for every series, bucket and point in between.                          *)
THEOREM NothingBetweenRanges ==
  ASSUME NEW series, Documents(series), NEW spec,
         NEW from \in Nat, NEW middle \in Nat, NEW to \in Nat, from <= middle, middle <= to
  PROVE  RangesMeet(series, from, middle, to, spec)
  <1> DEFINE A    == InRange(series, from, middle)
             B    == InRange(series, middle, to)
             f    == [d \in A \cup B |-> d.value]
             Val(S) == SumOver(S, LAMBDA d : d.value)
  <1>1. A \cup B = InRange(series, from, to) /\ A \cap B = {}
    BY DEF InRange, Documents
  <1>2. Documents(A) /\ Documents(B)
    <2>1. A \in SUBSET series /\ B \in SUBSET series
      BY DEF InRange
    <2>2. IsFiniteSet(A) /\ IsFiniteSet(B)
      BY <2>1, FS_Subset DEF Documents
    <2> QED BY <2>1, <2>2 DEF Documents
  <1> DEFINE names == {"componentId", "severity"}
  <1> HIDE DEF names
  <1>3. /\ SumOver(QueryThroughput(series, from, middle, spec), LAMBDA r : r.count) = Val(A)
        /\ SumOver(QueryThroughput(series, middle, to, spec), LAMBDA r : r.count) = Val(B)
    <2>1. /\ QueryThroughput(series, from, middle, spec) = Counted(A, spec, names)
          /\ QueryThroughput(series, middle, to, spec) = Counted(B, spec, names)
      BY DEF QueryThroughput, names
    <2> HIDE DEF A, B
    <2>2. SumOver(Counted(A, spec, names), LAMBDA r : r.count) = Val(A)
      BY <1>2, CountedOnce
    <2>3. SumOver(Counted(B, spec, names), LAMBDA r : r.count) = Val(B)
      BY <1>2, CountedOnce
    <2> QED BY <2>1, <2>2, <2>3
  <1> HIDE DEF A, B
  <1>4. IsFiniteSet(A) /\ IsFiniteSet(B) /\ \A d \in A \cup B : f[d] \in Int
    BY <1>2 DEF Documents
  <1>5. Val(A) = SumOf(f, A) /\ Val(B) = SumOf(f, B) /\ Val(A \cup B) = SumOf(f, A \cup B)
    <2> DEFINE a == [d \in A |-> d.value]
               b == [d \in B |-> d.value]
    <2>1. Val(A) = SumOf(a, A) /\ Val(B) = SumOf(b, B) /\ Val(A \cup B) = SumOf(f, A \cup B)
      BY DEF SumOver, SumOf
    <2>2. (\A d \in A : a[d] = f[d]) /\ \A d \in B : b[d] = f[d]
      OBVIOUS
    <2> HIDE DEF a, b, f, Val
    <2>3. SumOf(a, A) = SumOf(f, A) /\ SumOf(b, B) = SumOf(f, B)
      BY <1>4, <2>2, SumOfSame
    <2> QED BY <2>1, <2>3
  <1> HIDE DEF f
  <1>6. SumOf(f, A \cup B) = SumOf(f, A) + SumOf(f, B)
    BY <1>1, <1>4, SumOfUnion
  <1> QED BY <1>1, <1>3, <1>5, <1>6 DEF RangesMeet

(* The points written for a batch tell of each of its signals once.        *)
THEOREM BatchIsCounted ==
  ASSUME NEW signals, IsFiniteSet(signals), NEW now
  PROVE  EverySignalHasAPoint(signals, now)
  <1> DEFINE K     == {s.dims : s \in signals}
             f     == [s \in signals |-> 1]
             key   == [s \in signals |-> s.dims]
             In(k) == {s \in signals : key[s] = k}
             sums  == [k \in K |-> SumOf(f, In(k))]
             G     == [k \in K |-> [id |-> <<k, now>>, ts |-> now, dims |-> k,
                                    value |-> Cardinality({s \in signals : s.dims = k})]]
             C     == VolumePoints(signals, now)
             v     == [p \in C |-> p.value]
  <1>1. C = {G[k] : k \in K}
    BY DEF VolumePoints
  <1>2. SumOver(C, LAMBDA p : p.value) = SumOf(v, C)
    BY DEF SumOver, SumOf
  <1>3. IsFiniteSet(K) /\ \A s \in signals : key[s] \in K
    <2>1. key \in Surjection(signals, K)
      BY DEF Surjection
    <2>2. IsFiniteSet(K)
      BY <2>1, FS_Surjection
    <2> QED BY <2>2
  <1>4. \A s \in signals : f[s] = 1 /\ f[s] \in Int
    OBVIOUS
  <1>5. ASSUME NEW k \in K
        PROVE  /\ sums[k] = Cardinality(In(k)) /\ Cardinality(In(k)) \in Nat
               /\ In(k) = {s \in signals : s.dims = k}
    <2>1. In(k) = {s \in signals : s.dims = k} /\ In(k) \in SUBSET signals
      OBVIOUS
    <2>2. IsFiniteSet(In(k))
      BY <2>1, FS_Subset
    <2>3. \A s \in In(k) : f[s] = 1
      BY <2>1
    <2>4. sums[k] = SumOf(f, In(k))
      OBVIOUS
    <2> HIDE DEF In, f, sums
    <2>5. SumOf(f, In(k)) = Cardinality(In(k)) /\ Cardinality(In(k)) \in Nat
      BY <2>2, <2>3, SumOfOnes, FS_CardinalityType
    <2> QED BY <2>1, <2>4, <2>5
  <1>6. \A k \in K : v[G[k]] = sums[k] /\ v[G[k]] \in Int
    <2>1. \A k \in K : G[k] \in C
      BY <1>1
    <2>2. \A k \in K : v[G[k]] = G[k].value
      <3> HIDE DEF G, C, K
      <3> QED BY <2>1
    <2>3. \A k \in K : G[k].value = Cardinality({s \in signals : s.dims = k})
      OBVIOUS
    <2> HIDE DEF G, C, K, In, sums, v
    <2> QED BY <1>5, <2>2, <2>3
  <1>7. \A k, l \in K : G[k] = G[l] => k = l
    <2>1. \A k \in K : G[k].dims = k
      OBVIOUS
    <2> HIDE DEF G
    <2> QED BY <2>1
  <1> HIDE DEF In, f, key, K, G, v, C
  <1>8. SumOf(f, signals) = SumOf(sums, K)
    BY <1>3, <1>4, SumOfGroups DEF In
  <1>9. SumOf(f, signals) = Cardinality(signals)
    BY <1>4, SumOfOnes
  <1>10. SumOf(v, {G[k] : k \in K}) = SumOf(sums, K)
    <2> DEFINE w == [k \in K |-> v[G[k]]]
    <2>1. SumOf(v, {G[k] : k \in K}) = SumOf(w, K)
      BY <1>3, <1>6, <1>7, SumOfImage
    <2>2. \A k \in K : w[k] = sums[k]
      BY <1>6
    <2> HIDE DEF w, sums
    <2>3. SumOf(w, K) = SumOf(sums, K)
      BY <1>3, <2>2, SumOfSame
    <2> QED BY <2>1, <2>3
  <1> HIDE DEF sums
  <1> QED BY <1>1, <1>2, <1>8, <1>9, <1>10 DEF EverySignalHasAPoint, C

-----------------------------------------------------------------------------
(* What is answered.                                                       *)

(* The keys of a query are of times in its range. *)
LEMMA KeysInRange ==
  ASSUME NEW series, Documents(series), NEW from \in Nat, NEW to \in Nat,
         NEW interval \in Nat \ {0}, NEW names,
         NEW k \in Keys(InRange(series, from, to), ToBucketSpec(interval), names)
  PROVE  k.bucket < to /\ k.bucket + interval > from /\ from < to
  <1> DEFINE spec == ToBucketSpec(interval)
  <1>1. PICK d \in InRange(series, from, to) : k.bucket = Bucket(d.ts, spec)
    BY DEF Keys
  <1>2. d.ts \in Nat /\ from <= d.ts /\ d.ts < to
    BY DEF InRange, Documents
  <1>3. Width(spec) = interval
    BY IntervalIsKept DEF SpecKeepsInterval
  <1>4. Bucket(d.ts, spec) \in Int
    BY <1>2, <1>3 DEF Bucket
  <1>5. Bucket(d.ts, spec) <= d.ts /\ d.ts < Bucket(d.ts, spec) + interval
    BY <1>2, <1>3, BucketIsItsOwn DEF BucketHolds
  <1> HIDE DEF spec
  <1> QED BY <1>1, <1>2, <1>4, <1>5

(* A query whose parameters are numbers, where they are there. *)
Queries ==
  [from : Nat, to : Nat, interval : Int, groupBy : STRING,
   given : SUBSET {"from", "to", "interval", "groupBy"}]

(* A range from its end to its start is empty, and what is answered is of  *)
(* the range that was asked for, up to the start of a bucket that the range*)
(* begins in the middle of: each route, for every query and series.        *)
THEOREM AnswersKeepToTheRange ==
  ASSUME NEW series, Documents(series), NEW query \in Queries
  PROVE  AnswersAreInRange(query, series)
  <1> DEFINE interval == IntervalOf(query)
             spec     == ToBucketSpec(interval)
             docs     == InRange(series, query.from, query.to)
             Fits(a)  == \/ a = BadRequest
                         \/ \E names : \A p \in a.points : p.key \in Keys(docs, spec, names)
  <1>1. query.from \in Nat /\ query.to \in Nat
    BY DEF Queries
  <1>2. RangeQuery(query) => interval \in Nat \ {0}
    BY DEF RangeQuery, IntervalOf, Queries
  <1>3. HandleThroughput(query, series) = BadRequest \/ RangeQuery(query)
    BY DEF HandleThroughput
  <1>4. HandleIncidents(query, series) = BadRequest \/ RangeQuery(query)
    BY DEF HandleIncidents, GroupByQuery
  <1>5. HandleMttr(query, series) = BadRequest \/ RangeQuery(query)
    BY DEF HandleMttr, GroupByQuery
  <1> DEFINE Of(points, names) == \A p \in points : p.key \in Keys(docs, spec, names)
             volume == {"componentId", "severity"}
             group  == {GroupByOf(query)}
  <1> HIDE DEF docs, spec
  <1>0. ASSUME NEW names PROVE Of(Counted(docs, spec, names), names)
    <2> DEFINE K == Keys(docs, spec, names)
               n == [k \in K |-> SumOver(Group(docs, spec, k), LAMBDA d : d.value)]
               C == Counted(docs, spec, names)
    <2>1. C = {[key |-> k, count |-> n[k]] : k \in K}
      BY DEF Counted
    <2> HIDE DEF K, n, C
    <2> QED BY <2>1 DEF K, C
  <1> HIDE DEF volume, group
  <1>6. Fits(HandleThroughput(query, series))
    <2>1. \/ HandleThroughput(query, series) = BadRequest
          \/ HandleThroughput(query, series).points = Counted(docs, spec, volume)
      BY DEF HandleThroughput, QueryThroughput, docs, spec, volume
    <2> QED BY <1>0, <2>1
  <1>7. Fits(HandleIncidents(query, series))
    <2>1. \/ HandleIncidents(query, series) = BadRequest
          \/ HandleIncidents(query, series).points = Counted(docs, spec, group)
      BY DEF HandleIncidents, QueryIncidentCounts, docs, spec, group
    <2> QED BY <1>0, <2>1
  <1>8. Fits(HandleMttr(query, series))
    <2> DEFINE trend == QueryMttrTrend(series, query.from, query.to, spec, GroupByOf(query))
    <2>1. HandleMttr(query, series) = BadRequest \/ HandleMttr(query, series).points = trend
      BY DEF HandleMttr, spec
    <2>2. Of(trend, group)
      <3> DEFINE K      == Keys(docs, spec, group)
                 raw    == [k \in K |-> [key |-> k, avg |-> Average(Group(docs, spec, k)),
                                         samples |-> Cardinality(Group(docs, spec, k))]]
                 rows   == {raw[k] : k \in K}
                 mean   == [r \in rows |-> MeanOf(Window(rows, r))]
      <3>1. trend = {[key |-> r.key, avg |-> r.avg, samples |-> r.samples,
                      rolling |-> mean[r]] : r \in rows}
        BY DEF QueryMttrTrend, docs, group
      <3>2. \A r \in rows : r.key \in K
        <4>1. \A k \in K : raw[k].key = k
          OBVIOUS
        <4> HIDE DEF raw, K
        <4> QED BY <4>1
      <3> HIDE DEF trend, rows, mean
      <3> QED BY <3>1, <3>2
    <2> HIDE DEF trend
    <2> QED BY <2>1, <2>2
  <1>9. ASSUME NEW a, Fits(a), a = BadRequest \/ RangeQuery(query)
        PROVE  /\ a.status = 400 \/ (query.from >= query.to => a.points = {})
               /\ \A p \in a.points : /\ p.key.bucket < query.to
                                      /\ p.key.bucket + interval > query.from
    <2>1. CASE a = BadRequest
      BY <2>1 DEF BadRequest
    <2>2. CASE a # BadRequest
      <3>1. PICK names : \A p \in a.points : p.key \in Keys(docs, spec, names)
        BY <1>9, <2>2
      <3>2. interval \in Nat \ {0}
        BY <1>2, <1>9, <2>2
      <3>3. ASSUME NEW p \in a.points
            PROVE  /\ p.key.bucket < query.to /\ p.key.bucket + interval > query.from
                   /\ query.from < query.to
        <4>1. p.key \in Keys(docs, spec, names)
          BY <3>1
        <4> HIDE DEF interval
        <4> QED BY <1>1, <3>2, <4>1, KeysInRange DEF docs, spec
      <3>4. query.from >= query.to => a.points = {}
        BY <1>1, <3>3
      <3> QED BY <3>3, <3>4
    <2> QED BY <2>1, <2>2
  <1> HIDE DEF Fits, interval, Of
  <1>10. \A a \in {HandleThroughput(query, series), HandleIncidents(query, series),
                   HandleMttr(query, series)} :
           Fits(a) /\ (a = BadRequest \/ RangeQuery(query))
    BY <1>3, <1>4, <1>5, <1>6, <1>7, <1>8
  <1> QED BY <1>9, <1>10 DEF AnswersAreInRange, interval

KeysTell(rows) ==
  /\ IsFiniteSet(rows)
  /\ \A r \in rows : r.key.bucket \in Nat
  /\ \A r, s \in rows : r.key.bucket = s.key.bucket /\ r.key.by = s.key.by => r = s

(* Rows told apart by their keys: the window of one has at most the rows   *)
(* that rank before the row itself, the first of them and this.            *)
LEMMA WindowOfKeys ==
  ASSUME NEW rows, KeysTell(rows), NEW row \in rows
  PROVE  WindowIsBounded(rows, row)
  <1> DEFINE earlier(r) == {s \in rows : /\ s.key.by = row.key.by
                                         /\ s.key.bucket <= row.key.bucket
                                         /\ s.key.bucket > r.key.bucket}
             W == Window(rows, row)
  <1>0. \A r \in rows : r.key.bucket \in Nat
    BY DEF KeysTell
  <1>1. W = {r \in rows : /\ r.key.by = row.key.by /\ r.key.bucket <= row.key.bucket
                          /\ Cardinality(earlier(r)) <= RollingWindow}
    BY DEF Window
  <1>2. row \in W
    <2>1. earlier(row) = {} /\ row.key.bucket <= row.key.bucket
      <3>1. row.key.bucket \in Nat
        BY <1>0
      <3>2. \A s \in rows : ~ (s.key.bucket <= row.key.bucket /\ s.key.bucket > row.key.bucket)
        BY <1>0, <3>1
      <3> QED BY <3>1, <3>2
    <2>2. Cardinality({}) <= RollingWindow
      BY FS_EmptySet DEF RollingWindow
    <2> HIDE DEF earlier, W
    <2> QED BY <1>1, <2>1, <2>2
  <1>3. IsFiniteSet(W)
    <2>1. W \in SUBSET rows
      BY <1>1
    <2> HIDE DEF W
    <2> QED BY <2>1, FS_Subset DEF KeysTell
  <1>4. PICK r \in W : \A s \in W : r.key.bucket <= s.key.bucket
    <2> DEFINE B == {s.key.bucket : s \in W}
    <2>1. B \subseteq Nat /\ B # {}
      <3>1. W \subseteq rows
        BY <1>1
      <3> HIDE DEF W
      <3> QED BY <1>2, <1>0, <3>1
    <2>2. PICK b \in B : \A m \in B : b <= m
      <3> HIDE DEF B
      <3> QED BY <2>1, LeastNumber
    <2> QED BY <2>2
  <1>5. W \ {r} \subseteq earlier(r)
    <2>1. ASSUME NEW s \in W, s # r PROVE s \in earlier(r)
      <3>1. s \in rows /\ r \in rows /\ s.key.by = row.key.by /\ r.key.by = row.key.by
            /\ s.key.bucket <= row.key.bucket
        BY <1>1
      <3>2. s.key.bucket # r.key.bucket
        BY <2>1, <3>1 DEF KeysTell
      <3>4. s.key.bucket \in Nat /\ r.key.bucket \in Nat
        BY <1>0, <3>1
      <3> HIDE DEF W
      <3>3. s.key.bucket > r.key.bucket
        BY <1>4, <2>1, <3>4, <3>2
      <3> QED BY <3>1, <3>3
    <2> HIDE DEF earlier, W
    <2> QED BY <2>1
  <1>6. Cardinality(earlier(r)) <= 4 /\ earlier(r) \in SUBSET rows
    BY <1>1 DEF RollingWindow
  <1> HIDE DEF W, earlier
  <1>7. IsFiniteSet(earlier(r))
    BY <1>6, FS_Subset DEF KeysTell
  <1>8. Cardinality(W \ {r}) <= Cardinality(earlier(r)) /\ Cardinality(earlier(r)) \in Nat
    <2>1. W \ {r} \in SUBSET earlier(r)
      BY <1>5
    <2> QED BY <1>7, <2>1, FS_Subset, FS_CardinalityType
  <1>9. Cardinality(W \ {r}) = Cardinality(W) - 1 /\ Cardinality(W) \in Nat
    BY <1>3, FS_RemoveElement, FS_CardinalityType
  <1> QED BY <1>2, <1>6, <1>8, <1>9 DEF WindowIsBounded, RollingWindow, W

(* The rolling average of a row is over the row itself and at most four    *)
(* before it: for every series, range, interval and grouping.              *)
THEOREM RollingWindowIsBounded ==
  ASSUME NEW series, Documents(series), NEW from \in Nat, NEW to \in Nat,
         NEW interval \in Nat \ {0}, NEW groupBy,
         NEW row \in QueryMttrTrend(series, from, to, ToBucketSpec(interval), groupBy)
  PROVE  WindowIsBounded(QueryMttrTrend(series, from, to, ToBucketSpec(interval), groupBy), row)
  <1> DEFINE spec  == ToBucketSpec(interval)
             docs  == InRange(series, from, to)
             names == {groupBy}
             K     == Keys(docs, spec, names)
             trend == QueryMttrTrend(series, from, to, spec, groupBy)
             raw(k) == [key |-> k, avg |-> Average(Group(docs, spec, k)),
                        samples |-> Cardinality(Group(docs, spec, k))]
             rows  == {raw(k) : k \in K}
             full(r) == [key |-> r.key, avg |-> r.avg, samples |-> r.samples,
                         rolling |-> MeanOf(Window(rows, r))]
             of    == [k \in K |-> full(raw(k))]
  <1>1. trend = {of[k] : k \in K}
    <2>1. trend = {full(r) : r \in rows}
      BY DEF QueryMttrTrend
    <2> HIDE DEF full, trend, raw, K
    <2> QED BY <2>1
  <1>2. \A k \in K : of[k].key = k
    <2> HIDE DEF rows, K
    <2> QED OBVIOUS
  <1>3. IsFiniteSet(K)
    <2>1. docs \in SUBSET series
      BY DEF InRange
    <2>2. IsFiniteSet(docs)
      BY <2>1, FS_Subset DEF Documents
    <2> HIDE DEF docs, spec, names
    <2> QED BY <2>2, KeysAreFinite
  <1>4. ASSUME NEW k \in K PROVE k.bucket \in Nat /\ k = [bucket |-> k.bucket, by |-> k.by]
    <2>1. PICK d \in docs : k = [bucket |-> Bucket(d.ts, spec), by |-> [n \in names |-> d.dims[n]]]
      BY DEF Keys
    <2>2. d.ts \in Nat
      BY DEF InRange, Documents
    <2>3. Width(spec) = interval
      BY IntervalIsKept DEF SpecKeepsInterval
    <2>4. (d.ts \div interval) * interval \in Nat
      <3>1. d.ts \div interval \in Nat
        BY <2>2
      <3> QED BY <3>1
    <2>5. Bucket(d.ts, spec) \in Nat
      BY <2>3, <2>4 DEF Bucket
    <2> HIDE DEF spec
    <2> QED BY <2>1, <2>5
  <1> HIDE DEF of, K, trend
  <1>5. IsFiniteSet(trend)
    <2>1. IsFiniteSet({of[k] : k \in K})
      <3> DEFINE R == {of[k] : k \in K}
      <3>1. [k \in K |-> of[k]] \in Surjection(K, R)
        BY DEF Surjection
      <3> HIDE DEF R
      <3>2. IsFiniteSet(R)
        BY <1>3, <3>1, FS_Surjection
      <3> QED BY <3>2 DEF R
    <2> QED BY <1>1, <2>1
  <1>6. \A r \in trend : r.key \in K /\ r = of[r.key]
    BY <1>1, <1>2
  <1>7. \A r \in trend : r.key.bucket \in Nat /\ r.key = [bucket |-> r.key.bucket, by |-> r.key.by]
    BY <1>4, <1>6
  <1>8. \A r, s \in trend : r.key.bucket = s.key.bucket /\ r.key.by = s.key.by => r = s
    BY <1>6, <1>7, Zenon
  <1>9. row \in trend
    BY DEF trend
  <1>10. WindowIsBounded(trend, row)
    BY <1>5, <1>7, <1>8, <1>9, WindowOfKeys DEF KeysTell
  <1> QED BY <1>10 DEF trend

-----------------------------------------------------------------------------
(* The recorders.                                                          *)

Histogram ==
  [counts : [DOMAIN Boundaries -> Int], total : Int, sum : Int]

(* The bounds rise, so that what is in a bucket is in the ones after it.   *)
LEMMA BoundsRise ==
  /\ DOMAIN Boundaries = 1..10
  /\ \A b \in 1..10 : Boundaries[b] \in Int
  /\ \A a, b \in 1..10 : a <= b => Boundaries[a] <= Boundaries[b]
  BY DEF Boundaries

(* Whatever is observed, the buckets stay cumulative, "+Inf" included: for *)
(* every histogram that is so before, and every value.                     *)
THEOREM ObservationsStayCumulative ==
  ASSUME NEW h \in Histogram, NEW value \in Int
  PROVE  ObserveKeepsCumulative(h, value)
  <1> SUFFICES ASSUME Cumulative(h) PROVE Cumulative(Observe(h, value))
    BY DEF ObserveKeepsCumulative
  <1> DEFINE B   == DOMAIN Boundaries
             new == Observe(h, value)
  <1>1. /\ new.total = h.total + 1 /\ h.total \in Int
        /\ \A b \in B : new.counts[b] = IF value <= Boundaries[b] THEN h.counts[b] + 1
                                        ELSE h.counts[b]
    BY DEF Observe, Histogram
  <1>2. /\ \A b \in B : h.counts[b] \in 0..h.total
        /\ \A a, b \in B : a <= b => h.counts[a] <= h.counts[b]
    BY DEF Cumulative
  <1>3. /\ \A b \in B : Boundaries[b] \in Int
        /\ \A a, b \in B : a <= b => Boundaries[a] <= Boundaries[b]
    BY BoundsRise
  <1> HIDE DEF B, new
  <1>4. ASSUME NEW b \in B PROVE new.counts[b] \in 0..new.total
    BY <1>1, <1>2
  <1>5. ASSUME NEW a \in B, NEW b \in B, a <= b PROVE new.counts[a] <= new.counts[b]
    <2>1. /\ h.counts[a] \in Int /\ h.counts[b] \in Int /\ h.counts[a] <= h.counts[b]
          /\ Boundaries[a] \in Int /\ Boundaries[b] \in Int /\ Boundaries[a] <= Boundaries[b]
      BY <1>2, <1>3, <1>5
    <2> QED BY <1>1, <2>1
  <1> QED BY <1>4, <1>5 DEF Cumulative, B, new

(* What the name and the labels of a sample say of its value. *)
ValueAt(input, name, labels) ==
  CASE name = "ims_signals_received_total" -> input.received[labels[1]]
    [] name = "ims_signals_accepted_total" -> input.accepted[labels[1]]
    [] name = "ims_signals_dropped_total" -> input.dropped[labels[1]][labels[2]]
    [] name = "ims_buffer_depth" -> input.depth[labels[1]]
    [] name = "ims_buffer_fill_ratio" -> input.fill
    [] name = "ims_queue_depth" ->
         IF labels[1] = "waiting" THEN input.queue.waiting ELSE input.queue.active
    [] name = "ims_queue_dlq_size" -> input.queue.dlq
    [] name = "ims_queue_jobs_total" ->
         IF labels[1] = "processed" THEN input.jobs.processed ELSE input.jobs.failed
    [] name = "ims_escalations_triggered_total" -> input.escalations
    [] name = "ims_work_items" ->
         IF labels[1] \in DOMAIN input.items THEN input.items[labels[1]] ELSE 0
    [] name = "ims_alerts_total" -> input.alerts[labels[1]][labels[2]]
    [] name = "ims_signal_e2e_latency_ms" -> Rendered(input.latency)[labels[1]]

LEMMA SampleSaysItsValue ==
  ASSUME NEW input, NEW a \in Samples(input)
  PROVE  a = <<a[1], a[2], ValueAt(input, a[1], a[2])>>
  <1>1. ASSUME NEW s \in Severities, a = <<"ims_signals_received_total", <<s>>, input.received[s]>>
        PROVE  a = <<a[1], a[2], ValueAt(input, a[1], a[2])>>
    BY <1>1 DEF ValueAt
  <1>2. ASSUME NEW s \in Severities, a = <<"ims_signals_accepted_total", <<s>>, input.accepted[s]>>
        PROVE  a = <<a[1], a[2], ValueAt(input, a[1], a[2])>>
    BY <1>2 DEF ValueAt
  <1>3. ASSUME NEW s \in Severities, NEW r \in DropReasons,
               a = <<"ims_signals_dropped_total", <<s, r>>, input.dropped[s][r]>>
        PROVE  a = <<a[1], a[2], ValueAt(input, a[1], a[2])>>
    BY <1>3 DEF ValueAt
  <1>4. ASSUME NEW s \in Severities, a = <<"ims_buffer_depth", <<s>>, input.depth[s]>>
        PROVE  a = <<a[1], a[2], ValueAt(input, a[1], a[2])>>
    BY <1>4 DEF ValueAt
  <1>5. ASSUME a \in {<<"ims_buffer_fill_ratio", <<>>, input.fill>>,
                      <<"ims_queue_depth", <<"waiting">>, input.queue.waiting>>,
                      <<"ims_queue_depth", <<"active">>, input.queue.active>>,
                      <<"ims_queue_dlq_size", <<>>, input.queue.dlq>>,
                      <<"ims_queue_jobs_total", <<"processed">>, input.jobs.processed>>,
                      <<"ims_queue_jobs_total", <<"failed">>, input.jobs.failed>>,
                      <<"ims_escalations_triggered_total", <<>>, input.escalations>>}
        PROVE  a = <<a[1], a[2], ValueAt(input, a[1], a[2])>>
    BY <1>5 DEF ValueAt
  <1>6. ASSUME NEW s \in WorkItemStates,
               a = <<"ims_work_items", <<s>>,
                     IF s \in DOMAIN input.items THEN input.items[s] ELSE 0>>
        PROVE  a = <<a[1], a[2], ValueAt(input, a[1], a[2])>>
    BY <1>6 DEF ValueAt
  <1>7. ASSUME NEW c \in DOMAIN input.alerts, NEW o \in {"delivered", "failed"},
               a = <<"ims_alerts_total", <<c, o>>, input.alerts[c][o]>>
        PROVE  a = <<a[1], a[2], ValueAt(input, a[1], a[2])>>
    BY <1>7 DEF ValueAt
  <1>8. ASSUME NEW b \in DOMAIN Rendered(input.latency),
               a = <<"ims_signal_e2e_latency_ms", <<b>>, Rendered(input.latency)[b]>>
        PROVE  a = <<a[1], a[2], ValueAt(input, a[1], a[2])>>
    BY <1>8 DEF ValueAt
  <1> QED BY <1>1, <1>2, <1>3, <1>4, <1>5, <1>6, <1>7, <1>8 DEF Samples

(* No two samples of a scrape have the same name and labels, and every     *)
(* channel that an alert went through is there.                            *)
THEOREM ScrapeIsWellFormed ==
  ASSUME NEW input
  PROVE  SamplesAreApart(input)
  <1>1. ASSUME NEW a \in Samples(input), NEW b \in Samples(input), a[1] = b[1], a[2] = b[2]
        PROVE  a = b
    <2>1. /\ a = <<a[1], a[2], ValueAt(input, a[1], a[2])>>
          /\ b = <<b[1], b[2], ValueAt(input, b[1], b[2])>>
      BY SampleSaysItsValue
    <2> QED BY <1>1, <2>1
  <1>2. ASSUME NEW c \in DOMAIN input.alerts
        PROVE  \E a \in Samples(input) : a[1] = "ims_alerts_total" /\ a[2] = <<c, "failed">>
    <2> DEFINE a == <<"ims_alerts_total", <<c, "failed">>, input.alerts[c]["failed"]>>
    <2>1. a \in Samples(input)
      BY DEF Samples
    <2> QED BY <2>1
  <1> QED BY <1>1, <1>2 DEF SamplesAreApart

(* The counts of the alert recorder. *)
Alerts == [delivered : Nat, failed : Nat]

(* One event adds one to the total over all channels, whichever channel it *)
(* is of and whether or not the recorder knew it.                          *)
THEOREM EventCountsOnce ==
  ASSUME NEW C, IsFiniteSet(C), NEW alerts \in [C -> Alerts], NEW channel,
         NEW outcome \in {"delivered", "failed"}
  PROVE  BumpCountsOne(alerts, channel, outcome)
  <1> DEFINE new   == Bump(alerts, channel, outcome)
             D     == C \cup {channel}
             rest  == D \ {channel}
             entry == IF channel \in C THEN alerts[channel] ELSE [delivered |-> 0, failed |-> 0]
             f     == [c \in C |-> alerts[c].delivered + alerts[c].failed]
             h     == [c \in D |-> new[c].delivered + new[c].failed]
  <1>1. /\ new = [c \in D |-> IF c = channel THEN [entry EXCEPT ![outcome] = @ + 1]
                              ELSE alerts[c]]
        /\ DOMAIN alerts = C
    BY DEF Bump
  <1>2. entry \in Alerts
    BY DEF Alerts
  <1> HIDE DEF entry
  <1>3. h[channel] = entry.delivered + entry.failed + 1 /\ h[channel] \in Int
    <2> DEFINE e == [entry EXCEPT ![outcome] = @ + 1]
    <2>1. e.delivered \in Nat /\ e.failed \in Nat
          /\ e.delivered + e.failed = entry.delivered + entry.failed + 1
      <3>1. CASE outcome = "delivered"
        BY <1>2, <3>1 DEF Alerts
      <3>2. CASE outcome = "failed"
        BY <1>2, <3>2 DEF Alerts
      <3> QED BY <3>1, <3>2
    <2> HIDE DEF e
    <2>2. h[channel] = e.delivered + e.failed
      BY <1>1 DEF e
    <2> QED BY <2>1, <2>2
  <1>4. \A c \in rest : h[c] = f[c] /\ c \in C
    BY <1>1
  <1>5. \A c \in C : f[c] \in Int
    BY DEF Alerts
  <1>6. channel \in C => f[channel] = entry.delivered + entry.failed
    BY DEF entry
  <1>7. IsFiniteSet(D) /\ \A c \in D : h[c] \in Int
    <2>1. IsFiniteSet(D)
      BY FS_AddElement
    <2> QED BY <1>3, <1>4, <1>5, <2>1
  <1>8. SumOf(h, D) = SumOf(f, C) + 1
    <2>1. CASE channel \in C
      <3>1. D = C
        BY <2>1
      <3> DEFINE sum == SumOf(f, C)
      <3> HIDE DEF f, h, D, rest
      <3>2. SumOf(h, C) = sum + h[channel] - f[channel]
        BY <1>4, <1>5, <1>7, <2>1, <3>1, SumOfChange DEF rest
      <3>3. sum \in Int
        <4>1. OneByOne(f, C)
          BY <1>5, SumOfOneMore
        <4> QED BY <4>1 DEF OneByOne
      <3> HIDE DEF sum
      <3>4. h[channel] = f[channel] + 1 /\ f[channel] \in Int
        BY <1>3, <1>5, <1>6, <2>1
      <3>5. SumOf(h, C) = sum + 1
        BY <3>2, <3>3, <3>4
      <3> QED BY <3>1, <3>5 DEF sum
    <2>2. CASE channel \notin C
      <3>1. rest = C /\ D \in SUBSET D /\ channel \in D /\ C \in SUBSET D
        BY <2>2
      <3>2. entry.delivered + entry.failed = 0
        BY <2>2 DEF entry
      <3> HIDE DEF f, h, D
      <3>3. OneByOne(h, D)
        BY <1>7, SumOfOneMore
      <3>4. SumOf(h, D) = h[channel] + SumOf(h, C) /\ SumOf(h, C) \in Int
        BY <3>1, <3>3 DEF OneByOne
      <3>5. SumOf(h, C) = SumOf(f, C)
        <4>1. \A c \in C : h[c] = f[c]
          BY <1>4, <3>1
        <4> QED BY <4>1, SumOfSame
      <3> QED BY <1>3, <3>2, <3>4, <3>5
    <2> QED BY <2>1, <2>2
  <1>9. /\ DOMAIN new = D
        /\ MapThenSumSet(LAMBDA c : h[c], D) = SumOf(h, D)
        /\ MapThenSumSet(LAMBDA c : f[c], C) = SumOf(f, C)
    BY <1>1 DEF SumOf
  <1> HIDE DEF new, D
  <1> QED BY <1>1, <1>8, <1>9 DEF BumpCountsOne, new

-----------------------------------------------------------------------------
(* The page of the panels.                                                 *)

(* The options of the selectors, and what they stand for. *)
LEMMA Options ==
  /\ DOMAIN RangeSeconds = {"15m", "1h", "6h", "24h", "7d"}
  /\ DOMAIN IntervalSeconds = {"1m", "5m", "15m", "1h", "6h"}
  /\ DefaultRange \in DOMAIN RangeSeconds
  /\ \A k \in DOMAIN RangeSeconds : DefaultInterval[k] \in DOMAIN IntervalSeconds
  <1>1. DOMAIN RangeSeconds = {"15m", "1h", "6h", "24h", "7d"}
    BY DEF RangeSeconds
  <1>2. DOMAIN IntervalSeconds = {"1m", "5m", "15m", "1h", "6h"}
    BY DEF IntervalSeconds
  <1> QED BY <1>1, <1>2 DEF DefaultRange, DefaultInterval

LEMMA SomeOption ==
  ASSUME NEW address
  PROVE  IsRangeKey(RangeKey(address)) /\ IsIntervalKey(IntervalKey(address))
  <1>1. IsRangeKey(RangeKey(address))
    BY Options DEF IsRangeKey, RangeKey
  <1>2. IsIntervalKey(DefaultInterval[RangeKey(address)])
    BY <1>1, Options DEF IsRangeKey, IsIntervalKey
  <1> QED BY <1>1, <1>2 DEF IntervalKey

(* Whatever text the address holds for the range and the interval, and     *)
(* whatever is chosen after it, options of the selectors are asked for.    *)
THEOREM AnyAddressIsSafe ==
  ASSUME NEW address, NEW key
  PROVE  AddressIsSafe(address, key)
  <1> DEFINE next == SetRange(address, key)
  <1> DEFINE kept == IF IsIntervalKey(address.interval) THEN address.interval ELSE ""
  <1>1. IsIntervalKey(address.interval) => kept = address.interval
    BY Zenon
  <1> HIDE DEF kept
  <1>2. next = [range |-> key, interval |-> kept]
    BY DEF SetRange, kept
  <1>3. next.range = key /\ next.interval = kept
    BY <1>2
  <1> HIDE DEF next
  <1>4. IsRangeKey(key) => RangeKey(next) = key
    BY <1>3 DEF RangeKey
  <1>5. IsIntervalKey(address.interval) => IntervalKey(next) = IntervalKey(address)
    BY <1>1, <1>3 DEF IntervalKey
  <1> QED BY <1>4, <1>5, SomeOption DEF AddressIsSafe, next

(* "Tens, not thousands": an address without an interval of its own asks   *)
(* for ten to thirty whole buckets, at any time.                           *)
THEOREM TensOfBuckets ==
  ASSUME NEW address, NEW now \in Nat
  PROVE  BucketsAreTens(address, now)
  <1> SUFFICES ASSUME ~ IsIntervalKey(address.interval) PROVE BucketsAreTens(address, now)
    BY DEF BucketsAreTens
  <1> DEFINE r    == TimeRange(address, now)
             k    == RangeKey(address)
             long == RangeSeconds[k]
             wide == IntervalSeconds[DefaultInterval[k]]
  <1>1. r = [from |-> now - long, to |-> now, interval |-> wide]
    BY DEF TimeRange, IntervalKey
  <1>2. k \in {"15m", "1h", "6h", "24h", "7d"}
    BY Options DEF RangeKey, IsRangeKey
  <1> HIDE DEF k
  <1>3. \/ long = 900 /\ wide = 60
        \/ long = 3600 /\ wide = 300
        \/ long = 21600 /\ wide = 900
        \/ long = 86400 /\ wide = 3600
        \/ long = 604800 /\ wide = 21600
    <2>1. CASE k = "15m"
      BY <2>1 DEF RangeSeconds, IntervalSeconds, DefaultInterval
    <2>2. CASE k = "1h"
      BY <2>2 DEF RangeSeconds, IntervalSeconds, DefaultInterval
    <2>3. CASE k = "6h"
      BY <2>3 DEF RangeSeconds, IntervalSeconds, DefaultInterval
    <2>4. CASE k = "24h"
      BY <2>4 DEF RangeSeconds, IntervalSeconds, DefaultInterval
    <2>5. CASE k = "7d"
      BY <2>5 DEF RangeSeconds, IntervalSeconds, DefaultInterval
    <2> QED BY <1>2, <2>1, <2>2, <2>3, <2>4, <2>5
  <1> HIDE DEF long, wide
  <1>4. long % wide = 0 /\ long \div wide \in 10..30
    BY <1>3
  <1>5. r.to - r.from = long /\ r.interval = wide
    <2>1. long \in Int
      BY <1>3
    <2>2. now - (now - long) = long
      BY <2>1
    <2> HIDE DEF r
    <2> QED BY <1>1, <2>2
  <1> HIDE DEF r
  <1> QED BY <1>4, <1>5 DEF BucketsAreTens, r

(* Fractions with a positive denominator. *)
Fraction == Int \X (Nat \ {0})

(* A factor that is positive can be struck out. *)
LEMMA StruckOut ==
  ASSUME NEW m \in Int, NEW n \in Int, NEW d \in Nat \ {0}
  PROVE  /\ m <= n => m * d <= n * d
         /\ m < n => m * d < n * d
         /\ m * d < n * d => m < n
         /\ m * d <= n * d => m <= n
  <1>1. m <= n => m * d <= n * d
    <2>1. ASSUME m <= n PROVE (n - m) * d >= 0
      BY <2>1
    <2> QED BY <2>1
  <1>2. m < n => m * d < n * d
    <2>1. ASSUME m < n PROVE (n - m) * d > 0
      BY <2>1
    <2> QED BY <2>1
  <1>3. n <= m => n * d <= m * d
    <2>1. ASSUME n <= m PROVE (m - n) * d >= 0
      BY <2>1
    <2> QED BY <2>1
  <1>4. n < m => n * d < m * d
    <2>1. ASSUME n < m PROVE (m - n) * d > 0
      BY <2>1
    <2> QED BY <2>1
  <1>5. m * d \in Int /\ n * d \in Int
    OBVIOUS
  <1> QED BY <1>1, <1>2, <1>3, <1>4, <1>5

(* Not after, and not after that, is not after. *)
LEMMA LessIsTransitive ==
  ASSUME NEW a \in Fraction, NEW b \in Fraction, NEW c \in Fraction
  PROVE  /\ ~ Less(b, a) /\ ~ Less(c, b) => ~ Less(c, a)
         /\ Less(a, b) /\ ~ Less(c, b) => Less(a, c)
         /\ ~ Less(b, a) /\ Less(b, c) => Less(a, c)
         /\ ~ Less(a, a)
         /\ Less(a, b) => ~ Less(b, a)
  <1> DEFINE m == a[1] * b[2]
             n == b[1] * a[2]
             p == b[1] * c[2]
             q == c[1] * b[2]
             x == a[1] * c[2]
             y == c[1] * a[2]
  <1>1. /\ a[1] \in Int /\ b[1] \in Int /\ c[1] \in Int
        /\ a[2] \in Nat \ {0} /\ b[2] \in Nat \ {0} /\ c[2] \in Nat \ {0}
    BY DEF Fraction
  <1>2. m \in Int /\ n \in Int /\ p \in Int /\ q \in Int /\ x \in Int /\ y \in Int
    BY <1>1
  <1>3. m * c[2] = x * b[2] /\ n * c[2] = p * a[2] /\ q * a[2] = y * b[2]
    BY <1>1
  <1>4. /\ Less(a, b) <=> m < n
        /\ Less(b, a) <=> n < m
        /\ Less(b, c) <=> p < q
        /\ Less(c, b) <=> q < p
        /\ Less(a, c) <=> x < y
        /\ Less(c, a) <=> y < x
        /\ ~ Less(a, a)
    BY <1>1 DEF Less
  <1> DEFINE s == x * b[2]
             t == n * c[2]
             u == y * b[2]
  <1>5. /\ m <= n => s <= t
        /\ m < n => s < t
        /\ p <= q => t <= u
        /\ p < q => t < u
        /\ s <= u => x <= y
        /\ s < u => x < y
        /\ s \in Int /\ t \in Int /\ u \in Int
    <2> HIDE DEF m, n, p, q, x, y
    <2>1. (m <= n => m * c[2] <= n * c[2]) /\ (m < n => m * c[2] < n * c[2])
      BY <1>1, <1>2, StruckOut
    <2>2. (p <= q => p * a[2] <= q * a[2]) /\ (p < q => p * a[2] < q * a[2])
      BY <1>1, <1>2, StruckOut
    <2>3. (x * b[2] <= y * b[2] => x <= y) /\ (x * b[2] < y * b[2] => x < y)
      BY <1>1, <1>2, StruckOut
    <2>4. x * b[2] \in Int /\ n * c[2] \in Int /\ y * b[2] \in Int
      BY <1>1, <1>2
    <2> QED BY <1>3, <2>1, <2>2, <2>3, <2>4
  <1> HIDE DEF m, n, p, q, x, y, s, t, u
  <1> QED BY <1>2, <1>4, <1>5

(* The ranking of the components is an order: for all rows.                *)
THEOREM RankingIsAnOrder ==
  ASSUME NEW a, NEW b, NEW c,
         \A r \in {a, b, c} : r.avg \in Fraction /\ r.open \in Nat /\ r.incidents \in Nat
  PROVE  RankIsOrder(a, b, c)
  <1>1. /\ ~ Less(a.avg, a.avg)
        /\ Less(b.avg, a.avg) => ~ Less(a.avg, b.avg)
    BY LessIsTransitive
  <1>2. /\ ~ Less(b.avg, a.avg) /\ ~ Less(c.avg, b.avg) => ~ Less(c.avg, a.avg)
        /\ ~ Less(a.avg, b.avg) /\ ~ Less(b.avg, c.avg) => ~ Less(a.avg, c.avg)
        /\ Less(b.avg, a.avg) /\ Less(c.avg, b.avg) => Less(c.avg, a.avg)
        /\ Less(b.avg, a.avg) /\ ~ Less(b.avg, c.avg) => Less(c.avg, a.avg)
        /\ ~ Less(a.avg, b.avg) /\ Less(c.avg, b.avg) => Less(c.avg, a.avg)
    <2>1. a.avg \in Fraction /\ b.avg \in Fraction /\ c.avg \in Fraction
      OBVIOUS
    <2>2. /\ ~ Less(b.avg, a.avg) /\ ~ Less(c.avg, b.avg) => ~ Less(c.avg, a.avg)
      BY <2>1, LessIsTransitive
    <2>3. ~ Less(a.avg, b.avg) /\ ~ Less(b.avg, c.avg) => ~ Less(a.avg, c.avg)
      BY <2>1, LessIsTransitive
    <2>4. /\ Less(c.avg, b.avg) => ~ Less(b.avg, c.avg)
          /\ Less(c.avg, b.avg) /\ ~ Less(a.avg, b.avg) => Less(c.avg, a.avg)
          /\ ~ Less(b.avg, c.avg) /\ Less(b.avg, a.avg) => Less(c.avg, a.avg)
      BY <2>1, LessIsTransitive
    <2> QED BY <2>2, <2>3, <2>4
  <1>3. /\ a.open \in Nat /\ b.open \in Nat /\ c.open \in Nat
        /\ a.incidents \in Nat /\ b.incidents \in Nat /\ c.incidents \in Nat
    OBVIOUS
  <1> QED BY <1>1, <1>2, <1>3 DEF RankIsOrder, WorseThan

-----------------------------------------------------------------------------
(* The scripts.                                                            *)

(* The least of some numbers. *)
LEMMA LeastOf ==
  ASSUME NEW B, B \subseteq Nat, B # {}
  PROVE  Load!Min(B) \in B /\ \A m \in B : Load!Min(B) <= m
  BY LeastNumber DEF Load!Min

(* All shards together offer the rate that was asked for, to half a request*)
(* per shard, or one each: for every rate and number of shards.            *)
THEOREM OfferIsAsAsked ==
  ASSUME NEW rate \in Nat, NEW shards \in Nat \ {0}
  PROVE  Load!OfferIsClose(rate, shards)
  <1> DEFINE part == (2 * rate + shards) \div (2 * shards)
             each == Load!PerShard(rate, shards)
             n    == shards * part
  <1>1. part \in Nat /\ n \in Nat
    OBVIOUS
  <1>2. 2 * n <= 2 * rate + shards /\ 2 * rate + shards < 2 * n + 2 * shards
    <2>1. 2 * rate + shards = (2 * shards) * part + ((2 * rate + shards) % (2 * shards))
      OBVIOUS
    <2>2. (2 * rate + shards) % (2 * shards) \in 0..(2 * shards - 1)
      OBVIOUS
    <2>3. (2 * shards) * part = 2 * n
      BY <1>1
    <2> HIDE DEF part, n
    <2> QED BY <1>1, <2>1, <2>2, <2>3
  <1>3. each = IF part >= 1 THEN part ELSE 1
    <2> HIDE DEF part
    <2>1. each = Load!Max({1, part})
      BY DEF Load!PerShard, part
    <2> QED BY <1>1, <2>1 DEF Load!Max
  <1> HIDE DEF part, each
  <1>4. CASE part >= 1
    <2>1. shards * each = n
      BY <1>3, <1>4
    <2> HIDE DEF n
    <2>2. 2 * (n - rate) \in (-shards)..shards
      BY <1>1, <1>2
    <2> QED BY <2>1, <2>2 DEF Load!OfferIsClose, each
  <1>5. CASE ~ part >= 1
    <2>1. part = 0
      BY <1>1, <1>5
    <2>2. n = 0 /\ shards * each = shards
      BY <1>3, <1>5, <2>1
    <2> HIDE DEF n
    <2>3. 2 * rate < shards
      BY <1>2, <2>2
    <2> QED BY <2>2, <2>3 DEF Load!OfferIsClose, each
  <1> QED BY <1>4, <1>5

(* Polls, one after the other. *)
OnePoll(Ids) == [from : Nat, at : Nat, ok : BOOLEAN, met : SUBSET Ids]

PollSequence(Ids) ==
  {polls \in Seq(OnePoll(Ids)) :
     /\ \A i \in DOMAIN polls : polls[i].from <= polls[i].at
     /\ \A i, j \in DOMAIN polls : i < j => polls[i].at <= polls[j].from}

LEMMA PollsAreTimed ==
  ASSUME NEW Ids, NEW polls \in PollSequence(Ids), NEW i \in DOMAIN polls
  PROVE  i \in Nat /\ polls[i].at \in Nat /\ polls[i].from \in Nat
  <1>1. polls \in Seq(OnePoll(Ids))
    BY DEF PollSequence
  <1>2. i \in 1..Len(polls)
    BY <1>1
  <1>3. polls[i] \in OnePoll(Ids)
    BY <1>1, <1>2, ElementOfSeq
  <1> QED BY <1>2, <1>3 DEF OnePoll

(* What was sampled of a signal is never too short, and too long by less   *)
(* than what passed until the end of the next poll that began after it was *)
(* stored and succeeded: however long the polls take, whichever fail and   *)
(* whatever they meet of what is stored while they look.                   *)
THEOREM SamplesAreLate ==
  ASSUME NEW Ids, NEW docs \in [Ids -> [sent : Int, persisted : Nat]],
         NEW polls \in PollSequence(Ids)
  PROVE  Load!SampleIsLate(docs, polls)
  <1> DEFINE found(id) == {i \in DOMAIN polls : Load!Finds(polls[i], id, docs[id])}
             seen      == Load!FirstSeen(docs, polls)
             latency   == Load!Latencies(docs, polls)
  <1>1. \A i \in DOMAIN polls : i \in Nat /\ polls[i].at \in Nat /\ polls[i].from \in Nat
    BY PollsAreTimed
  <1>a. /\ \A i \in DOMAIN polls : polls[i].from <= polls[i].at
        /\ \A i, j \in DOMAIN polls : i < j => polls[i].at <= polls[j].from
    BY DEF PollSequence
  <1>2. SUFFICES ASSUME NEW id \in DOMAIN latency
                 PROVE  LET excess == latency[id] - (docs[id].persisted - docs[id].sent)
                        IN  /\ excess >= 0
                            /\ \A i \in DOMAIN polls :
                                 polls[i].ok /\ polls[i].from >= docs[id].persisted
                                   => excess <= polls[i].at - docs[id].persisted
    BY DEF Load!SampleIsLate
  <1> DEFINE first == Load!Min(found(id))
             at    == polls[first].at
  <1>3. id \in Ids /\ found(id) # {} /\ id \in DOMAIN seen /\ latency[id] = seen[id] - docs[id].sent
    BY DEF Load!Latencies, Load!FirstSeen
  <1>4. seen[id] = at
    BY <1>3 DEF Load!FirstSeen
  <1>5. first \in found(id) /\ \A i \in found(id) : first <= i
    <2>1. found(id) \subseteq Nat
      BY <1>1
    <2> HIDE DEF found
    <2> QED BY <1>3, <2>1, LeastOf
  <1>7. docs[id].persisted \in Nat /\ docs[id].sent \in Int
    BY <1>3
  <1>6. at \in Nat /\ docs[id].persisted <= at /\ first \in DOMAIN polls
    <2>1. first \in DOMAIN polls /\ Load!Finds(polls[first], id, docs[id])
      BY <1>5
    <2> HIDE DEF first
    <2> QED BY <1>1, <1>a, <1>7, <2>1 DEF Load!Finds
  <1>8. ASSUME NEW i \in DOMAIN polls, polls[i].ok, polls[i].from >= docs[id].persisted
        PROVE  at <= polls[i].at
    <2>1. Load!Finds(polls[i], id, docs[id])
      BY <1>8 DEF Load!Finds
    <2>2. first <= i
      BY <1>5, <1>8, <2>1
    <2> HIDE DEF first
    <2>3. CASE first = i
      BY <1>6, <2>3
    <2>4. CASE first < i
      BY <1>1, <1>6, <1>a, <2>4
    <2> QED BY <1>1, <1>6, <2>2, <2>3, <2>4
  <1> HIDE DEF at, seen, latency, first
  <1>9. latency[id] - (docs[id].persisted - docs[id].sent) = at - docs[id].persisted
    BY <1>3, <1>4, <1>6, <1>7
  <1> QED BY <1>1, <1>6, <1>7, <1>8, <1>9

(* Both ways to wait agree, unless a check throws before one is ready.     *)
THEOREM BothWaitsAgree ==
  ASSUME NEW checks \in Seq({"ready", "not", "threw"})
  PROVE  Script!WaitsAgree(checks)
  <1> DEFINE decisive == {i \in DOMAIN checks : checks[i] # "not"}
             first    == Script!Min(decisive)
  <1>1. decisive \subseteq Nat
    OBVIOUS
  <1>2. decisive # {} => first \in decisive
    <2> HIDE DEF decisive
    <2> QED BY <1>1, LeastNumber DEF Script!Min
  <1>3. Script!WaitForValue(checks) <=> decisive # {} /\ checks[first] = "ready"
    BY DEF Script!WaitForValue
  <1>4. Script!WaitFor(checks) <=> \E i \in DOMAIN checks : checks[i] = "ready"
    BY DEF Script!WaitFor
  <1>5. \A i \in decisive : i \in DOMAIN checks /\ checks[i] \in {"ready", "threw"}
    OBVIOUS
  <1>6. \A i \in DOMAIN checks : checks[i] = "ready" => i \in decisive
    OBVIOUS
  <1> DEFINE waited == Script!WaitFor(checks)
             valued == Script!WaitForValue(checks)
             threw  == \E i \in DOMAIN checks : checks[i] = "threw"
  <1>7. valued \in BOOLEAN /\ waited \in BOOLEAN
    BY DEF Script!WaitForValue, Script!WaitFor
  <1> HIDE DEF decisive, first
  <1>8. valued => waited
    <2> SUFFICES ASSUME valued PROVE waited
      OBVIOUS
    <2>1. first \in decisive /\ checks[first] = "ready"
      BY <1>2, <1>3
    <2> QED BY <1>4, <1>5, <2>1
  <1>9. ~ threw /\ waited => valued
    <2> SUFFICES ASSUME ~ threw, waited PROVE valued
      OBVIOUS
    <2>1. decisive # {}
      BY <1>4, <1>6
    <2>2. first \in DOMAIN checks /\ checks[first] \in {"ready", "threw"}
      BY <1>2, <1>5, <2>1
    <2> QED BY <1>3, <2>1, <2>2
  <1> HIDE DEF valued, waited
  <1>10. Script!WaitsAgree(checks) <=> (valued => waited) /\ (~ threw => valued = waited)
    BY Zenon DEF Script!WaitsAgree, valued, waited
  <1> QED BY Zenon, <1>7, <1>8, <1>9, <1>10

(* A ramp starts and ends where it says and never turns back: for every    *)
(* pair of rates and every duration.                                       *)
THEOREM RampsGoUp ==
  ASSUME NEW from \in Nat, NEW to \in Nat, NEW duration \in Nat
  PROVE  Script!RampGoesUp(from, to, duration)
  <1> DEFINE rates == Script!RampRates(from, to, duration)
  <1>1. CASE duration <= 1
    <2>1. rates = <<to>>
      BY <1>1 DEF Script!RampRates
    <2>2. Script!Max({1, duration}) = 1
      BY <1>1 DEF Script!Max
    <2> QED BY <1>1, <2>1, <2>2 DEF Script!RampGoesUp
  <1>2. CASE duration > 1
    <2> DEFINE steps == duration - 1
               Num(i) == 2 * (from * steps + (to - from) * (i - 1)) + steps
    <2>1. rates = [i \in 1..duration |-> Num(i) \div (2 * steps)]
      BY <1>2 DEF Script!RampRates
    <2>2. steps \in Nat \ {0} /\ 2 * steps \in Nat \ {0}
      BY <1>2
    <2>3. \A i \in 1..duration : Num(i) \in Int
      BY <2>2
    <2>4. Num(1) = from * (2 * steps) + steps /\ Num(duration) = to * (2 * steps) + steps
      BY <2>2
    <2>5. \A r \in Nat : (r * (2 * steps) + steps) \div (2 * steps) = r
      <3> TAKE r \in Nat
      <3> DEFINE d == 2 * steps
                 x == r * d + steps
                 q == x \div d
      <3>1. x \in Nat /\ d \in Nat \ {0} /\ q \in Nat
        BY <2>2
      <3>2. x = d * q + (x % d) /\ x % d \in 0..(d - 1)
        <4> HIDE DEF x, d
        <4> QED BY <3>1
      <3>3. d * q <= r * d + steps /\ r * d + steps < d * q + d /\ r * d \in Nat /\ d * q \in Nat
        <4> HIDE DEF q, d
        <4>1. r * d \in Nat /\ d * q \in Nat
          BY <3>1
        <4> QED BY <2>2, <3>1, <3>2, <4>1
      <3>4. ~ (q >= r + 1)
        <4>1. ASSUME q >= r + 1 PROVE FALSE
          <5>1. d * (r + 1) <= d * q
            BY <3>1, <4>1, ProductsInOrder
          <5>2. d * (r + 1) = r * d + d
            BY <3>1
          <5>3. steps < d /\ steps \in Nat
            BY <2>2
          <5> HIDE DEF q, d
          <5> QED BY <3>1, <3>3, <5>1, <5>2, <5>3
        <4> QED BY <4>1
      <3>5. ~ (q <= r - 1)
        <4>1. ASSUME q <= r - 1 PROVE FALSE
          <5>1. d * q <= d * (r - 1)
            BY <3>1, <4>1, ProductsInOrder
          <5>2. d * (r - 1) = r * d - d
            BY <3>1
          <5> HIDE DEF q, d
          <5> QED BY <2>2, <3>1, <3>3, <5>1, <5>2
        <4> QED BY <4>1
      <3> HIDE DEF q
      <3>6. q = r
        BY <3>1, <3>4, <3>5
      <3> QED BY <3>6 DEF q
    <2>6. rates[1] = from /\ rates[duration] = to /\ Len(rates) = duration
      <3>1. Len(rates) = duration
        BY <2>1
      <3>2. 1 \in 1..duration /\ duration \in 1..duration
        BY <1>2
      <3>3. rates[1] = Num(1) \div (2 * steps) /\ rates[duration] = Num(duration) \div (2 * steps)
        BY <2>1, <3>2
      <3> HIDE DEF rates, Num, steps
      <3> QED BY <2>4, <2>5, <3>1, <3>3
    <2>7. ASSUME NEW i \in 1..(duration - 1), from <= to PROVE rates[i] <= rates[i + 1]
      <3>1. i \in 1..duration /\ i + 1 \in 1..duration
        BY <1>2
      <3>2. Num(i) <= Num(i + 1)
        <4>1. Num(i + 1) = Num(i) + 2 * (to - from)
          BY <2>2
        <4>2. Num(i) \in Int /\ to - from \in Nat
          BY <2>3, <2>7, <3>1
        <4> HIDE DEF Num
        <4> QED BY <4>1, <4>2
      <3>3. rates[i] = Num(i) \div (2 * steps) /\ rates[i + 1] = Num(i + 1) \div (2 * steps)
        BY <2>1, <3>1
      <3>4. Num(i) \in Int /\ Num(i + 1) \in Int
        BY <2>3, <3>1
      <3> HIDE DEF rates, Num, steps
      <3> QED BY <2>2, <3>2, <3>3, <3>4, FloorsInOrder
    <2>8. Script!Max({1, duration}) = duration
      BY <1>2 DEF Script!Max
    <2> HIDE DEF rates
    <2> QED BY <1>2, <2>6, <2>7, <2>8 DEF Script!RampGoesUp, rates
  <1> QED BY <1>1, <1>2

=============================================================================
