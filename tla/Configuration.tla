--------------------------- MODULE Configuration ---------------------------
(***************************************************************************)
(* backend/src/config/index.ts: from the environment to the settings that  *)
(* the other components run with, or to an exit with status 1. Pure        *)
(* functions: no variables.                                                *)
(*                                                                         *)
(* A variable that is set holds a text: a number, in thousandths here so   *)
(* that a fraction is an integer too, nothing at all, or something else.   *)
(* A secret counts by its length, an address by being one.                 *)
(***************************************************************************)
EXTENDS Integers

Unit == 1000

Text == [form : {"number", "empty", "other"}, n : Int]

(* z.coerce.number(): the number that an empty text stands for is 0.       *)
IsNumber(text) == text.form # "other"

Number(text) == IF text.form = "empty" THEN 0 ELSE text.n

-----------------------------------------------------------------------------
(* envSchema: the defaults of z.coerce.number().int().positive()...        *)

Counts ==
  [PORT |-> 3000, INGESTION_MAX_BATCH_SIZE |-> 500, INGESTION_BULK_TEST_MAX_COUNT |-> 20000,
   RATE_LIMIT_IP_CAPACITY |-> 50, RATE_LIMIT_IP_REFILL_PER_SECOND |-> 20,
   RATE_LIMIT_GLOBAL_CAPACITY |-> 5000, RATE_LIMIT_GLOBAL_REFILL_PER_SECOND |-> 2000,
   BUFFER_CAPACITY |-> 20000, BUFFER_DRAIN_BATCH_SIZE |-> 200, BUFFER_DRAIN_INTERVAL_MS |-> 50,
   BUFFER_SHUTDOWN_DRAIN_TIMEOUT_MS |-> 10000, DEBOUNCE_WINDOW_SECONDS |-> 10,
   DEBOUNCE_THRESHOLD |-> 100, DEBOUNCE_LOCK_TTL_MS |-> 5000,
   DEBOUNCE_LOCK_WAIT_TIMEOUT_MS |-> 1000, DEBOUNCE_LOCK_POLL_INTERVAL_MS |-> 20,
   QUEUE_WORKER_CONCURRENCY |-> 5, QUEUE_MAX_ATTEMPTS |-> 5, QUEUE_BACKOFF_DELAY_MS |-> 1000,
   QUEUE_REMOVE_ON_COMPLETE_COUNT |-> 1000, QUEUE_REMOVE_ON_FAIL_COUNT |-> 1000,
   QUEUE_SHUTDOWN_TIMEOUT_MS |-> 10000, DASHBOARD_CACHE_TTL_SECONDS |-> 3600,
   DASHBOARD_LIST_DEFAULT_LIMIT |-> 50, DASHBOARD_LIST_MAX_LIMIT |-> 200,
   DASHBOARD_REPOPULATE_CAP |-> 1000, ALERT_CHANNEL_TIMEOUT_MS |-> 5000,
   ALERT_MAX_ATTEMPTS |-> 3, ALERT_BACKOFF_DELAY_MS |-> 500,
   ALERT_SUPPRESSION_WINDOW_SECONDS |-> 86400, ESCALATION_CHECK_INTERVAL_MS |-> 60000,
   HEALTH_PROBE_INTERVAL_MS |-> 5000, HEALTH_PROBE_TIMEOUT_MS |-> 2000,
   SSE_HEARTBEAT_INTERVAL_MS |-> 15000, JWT_ACCESS_TOKEN_TTL_SECONDS |-> 900,
   BCRYPT_COST |-> 12, RATE_LIMIT_LOGIN_IP_CAPACITY |-> 10, RATE_LIMIT_LOGIN_EMAIL_CAPACITY |-> 5]

(* ... and those of fractions and rates, in thousandths, with their range: *)
(* of the fractions the low mark alone may be 0, and may not be 1.         *)
Fractions ==
  [BUFFER_HIGH_WATER_MARK_FRACTION |-> 800, BUFFER_LOW_WATER_MARK_FRACTION |-> 500,
   BUFFER_SHED_CEILING_P1_FRACTION |-> 700, BUFFER_SHED_CEILING_P2_FRACTION |-> 400,
   BUFFER_SHED_CEILING_P3_FRACTION |-> 150]

Rates ==
  [RATE_LIMIT_LOGIN_IP_REFILL_PER_SECOND |-> 500, RATE_LIMIT_LOGIN_EMAIL_REFILL_PER_SECOND |-> 100]

Numeric == DOMAIN Counts \cup DOMAIN Fractions \cup DOMAIN Rates

Addresses == {"DATABASE_URL", "MONGODB_URI", "REDIS_URL"}

Webhooks == {"ALERT_SLACK_WEBHOOK_URL", "ALERT_PAGERDUTY_WEBHOOK_URL", "ALERT_EMAIL_WEBHOOK_URL"}

MinSecret == 32

(* What one variable is turned into: the default when it is not set.       *)
Setting(env, name) ==
  IF name \in DOMAIN env.number THEN Number(env.number[name])
  ELSE IF name \in DOMAIN Counts THEN Counts[name] * Unit
  ELSE IF name \in DOMAIN Fractions THEN Fractions[name]
  ELSE Rates[name]

WithinRange(name, value) ==
  /\ name \in DOMAIN Counts => value % Unit = 0 /\ value > 0
  /\ name = "BCRYPT_COST" => value \in 4 * Unit .. 15 * Unit
  /\ name \in DOMAIN Fractions \ {"BUFFER_LOW_WATER_MARK_FRACTION"} => 0 < value /\ value <= Unit
  /\ name = "BUFFER_LOW_WATER_MARK_FRACTION" => 0 <= value /\ value < Unit
  /\ name \in DOMAIN Rates => value > 0

(* The two refinements of the schema. *)
MarksInOrder(env) ==
  Setting(env, "BUFFER_LOW_WATER_MARK_FRACTION") < Setting(env, "BUFFER_HIGH_WATER_MARK_FRACTION")

CeilingsInOrder(env) ==
  /\ Setting(env, "BUFFER_SHED_CEILING_P3_FRACTION") < Setting(env, "BUFFER_SHED_CEILING_P2_FRACTION")
  /\ Setting(env, "BUFFER_SHED_CEILING_P2_FRACTION") < Setting(env, "BUFFER_SHED_CEILING_P1_FRACTION")

(* An environment: the numbers that are set; whether each address is       *)
(* absent, empty, one, or not one; the mode; the length of the secret.     *)
Environment ==
  [number : UNION {[set -> Text] : set \in SUBSET Numeric},
   address : [Addresses \cup Webhooks -> {"absent", "empty", "url", "other"}],
   mode : {"absent", "development", "test", "production", "other"},
   secret : Nat]

(* envSchema.safeParse: a webhook may be absent, but not empty. *)
Parses(env) ==
  /\ \A name \in DOMAIN env.number : IsNumber(env.number[name])
  /\ \A name \in Numeric : WithinRange(name, Setting(env, name))
  /\ \A a \in Addresses : env.address[a] = "url"
  /\ \A w \in Webhooks : env.address[w] \in {"url", "absent"}
  /\ env.mode # "other" /\ env.secret >= MinSecret
  /\ MarksInOrder(env) /\ CeilingsInOrder(env)

(* loadConfig: the settings, or an exit. *)
LoadConfig(env) ==
  IF Parses(env)
    THEN [started |-> TRUE, setting |-> [name \in Numeric |-> Setting(env, name)],
          channels |-> {w \in Webhooks : env.address[w] = "url"}]
    ELSE [started |-> FALSE, setting |-> [name \in Numeric |-> 0], channels |-> {}]

-----------------------------------------------------------------------------
(* What SignalBuffer makes of the settings: its constants.                 *)

BufferSlots(config) == config["BUFFER_CAPACITY"] \div Unit

(* The part of the buffer that a fraction stands for, in thousandths.      *)
Part(config, name) == BufferSlots(config) * config[name]

(* The least size with size / capacity >= the high mark.                   *)
HighMarkOf(config) == (Part(config, "BUFFER_HIGH_WATER_MARK_FRACTION") + Unit - 1) \div Unit

(* The greatest size with size / capacity <= the low mark.                 *)
LowMarkOf(config) == Part(config, "BUFFER_LOW_WATER_MARK_FRACTION") \div Unit

(* Math.floor(capacity * fraction), of the exact product: that of doubles  *)
(* may be one less, and is in the same order.                              *)
CeilingOf(config, name) == Part(config, name) \div Unit

-----------------------------------------------------------------------------
(* What a process that started may rely on; RulesProofs proves             *)
(* each for every environment.                                             *)

(* The marks that the buffer gets satisfy what SignalBuffer assumes,       *)
(* whatever the capacity rounds them to: shedding begins within the        *)
(* capacity, and ends at a size below the one where it begins.             *)
MarksFit(config) ==
  /\ BufferSlots(config) \in Nat \ {0}
  /\ HighMarkOf(config) \in 1..BufferSlots(config)
  /\ LowMarkOf(config) \in Nat /\ LowMarkOf(config) < HighMarkOf(config)

(* "lower severities must have less headroom" (config/index.ts:88): never  *)
(* more, but in a small buffer two of them round to the same slots.        *)
HeadroomInOrder(config) ==
  /\ CeilingOf(config, "BUFFER_SHED_CEILING_P3_FRACTION") \in Nat
  /\ CeilingOf(config, "BUFFER_SHED_CEILING_P3_FRACTION")
       <= CeilingOf(config, "BUFFER_SHED_CEILING_P2_FRACTION")
  /\ CeilingOf(config, "BUFFER_SHED_CEILING_P2_FRACTION")
       <= CeilingOf(config, "BUFFER_SHED_CEILING_P1_FRACTION")
  /\ CeilingOf(config, "BUFFER_SHED_CEILING_P1_FRACTION") <= BufferSlots(config)

=============================================================================
