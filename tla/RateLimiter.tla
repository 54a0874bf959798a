---------------------------- MODULE RateLimiter ----------------------------
(***************************************************************************)
(* The token buckets of ingestion (backend/src/rateLimit/tokenBucket.ts):  *)
(* one per IP and a global one, refilled and debited by a Lua script, so   *)
(* in one step, at the time that the calling replica's clock shows.        *)
(*                                                                         *)
(* Time runs in fractions of a second, and tokens are counted in the same  *)
(* fractions: a bucket gains PerSecond[b] of them in each unit of time,    *)
(* and one token is Fraction of them. The keys' expiry, 3600 s after their *)
(* last use, is left out: an idle bucket is full by then, as one that is   *)
(* missing is, unless its capacity is more than 3600 s refill.             *)
(***************************************************************************)
EXTENDS Integers

CONSTANTS
  Ips,
  Capacity,     (* [Buckets -> Nat], in tokens                                *)
  PerSecond,    (* [Buckets -> Nat], refillPerSecond                          *)
  Fraction,     (* units of time in a second                                  *)
  Costs,        (* the sizes of batches                                       *)
  Skews,        (* by how much the replicas' clocks run ahead                 *)
  MaxClock,     (* bound of the model: time                                   *)
  MaxChecks     (* bound of the model: requests                               *)

Buckets == Ips \cup {"global"}

ASSUME LimiterAssumption ==
  /\ "global" \notin Ips
  /\ Capacity \in [Buckets -> Nat \ {0}] /\ PerSecond \in [Buckets -> Nat \ {0}]
  /\ Fraction \in Nat \ {0} /\ Costs \subseteq (Nat \ {0}) /\ Skews \subseteq Nat
  /\ MaxClock \in Nat /\ MaxChecks \in Nat

VARIABLES
  clock,
  tokens,     (* [Buckets -> Nat], a missing key is a full bucket             *)
  ts,         (* [Buckets -> Nat]                                             *)
  checks,
  spent,      (* history: [Buckets -> Nat], tokens granted, in fractions      *)
  initial,    (* history: [Buckets -> Nat], what the bucket held at time 0    *)
  regained,   (* history: [Buckets -> Nat], by how much ts was set back       *)
  hint        (* history: the last refusal, while nobody else has drawn on    *)
              (* its bucket since                                             *)

limiterVars == <<clock, tokens, ts, checks, spent, initial, regained, hint>>

Full(b) == Capacity[b] * Fraction

NoHint == [bucket |-> "global", cost |-> 0, until |-> 0, ip |-> CHOOSE i \in Ips : TRUE]

LimiterInit ==
  /\ clock = 0
  /\ \E drained \in SUBSET Buckets :
       initial = [b \in Buckets |-> IF b \in drained THEN 0 ELSE Full(b)]
  /\ tokens = initial
  /\ ts = [b \in Buckets |-> 0]
  /\ checks = 0
  /\ spent = [b \in Buckets |-> 0]
  /\ regained = [b \in Buckets |-> 0]
  /\ hint = NoHint

Lesser(a, b) == IF a < b THEN a ELSE b
Beyond(a, b) == IF a > b THEN a - b ELSE 0      \* max(0, a - b)

(* Definitions named Faulty... are seeded faults: each replaces the        *)
(* definition after it in a run that must then find a property violated.   *)

(* Fault: no cap. *)
FaultyRefill(b, t) == tokens[b] + Beyond(t, ts[b]) * PerSecond[b]

(* refill, at the time t of the caller. *)
Refill(b, t) == Lesser(Full(b), tokens[b] + Beyond(t, ts[b]) * PerSecond[b])

Elapse ==
  /\ clock < MaxClock
  /\ clock' = clock + 1
  /\ UNCHANGED <<tokens, ts, checks, spent, initial, regained, hint>>

(* secondsUntilAvailable: the missing tokens over the refill, rounded up.  *)
SecondsUntil(b, left, cost) ==
  (Beyond(cost * Fraction, left) + PerSecond[b] * Fraction - 1) \div (PerSecond[b] * Fraction)

(* Fault: a refused request keeps the refill and leaves ts as it was. *)
FaultyStore(i, t, left, allowed) ==
  /\ tokens' = [b \in Buckets |-> IF b \in {i, "global"} THEN left[b] ELSE tokens[b]]
  /\ ts' = [b \in Buckets |-> IF b \in {i, "global"} /\ allowed THEN t ELSE ts[b]]

(* HMSET of both buckets, allowed or not. *)
Store(i, t, left, allowed) ==
  /\ tokens' = [b \in Buckets |-> IF b \in {i, "global"} THEN left[b] ELSE tokens[b]]
  /\ ts' = [b \in Buckets |-> IF b \in {i, "global"} THEN t ELSE ts[b]]

(* The bucket of the address is tested first. *)
LimitedBy(i, t, cost) ==
  {b \in {i, "global"} : /\ Refill(b, t) < cost * Fraction
                         /\ b = "global" => Refill(i, t) >= cost * Fraction}

(* checkTokenBuckets for a batch of a client. *)
Check(i, cost, skew) ==
  LET t       == clock + skew
      allowed == LimitedBy(i, t, cost) = {}
      left    == [b \in Buckets |-> Refill(b, t) - IF allowed THEN cost * Fraction ELSE 0]
  IN
  /\ checks < MaxChecks
  /\ checks' = checks + 1
  /\ Store(i, t, left, allowed)
  /\ spent' = [b \in Buckets |-> IF b \in {i, "global"} /\ allowed
                                   THEN spent[b] + cost * Fraction ELSE spent[b]]
  /\ regained' = [b \in Buckets |-> IF b \in {i, "global"}
                                      THEN regained[b] + Beyond(ts[b], t) ELSE regained[b]]
  /\ \/ \E b \in LimitedBy(i, t, cost) :
          hint' = [bucket |-> b, cost |-> cost, ip |-> i,
                   until |-> t + SecondsUntil(b, left[b], cost) * Fraction]
     \/ allowed /\ hint' = IF hint.bucket \in {i, "global"} THEN NoHint ELSE hint
  /\ UNCHANGED <<clock, initial>>

LimiterNext == \/ Elapse
               \/ \E i \in Ips, cost \in Costs, skew \in Skews : Check(i, cost, skew)

LimiterSpec == LimiterInit /\ [][LimiterNext]_limiterVars

-----------------------------------------------------------------------------

LimiterTypeOK ==
  /\ clock \in Nat /\ checks \in Nat
  /\ tokens \in [Buckets -> Nat] /\ initial \in [Buckets -> Nat]
  /\ \A b \in Buckets : tokens[b] <= Full(b)
  /\ ts \in [Buckets -> Nat] /\ spent \in [Buckets -> Nat] /\ regained \in [Buckets -> Nat]
  /\ hint.bucket \in Buckets /\ hint.until \in Nat

(* "A read-then-write from Node would race under load and let more through *)
(* than the configured capacity" (tokenBucket.ts): granted is no more than *)
(* the bucket held and gained, where each replica whose clock is behind    *)
(* sets ts back and lets that time be refilled once more.                  *)
BucketNeverOverspent ==
  \A b \in Buckets :
    spent[b] + tokens[b] <= initial[b] + (ts[b] + regained[b]) * PerSecond[b]

(* Retry-After is honest: who waits as long as it said, while nobody else  *)
(* is granted anything of the bucket, is not refused by that bucket again, *)
(* unless the batch costs more than it ever holds or the clock it is then  *)
(* measured with is behind.                                                *)
RetryAfterIsEnough ==
  hint.cost > 0 /\ hint.cost <= Capacity[hint.bucket] /\ clock >= hint.until =>
    Refill(hint.bucket, clock) >= hint.cost * Fraction

(* What the limiter tells its clients, and what it lets through. *)
BucketsKeepTheirWord == BucketNeverOverspent /\ RetryAfterIsEnough

=============================================================================
