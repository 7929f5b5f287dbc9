----------------------------- MODULE RateLimits -----------------------------
(***************************************************************************)
(* The two limiters of requests, both in Redis: the token bucket of the    *)
(* gateway (one Lua script, atomic) and the fixed window of auth (INCR and *)
(* PTTL in one pipeline, EXPIRE in a call of its own).                     *)
(*                                                                         *)
(* A request costs Cost units of a bucket that holds Burst and gains Rate  *)
(* per tick, so that fractions of a request exist.                         *)
(*                                                                         *)
(* now      the clock of Redis                                             *)
(* redis    whether it answers; both limiters let requests pass when not   *)
(* bucket   the hash of each key of the gateway                            *)
(* window   the counter of each key of auth: its value, and when it ends   *)
(* asking   what a connection of auth is in the middle of                  *)
(***************************************************************************)
EXTENDS Integers, Sequences, FiniteSets

CONSTANTS Client, Address, Caller, Absent, Rate, Burst, Cost, Limit, Window, MaxTime

ASSUME LimitsAssumption ==
  /\ Rate \in Nat \ {0} /\ Cost \in Nat \ {0} /\ Burst \in Nat /\ Burst >= Cost
  /\ Limit \in Nat \ {0} /\ Window \in Nat \ {0} /\ MaxTime \in Nat
  /\ Absent \notin [tokens : 0..Burst, ts : 0..MaxTime]

VARIABLES now, redis, bucket, window, asking

(* History: when the gateway let the requests of a key pass, when it last  *)
(* told a key to come back, and the keys that auth refused in the window   *)
(* they are in.                                                            *)
VARIABLES passed, comeback, refused

limitVars == <<now, redis, bucket, window, asking, passed, comeback, refused>>

Never == -1

LimitsInit ==
  /\ now = 0 /\ redis = "up"
  /\ bucket = [k \in Client |-> Absent]
  /\ window = [k \in Client |-> Absent]
  /\ asking = [c \in Caller |-> Absent]
  /\ passed = [k \in Client |-> <<>>]
  /\ comeback = [k \in Client |-> Absent]
  /\ refused = {}

Ceiling(a, b) == (a + b - 1) \div b
Least(a, b) == IF a < b THEN a ELSE b

Tick ==
  /\ now < MaxTime
  /\ now' = now + 1
  /\ UNCHANGED <<redis, bucket, window, asking, passed, comeback, refused>>

(* Redis stops answering, or answers again with the data it had.           *)
RedisBreaks ==
  /\ redis' = IF redis = "up" THEN "down" ELSE "up"
  /\ UNCHANGED <<now, bucket, window, asking, passed, comeback, refused>>

(***************************************************************************)
(* The token bucket.                                                       *)
(***************************************************************************)
(* PEXPIRE: the time in which an empty bucket fills up.                    *)
ForgottenAfterOne == Ceiling(Cost, Rate)
FullAfter == Ceiling(Burst, Rate)

(* The tokens of a key when it is read: refilled since, or never seen, or  *)
(* gone with its time to live.                                             *)
Refilled(k) ==
  IF bucket[k] = Absent \/ (bucket[k] # Absent /\ now >= bucket[k].ts + FullAfter)
  THEN Burst
  ELSE Least(Burst, bucket[k].tokens + (now - bucket[k].ts) * Rate)

Grants(k) == Refilled(k) >= Cost

Remaining(k) == Refilled(k) - (IF Grants(k) THEN Cost ELSE 0)

(* What the middleware of the gateway makes of a request: fail-open.       *)
Passes(k) == redis = "down" \/ Grants(k)

HintRoundedDown(k) == (Cost - Remaining(k)) \div Rate

(* reset_ms, rounded up on the way to the header.                          *)
Hint(k) == Ceiling(Cost - Remaining(k), Rate)

Allow(k) ==
  IF redis = "down"
  THEN UNCHANGED <<bucket, passed, comeback>>
  ELSE /\ bucket' = [bucket EXCEPT ![k] = [tokens |-> Remaining(k), ts |-> now]]
       /\ passed' = IF Grants(k) THEN [passed EXCEPT ![k] = Append(@, now)] ELSE passed
       /\ comeback' = [comeback EXCEPT ![k] =
                         IF Grants(k) THEN Absent
                         ELSE [since |-> now, at |-> now + Hint(k)]]

(***************************************************************************)
(* The fixed window of auth.                                               *)
(***************************************************************************)
(* The counter as Redis has it now: a key whose time is over is gone.      *)
Counter(k) ==
  IF window[k] = Absent \/ (window[k] # Absent /\ window[k].ends # Never
                                           /\ now >= window[k].ends)
  THEN [count |-> 0, ends |-> Never] ELSE window[k]

Incr(c, k) ==
  LET n == Counter(k).count + 1 IN
  /\ redis = "up" /\ asking[c] = Absent
  /\ n <= Limit + 2
  /\ window' = [window EXCEPT ![k] = [count |-> n, ends |-> Counter(k).ends]]
  /\ asking' = [asking EXCEPT ![c] =
                  [key |-> k, count |-> n, ends |-> Counter(k).ends, opened |-> FALSE]]
  /\ refused' = IF n = 1 THEN refused \ {k} ELSE refused
  /\ UNCHANGED <<now, redis, bucket, passed, comeback>>

(* The counter begins a window when it was created.                        *)
NeedsWindowOnCreation(c) == ~asking[c].opened /\ asking[c].count = 1

(* ... or was left without an end by a request that died in between.       *)
NeedsWindow(c) ==
  ~asking[c].opened /\ (asking[c].count = 1 \/ asking[c].ends = Never)

Expire(c) ==
  /\ redis = "up" /\ asking[c] # Absent /\ NeedsWindow(c)
  /\ window' = [window EXCEPT ![asking[c].key] =
                  IF Counter(asking[c].key).count = 0 THEN Absent  \* the key is gone
                  ELSE [count |-> @.count, ends |-> now + Window]]
  /\ asking' = [asking EXCEPT ![c].opened = TRUE, ![c].ends = now + Window]
  /\ UNCHANGED <<now, redis, bucket, passed, comeback, refused>>

Answer(c) ==
  /\ asking[c] # Absent /\ ~NeedsWindow(c)
  /\ asking' = [asking EXCEPT ![c] = Absent]
  /\ refused' = IF asking[c].count > Limit
                   /\ asking[c].ends = Counter(asking[c].key).ends
                THEN refused \cup {asking[c].key} ELSE refused \ {asking[c].key}
  /\ UNCHANGED <<now, redis, bucket, window, passed, comeback>>

(* EXPIRE fails (the request passes), or the process dies.                 *)
GiveUp(c) ==
  /\ asking[c] # Absent
  /\ asking' = [asking EXCEPT ![c] = Absent]
  /\ refused' = refused \ {asking[c].key}
  /\ UNCHANGED <<now, redis, bucket, window, passed, comeback>>

WindowStep ==
  \E c \in Caller :
    \/ \E k \in Address : Incr(c, k)
    \/ Expire(c) \/ Answer(c) \/ GiveUp(c)

(***************************************************************************)
(* Properties.                                                             *)
(***************************************************************************)
(* Between any two requests of a key that the gateway lets pass it lets    *)
(* pass no more than a full bucket and what it gained meanwhile, although  *)
(* the key may expire and begin anew in between.                           *)
BurstIsBounded ==
  \A k \in Client : \A i, j \in DOMAIN passed[k] :
    i <= j => (j - i + 1) * Cost <= Burst + Rate * (passed[k][j] - passed[k][i])

(* A client that waits as long as Retry-After says, and sends nothing in   *)
(* between, is not refused again.                                          *)
WaitingIsEnough ==
  [][\A k \in Client :
       /\ comeback[k] # Absent /\ now >= comeback[k].at
       /\ comeback'[k] # comeback[k]
       => comeback'[k] = Absent]_limitVars

(* Nobody is refused by a window without an end: a counter that lost its   *)
(* EXPIRE to a crash gets one before it refuses.                           *)
RefusalHasAnEnd ==
  \A k \in refused :
    \/ window[k] = Absent
    \/ window[k].ends # Never
    \/ \E c \in Caller : asking[c] # Absent /\ asking[c].key = k

=============================================================================
