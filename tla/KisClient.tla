------------------------------ MODULE KisClient -------------------------------
(***************************************************************************)
(* src/src/brokers/kis/client.py, auth.py, orders.py: requests to the KIS  *)
(* API.  Threads share one token bucket (at most Rate requests per second, *)
(* waiting up to MaxWait) and one access token; a query is retried, an     *)
(* order is not; orders leave the process only while the dry-run guard is  *)
(* live.                                                                   *)
(*                                                                         *)
(* Time is counted in ticks, a second is Second of them.  The server may   *)
(* answer anything, an order may arrive although the answer is lost.       *)
(***************************************************************************)
EXTENDS Integers, Sequences

CONSTANTS Orders,      \* threads that submit an order
          Queries,     \* threads that fetch something
          Rate, Second, MaxWait,
          Margin,      \* TOKEN_REFRESH_MARGIN
          Lifetime,    \* how long a token is valid
          MaxClock

Threads == Orders \union Queries

VARIABLES clock,
          live,        \* OrdersDryRunGuard._live_enabled
          stamps,      \* _TokenBucket._timestamps
          permits,     \* history: the times of all permits
          at,          \* Threads -> where the request is
          waitFrom,    \* Threads -> deadline of acquire, then the time get_token read
          waitUntil,   \* Threads -> wait_until of the last refusal
          attempts,    \* Threads -> attempts
          refreshed,   \* Threads -> token_already_refreshed
          token,       \* KISAuth._token: when it expires, 0 if there is none
          header,      \* Threads -> the token in its headers
          sent,        \* Threads -> requests put on the wire
          arrived,     \* Threads -> the server has executed the request
          result       \* Threads -> what the caller got

bucket == <<stamps, permits, waitFrom, waitUntil>>
retry == <<attempts, refreshed>>
wire == <<sent, arrived>>
vars == <<clock, live, bucket, at, retry, token, header, wire, result>>

MaxRetries(t) == IF t \in Orders THEN 0 ELSE 1

Results == {"none", "dry_run", "ok", "api_error", "rate_limit", "auth_error", "value_error"}

TypeOK ==
    /\ clock \in 0 .. MaxClock
    /\ Len(stamps) <= Rate
    /\ \A t \in Threads :
           /\ at[t] \in {"idle", "deadline", "bucket", "refused", "token", "http", "done"}
           /\ attempts[t] \in 0 .. 1 + MaxRetries(t)
           /\ sent[t] <= 1 + MaxRetries(t)
           /\ result[t] \in Results
           /\ at[t] = "done" <=> result[t] # "none"

Init ==
    /\ clock = 0 /\ live = FALSE /\ stamps = <<>> /\ permits = <<>>
    /\ at = [t \in Threads |-> "idle"]
    /\ waitFrom = [t \in Threads |-> 0] /\ waitUntil = [t \in Threads |-> 0]
    /\ attempts = [t \in Threads |-> 0] /\ refreshed = [t \in Threads |-> FALSE]
    /\ token = 0 /\ header = [t \in Threads |-> 0]
    /\ sent = [t \in Threads |-> 0] /\ arrived = [t \in Threads |-> FALSE]
    /\ result = [t \in Threads |-> "none"]

GoTo(t, place) == at' = [at EXCEPT ![t] = place]
End(t, what) == GoTo(t, "done") /\ result' = [result EXCEPT ![t] = what]
-----------------------------------------------------------------------------
(* submit_order and the token bucket *)

\* enable_live and disable_live.
Switch ==
    /\ live' = ~live
    /\ UNCHANGED <<clock, bucket, at, retry, token, header, wire, result>>

\* While the guard is off submit_order simulates; otherwise acquire begins.
Start(t) ==
    /\ at[t] = "idle"
    /\ \/ /\ t \in Orders /\ ~live
          /\ End(t, "dry_run")
          /\ UNCHANGED waitFrom
       \/ /\ t \in Queries \/ live
          /\ GoTo(t, "bucket")
          /\ waitFrom' = [waitFrom EXCEPT ![t] = clock + MaxWait]
          /\ UNCHANGED result
    /\ UNCHANGED <<clock, live, stamps, permits, waitUntil, retry, token, header, wire>>

\* What is left when the oldest stamps are popped while they are a second old.
Recent(now) ==
    LET popped == {n \in 0 .. Len(stamps) : \A i \in 1 .. n : stamps[i] <= now - Second}
        most == CHOOSE n \in popped : \A m \in popped : m <= n
    IN SubSeq(stamps, most + 1, Len(stamps))

\* One pass of the loop, under the bucket's lock, where the clock is read.
Acquire(t) ==
    /\ at[t] = "bucket"
    /\ LET recent == Recent(clock) IN
       \/ /\ Len(recent) < Rate
          /\ stamps' = Append(recent, clock)
          /\ permits' = Append(permits, clock)
          /\ GoTo(t, "token")
          /\ waitFrom' = [waitFrom EXCEPT ![t] = clock]
          /\ UNCHANGED waitUntil
       \/ /\ Len(recent) >= Rate
          /\ stamps' = recent
          /\ waitUntil' = [waitUntil EXCEPT ![t] = Head(recent) + Second]
          /\ GoTo(t, "refused")
          /\ UNCHANGED <<permits, waitFrom>>
    /\ UNCHANGED <<clock, live, retry, token, header, wire, result>>

\* The lock is released; time.sleep is asked for what is left until the slot
\* opens, and raises ValueError when that moment has passed meanwhile.
Sleep(t) ==
    /\ at[t] = "refused"
    /\ \/ clock >= waitFrom[t] /\ End(t, "rate_limit")
       \/ /\ clock < waitFrom[t] /\ clock > waitUntil[t]
          /\ End(t, "value_error")
       \/ /\ clock < waitFrom[t] /\ clock <= waitUntil[t]
          /\ GoTo(t, "bucket") /\ UNCHANGED result
    /\ UNCHANGED <<clock, live, bucket, retry, token, header, wire>>
-----------------------------------------------------------------------------
(* KISAuth.get_token and the HTTP loop of KISClient.request *)

Expired(now) == now + Margin >= token

\* get_token: the cached token, or a new one, or AuthError.  The time in
\* waitFrom was read before the lock.
GetToken(t) ==
    /\ at[t] = "token"
    /\ \/ /\ ~Expired(waitFrom[t]) /\ ~refreshed[t]
          /\ header' = [header EXCEPT ![t] = token]
          /\ GoTo(t, "http")
          /\ UNCHANGED <<token, result>>
       \/ /\ Expired(waitFrom[t]) \/ refreshed[t]
          /\ \/ /\ token' = clock + Lifetime
                /\ header' = [header EXCEPT ![t] = token']
                /\ GoTo(t, "http")
                /\ UNCHANGED result
             \/ /\ End(t, "auth_error")
                /\ UNCHANGED <<token, header>>
    /\ UNCHANGED <<clock, live, bucket, retry, wire>>

Attempt(t) ==
    /\ attempts' = [attempts EXCEPT ![t] = @ + 1]
    /\ sent' = [sent EXCEPT ![t] = @ + 1]

\* Status 200: rt_cd "0" is success, everything else an API error.
Success(t) ==
    /\ at[t] = "http" /\ attempts[t] <= MaxRetries(t)
    /\ Attempt(t)
    /\ arrived' = [arrived EXCEPT ![t] = TRUE]
    /\ End(t, "ok")
    /\ UNCHANGED <<clock, live, bucket, refreshed, token, header>>

\* Mutant: every answer of status 200 is a success.
FailureTakenForOk(t) ==
    /\ at[t] = "http" /\ attempts[t] <= MaxRetries(t)
    /\ Attempt(t)
    /\ End(t, "ok")
    /\ UNCHANGED <<clock, live, bucket, refreshed, token, header, arrived>>

\* Another status, or rt_cd of an error; nothing was executed.
Failure(t) ==
    /\ at[t] = "http" /\ attempts[t] <= MaxRetries(t)
    /\ Attempt(t)
    /\ End(t, "api_error")
    /\ UNCHANGED <<clock, live, bucket, refreshed, token, header, arrived>>

\* A network error or 5xx: the request may have arrived.  Sleep and try again,
\* without asking the bucket, or give up.
Retry(t) ==
    /\ at[t] = "http" /\ attempts[t] <= MaxRetries(t)
    /\ Attempt(t)
    /\ arrived' \in {arrived, [arrived EXCEPT ![t] = TRUE]}
    /\ IF attempts'[t] > MaxRetries(t)
       THEN End(t, "api_error")
       ELSE UNCHANGED <<at, result>>
    /\ UNCHANGED <<clock, live, bucket, refreshed, token, header>>

\* 401 or 403: invalidate, get a new token, and go round the loop once more.
Unauthorized(t) ==
    /\ at[t] = "http" /\ attempts[t] <= MaxRetries(t) /\ ~refreshed[t]
    /\ Attempt(t)
    /\ refreshed' = [refreshed EXCEPT ![t] = TRUE]
    /\ token' = 0
    /\ GoTo(t, "token")
    /\ UNCHANGED <<clock, live, bucket, header, arrived, result>>

\* The loop ends without an answer: the refresh took the last attempt.
Exhausted(t) ==
    /\ at[t] = "http" /\ attempts[t] > MaxRetries(t)
    /\ End(t, "api_error")
    /\ UNCHANGED <<clock, live, bucket, retry, token, header, wire>>

Tick ==
    /\ clock < MaxClock
    /\ clock' = clock + 1
    /\ UNCHANGED <<live, bucket, at, retry, token, header, wire, result>>

Next ==
    \/ \E t \in Threads :
          \/ Start(t) \/ Acquire(t) \/ Sleep(t) \/ GetToken(t)
          \/ Success(t) \/ Failure(t) \/ Retry(t) \/ Unauthorized(t) \/ Exhausted(t)
    \/ Switch
    \/ Tick

Spec == Init /\ [][Next]_vars
-----------------------------------------------------------------------------
(* What must hold *)

\* The bucket admits at most Rate requests in any window of one second, for
\* all the threads together.
RateHolds ==
    \A k \in 1 .. Len(permits) - Rate : permits[k + Rate] >= permits[k] + Second

\* Without an idempotency key at the broker an order must not be sent twice:
\* neither a lost answer nor an expired token repeats it.
OrderSentOnce == \A t \in Orders : sent[t] <= 1

\* The caller is told "accepted" only of an order the broker executed.
AnswerIsTrue == \A t \in Orders : result[t] = "ok" => arrived[t]

\* A request goes out with a token that was valid, by the clock it read.
TokenWasValid ==
    \A t \in Threads : at[t] = "http" => header[t] > waitFrom[t]

\* All of these: what a thread may count on when it calls the broker.
OrdersLeaveOnce ==
    /\ TypeOK
    /\ RateHolds /\ OrderSentOnce /\ AnswerIsTrue /\ TokenWasValid
=============================================================================
