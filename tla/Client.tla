-------------------------------- MODULE Client ---------------------------------
(***************************************************************************)
(* KalshiClient.request() of api/client.py, called by several coroutines   *)
(* of one client, over the token buckets the rate limiter promises         *)
(* (TokenBucket, which RateLimiter implements).  One token is the cost of  *)
(* one request.                                                            *)
(*                                                                         *)
(* A coroutine yields in three places: inside acquire(), when it must      *)
(* wait; while the request is on the wire; and while it backs off.  The    *)
(* server may answer anything, or nothing until httpx times out.           *)
(***************************************************************************)
EXTENDS TokenBucket, Sequences, SequencesExt, FiniteSetsExt

CONSTANTS
    Req,            \* coroutines, each issuing one request()
    MaxRetries,     \* KalshiClient(max_retries=...)
    NoStamp,        \* no signature in the headers
    MaxTime         \* bound: past it, time passes only for a lack of tokens

ASSUME BucketAssumption == Bucket # {}
ASSUME MaxRetriesAssumption == MaxRetries \in Nat
ASSUME NoStampAssumption == NoStamp \notin Nat
ASSUME MaxTimeAssumption == MaxTime \in Nat

\* What an attempt can meet, one status of each kind: 200 with a JSON body, 204
\* for a success whose body is not JSON, and 0 for a timeout or transport error.
NoAnswer == 0
NotJson == 204
RetryableStatus == {429, 500}
FatalStatus == {404}
Response == {200, NotJson, NoAnswer} \union RetryableStatus \union FatalStatus

\* How request() ends.  `status` is what the exception carries.
Result == [kind : {"none", "payload", "ConfigError", "KalshiAPIError",
                   "RateLimitedError", "JSONDecodeError", "cancelled"},
           status : {0, 404, 429, 503}]

Ended(kind, status) == [kind |-> kind, status |-> status]

VARIABLES
    signer,         \* were credentials configured?
    pc,             \* where each coroutine is
    private,        \* request(authenticated=...)
    bucket,         \* request(bucket=...), or GET reads and the rest writes
    since,          \* history: when the coroutine began to wait in acquire()
    loaded,         \* the value of self.throttled_seconds read before the await
    throttled,      \* self.throttled_seconds
    stamp,          \* the timestamp signed into the headers of the last send
    answers,        \* what each attempt met; the loop's `attempt` is its length
    result,
    sent,           \* history: requests put on the wire, by bucket
    waitTotal       \* history: the sum of everything acquire() returned

callVars == <<private, bucket>>
waitVars == <<since, loaded>>
clientVars == <<signer, pc, callVars, waitVars, throttled, stamp, answers, result, sent,
                waitTotal>>
vars == <<abstractVars, clientVars>>

TypeOK ==
    /\ LevelType
    /\ signer \in BOOLEAN
    /\ pc \in [Req -> {"idle", "acquiring", "sending", "backoff", "done"}]
    /\ private \in [Req -> BOOLEAN]
    /\ bucket \in [Req -> Bucket]
    /\ since \in [Req -> Nat]
    /\ loaded \in [Req -> Nat]
    /\ throttled \in Nat
    /\ stamp \in [Req -> Nat \union {NoStamp}]
    /\ answers \in [Req -> Seq(Response)]
    /\ \A r \in Req : Len(answers[r]) <= MaxRetries + 1
    /\ result \in [Req -> Result]
    /\ sent \in [Bucket -> Nat]
    /\ waitTotal \in Nat

Init ==
    /\ AbstractInit
    /\ signer \in BOOLEAN
    /\ pc = [r \in Req |-> "idle"]
    /\ private = [r \in Req |-> FALSE]
    /\ bucket = [r \in Req |-> CHOOSE b \in Bucket : TRUE]
    /\ since = [r \in Req |-> 0]
    /\ loaded = [r \in Req |-> 0]
    /\ throttled = 0
    /\ stamp = [r \in Req |-> NoStamp]
    /\ answers = [r \in Req |-> <<>>]
    /\ result = [r \in Req |-> Ended("none", 0)]
    /\ sent = [b \in Bucket |-> 0]
    /\ waitTotal = 0

--------------------------------------------------------------------------------
(* One pass of the retry loop.  A definition nothing uses is a mistake in the *)
(* one that follows it, named for what it gets wrong.                         *)

\* Admitted: sign, if the request is private, and send.
Send(r, b, priv) ==
    /\ pc' = [pc EXCEPT ![r] = "sending"]
    /\ stamp' = [stamp EXCEPT ![r] = IF priv THEN now ELSE NoStamp]
    /\ sent' = [sent EXCEPT ![b] = @ + 1]

\* The temporaries of a wait go with it.
ForgetWait(r) ==
    /\ since' = [since EXCEPT ![r] = 0]
    /\ loaded' = [loaded EXCEPT ![r] = 0]

MustWait(b) ==
    \/ level[b] < 1
    \/ \E r \in Req : pc[r] = "acquiring" /\ bucket[r] = b

\* `self.throttled_seconds += await acquire(...)`: the attribute is read first.
\* An acquire() that need not wait returns 0.0 without yielding.
Attempt(r, b, priv) ==
    \/ /\ ~MustWait(b)
       /\ Draw(b, 1)
       /\ Send(r, b, priv)
       /\ UNCHANGED <<waitVars, throttled, waitTotal>>
    \/ /\ MustWait(b)
       /\ pc' = [pc EXCEPT ![r] = "acquiring"]
       /\ loaded' = [loaded EXCEPT ![r] = throttled]
       /\ since' = [since EXCEPT ![r] = now]
       /\ UNCHANGED <<abstractVars, throttled, stamp, sent, waitTotal>>

\* The call, up to its first await.
Request(r, b, priv) ==
    /\ pc[r] = "idle"
    /\ private' = [private EXCEPT ![r] = priv]
    /\ bucket' = [bucket EXCEPT ![r] = b]
    /\ \/ /\ priv /\ ~signer
          /\ pc' = [pc EXCEPT ![r] = "done"]
          /\ result' = [result EXCEPT ![r] = Ended("ConfigError", 0)]
          /\ UNCHANGED <<abstractVars, waitVars, throttled, stamp, sent, waitTotal>>
       \/ /\ ~(priv /\ ~signer)
          /\ Attempt(r, b, priv)
          /\ UNCHANGED result
    /\ UNCHANGED <<signer, answers>>

\* acquire() returns, reporting no more than the time it took.
AdmitAddingTwice(r) ==
    /\ pc[r] = "acquiring"
    /\ Draw(bucket[r], 1)
    /\ \E w \in 0..(now - since[r]) :
         /\ throttled' = throttled + loaded[r] + w
         /\ waitTotal' = waitTotal + w
    /\ Send(r, bucket[r], private[r])
    /\ ForgetWait(r)
    /\ UNCHANGED <<signer, callVars, answers, result>>

AdmitToEmptyLine(r) ==
    /\ pc[r] = "acquiring"
    /\ ~MustWait(bucket[r])
    /\ Draw(bucket[r], 1)
    /\ Send(r, bucket[r], private[r])
    /\ UNCHANGED <<signer, callVars, waitVars, throttled, answers, result, waitTotal>>

Admit(r) ==
    /\ pc[r] = "acquiring"
    /\ Draw(bucket[r], 1)
    /\ \E w \in 0..(now - since[r]) :
         /\ throttled' = loaded[r] + w
         /\ waitTotal' = waitTotal + w
    /\ Send(r, bucket[r], private[r])
    /\ ForgetWait(r)
    /\ UNCHANGED <<signer, callVars, answers, result>>

\* Where an answer leaves the loop: attempts made so far, this one included.
Retryable(resp) == resp \in RetryableStatus \union {NoAnswer}

OutcomeOfAnyRetry(resp, n) ==
    CASE resp = 200 -> Ended("payload", 0)
      [] n <= MaxRetries -> Ended("none", 0)
      [] OTHER -> Ended("KalshiAPIError", 503)

OutcomeRetryingForever(resp, n) ==
    CASE resp = 200 -> Ended("payload", 0)
      [] resp \in FatalStatus -> Ended("KalshiAPIError", resp)
      [] OTHER -> Ended("none", 0)

Outcome(resp, n) ==
    CASE resp = 200 -> Ended("payload", 0)
      [] resp = NotJson -> Ended("JSONDecodeError", 0)
      [] resp \in FatalStatus -> Ended("KalshiAPIError", resp)
      [] Retryable(resp) /\ n <= MaxRetries -> Ended("none", 0)
      [] resp = 429 /\ n > MaxRetries -> Ended("RateLimitedError", 429)
      [] OTHER -> Ended("KalshiAPIError", 503)

\* The attempt ends; the loop returns, raises or backs off.
Answer(r, resp) ==
    LET end == Outcome(resp, Len(answers[r]) + 1) IN
    /\ pc[r] = "sending"
    /\ answers' = [answers EXCEPT ![r] = Append(@, resp)]
    /\ result' = [result EXCEPT ![r] = end]
    /\ pc' = [pc EXCEPT ![r] = IF end.kind = "none" THEN "backoff" ELSE "done"]
    /\ UNCHANGED <<abstractVars, signer, callVars, waitVars, throttled, stamp, sent, waitTotal>>

\* The backoff is over: the next attempt pays the limiter again.
RetryUnpaid(r) ==
    /\ pc[r] = "backoff"
    /\ Send(r, bucket[r], private[r])
    /\ UNCHANGED <<abstractVars, signer, callVars, waitVars, throttled, answers, result,
                   waitTotal>>

RetryUnsigned(r) ==
    /\ pc[r] = "backoff"
    /\ Attempt(r, bucket[r], FALSE)
    /\ UNCHANGED <<signer, callVars, answers, result>>

Retry(r) ==
    /\ pc[r] = "backoff"
    /\ Attempt(r, bucket[r], private[r])
    /\ UNCHANGED <<signer, callVars, answers, result>>

\* The coroutine is cancelled where it awaits.
Cancel(r) ==
    /\ pc[r] \in {"acquiring", "sending", "backoff"}
    /\ pc' = [pc EXCEPT ![r] = "done"]
    /\ result' = [result EXCEPT ![r] = Ended("cancelled", 0)]
    /\ ForgetWait(r)
    /\ UNCHANGED <<abstractVars, signer, callVars, throttled, stamp, answers, sent, waitTotal>>

Refill ==
    /\ \/ now < MaxTime
       \/ \E r \in Req : pc[r] = "acquiring" /\ level[bucket[r]] < 1
    /\ Pour
    /\ UNCHANGED clientVars

Next ==
    \/ \E r \in Req, b \in Bucket, priv \in BOOLEAN : Request(r, b, priv)
    \/ \E r \in Req : Admit(r)
    \/ \E r \in Req, resp \in Response : Answer(r, resp)
    \/ \E r \in Req : Retry(r)
    \/ \E r \in Req : Cancel(r)
    \/ Refill

Spec == Init /\ [][Next]_vars

\* httpx bounds every attempt by its timeout, the backoff timer fires, time
\* passes, and the limiter serves whoever waits (RateLimiter!EveryCallEnds).
Fairness ==
    /\ WF_vars(Refill)
    /\ \A r \in Req :
         /\ WF_vars(Admit(r))
         /\ WF_vars(\E resp \in Response : Answer(r, resp))
         /\ WF_vars(Retry(r))

FairSpec == Spec /\ Fairness

--------------------------------------------------------------------------------
(* Properties *)

\* Retries included, the requests on the wire stay within the budget the
\* exchange meters: burst plus rate times elapsed time.  Otherwise a storm of
\* retries would beget the 429s it retries.
RequestBudget == \A b \in Bucket : sent[b] <= Capacity[b] + Rate[b] * now

\* What request() reports is what the attempts met: only transient failures are
\* retried, success and fatal statuses end the loop at once, and the loop gives
\* up after exactly max_retries + 1 attempts, with RateLimitedError iff the last
\* of them was a 429.
OutcomeExplained ==
    \A r \in Req :
        LET a == answers[r]
            kind == result[r].kind
        IN
        /\ \A i \in DOMAIN a : i < Len(a) => Retryable(a[i])
        /\ kind = "payload" => a # <<>> /\ Last(a) = 200
        /\ kind = "JSONDecodeError" => a # <<>> /\ Last(a) = NotJson
        /\ kind = "ConfigError" => a = <<>> /\ stamp[r] = NoStamp
        /\ kind = "RateLimitedError" => Len(a) = MaxRetries + 1 /\ Last(a) = 429
        /\ kind = "KalshiAPIError" =>
             \/ a # <<>> /\ Last(a) = result[r].status
             \/ Len(a) = MaxRetries + 1 /\ Last(a) \in {500, NoAnswer}

\* A private request is never put on the wire unsigned, nor with a signature made
\* before the limiter's wait or for an earlier attempt; a public one never
\* carries credentials.
SignsWhenSent ==
    [][\A r \in Req : pc'[r] = "sending" /\ pc[r] # "sending" =>
         stamp'[r] = IF private'[r] THEN now ELSE NoStamp]_vars

\* The throttling figure of the ingest report never claims more waiting than
\* there was, however requests interleave.
ThrottledNeverOverstates == throttled <= waitTotal

\* Every request() returns, raises or is cancelled: no answer the server can
\* give, and no shortage of tokens, keeps it going.
EveryRequestEnds == \A r \in Req : pc[r] # "idle" ~> pc[r] = "done"

\* "Cumulative time spent waiting on our own rate limiter" (client.py:95).
ThrottledIsCumulative == throttled = waitTotal

================================================================================
