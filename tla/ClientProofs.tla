----------------------------- MODULE ClientProofs ------------------------------
(* Theorems about Client, for any coroutines, buckets, rates and retry limits. *)
EXTENDS Client, TokenBucketProofs, SequenceTheorems

--------------------------------------------------------------------------------
(* What a step does to each group of variables. *)

\* An attempt either draws its token and is sent, or goes to wait.
LEMMA AttemptSendsOrWaits ==
  ASSUME TypeOK, NEW r \in Req, NEW b \in Bucket, NEW priv \in BOOLEAN, Attempt(r, b, priv)
  PROVE  \/ /\ Draw(b, 1) /\ sent' = [sent EXCEPT ![b] = @ + 1]
            /\ pc' = [pc EXCEPT ![r] = "sending"]
            /\ stamp' = [stamp EXCEPT ![r] = IF priv THEN now ELSE NoStamp]
            /\ UNCHANGED <<since, loaded, throttled, waitTotal>>
         \/ /\ pc' = [pc EXCEPT ![r] = "acquiring"]
            /\ loaded' = [loaded EXCEPT ![r] = throttled]
            /\ since' = [since EXCEPT ![r] = now]
            /\ UNCHANGED <<abstractVars, throttled, stamp, sent, waitTotal>>
  BY DEF Attempt, Send, waitVars

\* A request is put on the wire exactly when a token is drawn for it.
LEMMA TokenPerRequest ==
  ASSUME TypeOK, [Next]_vars
  PROVE  \/ Pour /\ UNCHANGED sent
         \/ \E b \in Bucket : Draw(b, 1) /\ sent' = [sent EXCEPT ![b] = @ + 1]
         \/ UNCHANGED <<abstractVars, sent>>
  <1> DEFINE Goal == \/ Pour /\ UNCHANGED sent
                     \/ \E b \in Bucket : Draw(b, 1) /\ sent' = [sent EXCEPT ![b] = @ + 1]
                     \/ UNCHANGED <<abstractVars, sent>>
  <1>1. ASSUME NEW r \in Req, NEW b \in Bucket, NEW priv \in BOOLEAN, Attempt(r, b, priv)
        PROVE  Goal
    BY <1>1, AttemptSendsOrWaits
  <1>2. ASSUME NEW r \in Req PROVE bucket[r] \in Bucket /\ private[r] \in BOOLEAN
    BY DEF TypeOK
  <1>3. ASSUME NEW r \in Req, NEW b \in Bucket, NEW priv \in BOOLEAN, Request(r, b, priv)
        PROVE  Goal
    BY <1>1, <1>3 DEF Request
  <1>4. ASSUME NEW r \in Req, Admit(r) PROVE Goal
    BY <1>2, <1>4 DEF Admit, Send
  <1>5. ASSUME NEW r \in Req, Retry(r) PROVE Goal
    BY <1>1, <1>2, <1>5 DEF Retry
  <1>6. ASSUME NEW r \in Req, NEW resp \in Response, Answer(r, resp) PROVE Goal
    BY <1>6 DEF Answer
  <1>7. ASSUME NEW r \in Req, Cancel(r) PROVE Goal
    BY <1>7 DEF Cancel
  <1>8. CASE Refill
    BY <1>8 DEF Refill, clientVars
  <1>9. CASE UNCHANGED vars
    BY <1>9 DEF vars, clientVars
  <1> HIDE DEF Goal
  <1> QED BY <1>3, <1>4, <1>5, <1>6, <1>7, <1>8, <1>9 DEF Next, Goal

\* The throttling total stays, whoever may have read it ...
KeepsTotal ==
    /\ UNCHANGED <<throttled, waitTotal>>
    /\ \/ UNCHANGED loaded
       \/ \E r \in Req : loaded' = [loaded EXCEPT ![r] = throttled]
       \/ \E r \in Req : loaded' = [loaded EXCEPT ![r] = 0]

\* ... or grows by a wait, from what the caller read before it.
AddsWait ==
    \E r \in Req, w \in Nat :
        /\ throttled' = loaded[r] + w
        /\ waitTotal' = waitTotal + w
        /\ loaded' = [loaded EXCEPT ![r] = 0]

\* The throttling total changes only when acquire() returns to a caller that had to
\* wait.
LEMMA WaitIsAdded ==
  ASSUME TypeOK, [Next]_vars
  PROVE  KeepsTotal \/ AddsWait
  <1>1. ASSUME NEW r \in Req, NEW b \in Bucket, NEW priv \in BOOLEAN, Attempt(r, b, priv)
        PROVE  KeepsTotal
    BY <1>1, AttemptSendsOrWaits DEF KeepsTotal
  <1>2. ASSUME NEW r \in Req PROVE bucket[r] \in Bucket /\ private[r] \in BOOLEAN
    BY DEF TypeOK
  <1>3. ASSUME NEW r \in Req, NEW b \in Bucket, NEW priv \in BOOLEAN, Request(r, b, priv)
        PROVE  KeepsTotal
    BY <1>1, <1>3 DEF Request, waitVars, KeepsTotal
  <1>4. ASSUME NEW r \in Req, Admit(r) PROVE AddsWait
    <2>1. PICK w \in 0..(now - since[r]) :
            throttled' = loaded[r] + w /\ waitTotal' = waitTotal + w
      BY <1>4 DEF Admit
    <2>2. w \in Nat
      BY DEF TypeOK, LevelType
    <2> QED BY <1>4, <2>1, <2>2 DEF Admit, ForgetWait, AddsWait
  <1>5. ASSUME NEW r \in Req, Retry(r) PROVE KeepsTotal
    BY <1>1, <1>2, <1>5 DEF Retry
  <1>6. ASSUME NEW r \in Req, NEW resp \in Response, Answer(r, resp) PROVE KeepsTotal
    BY <1>6 DEF Answer, waitVars, KeepsTotal
  <1>7. ASSUME NEW r \in Req, Cancel(r) PROVE KeepsTotal
    BY <1>7 DEF Cancel, ForgetWait, KeepsTotal
  <1>8. CASE Refill
    BY <1>8 DEF Refill, clientVars, waitVars, KeepsTotal
  <1>9. CASE UNCHANGED vars
    BY <1>9 DEF vars, clientVars, waitVars, KeepsTotal
  <1> QED BY <1>3, <1>4, <1>5, <1>6, <1>7, <1>8, <1>9 DEF Next

--------------------------------------------------------------------------------
(* The retry loop *)

\* What request() can say of the attempts it has made.
Explained(a, res, signed) ==
    /\ \A i \in DOMAIN a : i < Len(a) => Retryable(a[i])
    /\ res.kind = "payload" => a # <<>> /\ Last(a) = 200
    /\ res.kind = "JSONDecodeError" => a # <<>> /\ Last(a) = NotJson
    /\ res.kind = "ConfigError" => a = <<>> /\ signed = NoStamp
    /\ res.kind = "RateLimitedError" => Len(a) = MaxRetries + 1 /\ Last(a) = 429
    /\ res.kind = "KalshiAPIError" =>
         \/ a # <<>> /\ Last(a) = res.status
         \/ Len(a) = MaxRetries + 1 /\ Last(a) \in {500, NoAnswer}

\* Inside the loop nothing is decided, all that was met was transient, and attempts
\* are left.
InLoop(r) ==
    /\ result[r] = Ended("none", 0)
    /\ \A i \in DOMAIN answers[r] : Retryable(answers[r][i])
    /\ Len(answers[r]) <= MaxRetries
    /\ pc[r] = "idle" => answers[r] = <<>> /\ stamp[r] = NoStamp

LoopInv ==
    /\ TypeOK
    /\ \A r \in Req : pc[r] # "done" => InLoop(r)
    /\ \A r \in Req : Explained(answers[r], result[r], stamp[r])

\* Whichever way an attempt is answered, the loop goes on only after a transient
\* failure with attempts left, and what it ends with is explained.
LEMMA OutcomeOfAttempt ==
  ASSUME NEW resp \in Response, NEW n \in 1..MaxRetries + 1
  PROVE  LET end == Outcome(resp, n) IN
         /\ end \in Result
         /\ end.kind = "none" => Retryable(resp) /\ n <= MaxRetries /\ end = Ended("none", 0)
         /\ end.kind = "payload" => resp = 200
         /\ end.kind = "JSONDecodeError" => resp = NotJson
         /\ end.kind # "ConfigError"
         /\ end.kind = "RateLimitedError" => n = MaxRetries + 1 /\ resp = 429
         /\ end.kind = "KalshiAPIError" =>
              resp = end.status \/ (n = MaxRetries + 1 /\ resp \in {500, NoAnswer})
  <1> USE MaxRetriesAssumption DEF Ended, Result, Retryable, NotJson, NoAnswer
  <1>1. CASE resp = 200
    <2>1. Outcome(resp, n) = Ended("payload", 0)
      BY <1>1 DEF Outcome, RetryableStatus, FatalStatus
    <2> QED BY <1>1, <2>1
  <1>2. CASE resp = NotJson
    <2>1. Outcome(resp, n) = Ended("JSONDecodeError", 0)
      BY <1>2 DEF Outcome, RetryableStatus, FatalStatus
    <2> QED BY <1>2, <2>1
  <1>3. CASE resp \in FatalStatus
    <2>1. Outcome(resp, n) = Ended("KalshiAPIError", resp) /\ resp = 404
      BY <1>3 DEF Outcome, RetryableStatus, FatalStatus
    <2> QED BY <2>1
  <1>4. CASE resp \in RetryableStatus \union {NoAnswer}
    <2>1. resp \in {429, 500, 0} /\ resp # 200 /\ resp # NotJson /\ resp \notin FatalStatus
      BY <1>4 DEF RetryableStatus, FatalStatus
    <2>2. CASE n <= MaxRetries
      <3>1. Outcome(resp, n) = Ended("none", 0)
        BY <1>4, <2>1, <2>2 DEF Outcome
      <3> QED BY <1>4, <2>2, <3>1
    <2>3. CASE n = MaxRetries + 1 /\ resp = 429
      <3>1. Outcome(resp, n) = Ended("RateLimitedError", 429)
        BY <1>4, <2>1, <2>3 DEF Outcome
      <3> QED BY <2>3, <3>1
    <2>4. CASE n = MaxRetries + 1 /\ resp # 429
      <3>1. Outcome(resp, n) = Ended("KalshiAPIError", 503)
        BY <1>4, <2>1, <2>4 DEF Outcome
      <3> QED BY <2>1, <2>4, <3>1
    <2> QED BY <2>2, <2>3, <2>4
  <1> QED BY <1>1, <1>2, <1>3, <1>4 DEF Response, FatalStatus

\* One more answer to a list of them.
LEMMA OneMoreAnswer ==
  ASSUME NEW a \in Seq(Response), NEW resp \in Response
  PROVE  LET b == Append(a, resp) IN
         /\ b \in Seq(Response) /\ b # <<>> /\ Len(b) = Len(a) + 1 /\ Last(b) = resp
         /\ Len(a) \in Nat /\ DOMAIN a = 1..Len(a) /\ DOMAIN b = 1..Len(a) + 1
         /\ \A i \in DOMAIN a : b[i] = a[i]
         /\ b[Len(a) + 1] = resp
  <1> DEFINE b == Append(a, resp)
  <1>1. /\ b \in Seq(Response) /\ Len(b) = Len(a) + 1
        /\ \A i \in 1..Len(a) : b[i] = a[i]
        /\ b[Len(a) + 1] = resp
    BY AppendProperties
  <1>2. /\ Len(a) \in Nat /\ DOMAIN a = 1..Len(a) /\ DOMAIN b = 1..Len(a) + 1
    BY <1>1
  <1> HIDE DEF b
  <1>3. Last(b) = resp
    BY <1>1 DEF Last
  <1>4. b # <<>>
    BY <1>1, <1>2
  <1> QED BY <1>1, <1>2, <1>3, <1>4 DEF b

\* A new client has explained everything.
LEMMA LoopInit == Init => LoopInv
  <1> SUFFICES ASSUME Init PROVE LoopInv
    OBVIOUS
  <1>1. (CHOOSE b \in Bucket : TRUE) \in Bucket
    BY BucketAssumption
  <1>2. LevelType
    BY BucketInit DEF Init, BucketInv
  <1>3. Ended("none", 0) \in Result /\ Ended("none", 0).kind = "none"
    BY DEF Ended, Result
  <1>4. <<>> \in Seq(Response) /\ Len(<<>>) = 0 /\ DOMAIN <<>> = {}
    OBVIOUS
  <1>5. TypeOK
    <2>1. ASSUME NEW r \in Req PROVE Len(answers[r]) <= MaxRetries + 1
      BY <1>4, MaxRetriesAssumption DEF Init
    <2> QED BY <1>1, <1>2, <1>3, <1>4, <2>1 DEF Init, TypeOK
  <1>6. ASSUME NEW r \in Req PROVE InLoop(r)
    BY <1>4, MaxRetriesAssumption DEF Init, InLoop
  <1>7. ASSUME NEW r \in Req PROVE Explained(answers[r], result[r], stamp[r])
    BY <1>3, <1>4 DEF Init, Explained
  <1> QED BY <1>5, <1>6, <1>7 DEF LoopInv

\* A step of one request leaves what is known of the others.
LEMMA OneRequestMoves ==
  ASSUME LoopInv, TypeOK', NEW r \in Req,
         \A q \in Req \ {r} : /\ pc'[q] = pc[q] /\ answers'[q] = answers[q]
                              /\ result'[q] = result[q] /\ stamp'[q] = stamp[q],
         pc'[r] # "done" => InLoop(r)',
         Explained(answers[r], result[r], stamp[r])'
  PROVE  LoopInv'
  <1>1. ASSUME NEW q \in Req, pc'[q] # "done" PROVE InLoop(q)'
    BY <1>1 DEF LoopInv, InLoop
  <1>2. ASSUME NEW q \in Req PROVE Explained(answers[q], result[q], stamp[q])'
    BY DEF LoopInv, Explained
  <1> QED BY <1>1, <1>2 DEF LoopInv

\* In the loop there is nothing yet to explain.
LEMMA NothingToExplain ==
  ASSUME NEW a, NEW signed, \A i \in DOMAIN a : Retryable(a[i])
  PROVE  Explained(a, Ended("none", 0), signed)
  BY DEF Explained, Ended

\* Whatever the clock and the buckets do, they keep their types.
LEMMA BucketsTyped ==
  ASSUME TypeOK, [Next]_vars
  PROVE  LevelType' /\ sent' \in [Bucket -> Nat]
  <1>1. CASE Pour /\ UNCHANGED sent
    <2>1. \A b \in Bucket : level'[b] \in Int
      BY <1>1, Parameters DEF Pour, AtMost, TypeOK, LevelType
    <2> QED BY <1>1, <2>1 DEF Pour, TypeOK, LevelType
  <1>2. ASSUME NEW b \in Bucket, Draw(b, 1), sent' = [sent EXCEPT ![b] = @ + 1]
        PROVE  LevelType' /\ sent' \in [Bucket -> Nat]
    BY <1>2 DEF Draw, TypeOK, LevelType
  <1>3. CASE UNCHANGED <<abstractVars, sent>>
    BY <1>3 DEF abstractVars, TypeOK, LevelType
  <1> QED BY <1>1, <1>2, <1>3, TokenPerRequest

\* So do the figures of the waiting.
LEMMA WaitsTyped ==
  ASSUME TypeOK, [Next]_vars
  PROVE  throttled' \in Nat /\ waitTotal' \in Nat /\ loaded' \in [Req -> Nat]
  <1>1. CASE KeepsTotal
    BY <1>1 DEF KeepsTotal, TypeOK
  <1>2. CASE AddsWait
    <2>1. PICK r \in Req, w \in Nat : /\ throttled' = loaded[r] + w
                                      /\ waitTotal' = waitTotal + w
                                      /\ loaded' = [loaded EXCEPT ![r] = 0]
      BY <1>2 DEF AddsWait
    <2>2. loaded[r] \in Nat /\ waitTotal \in Nat
      BY DEF TypeOK
    <2> QED BY <2>1, <2>2 DEF TypeOK
  <1> QED BY <1>1, <1>2, WaitIsAdded

\* An attempt keeps the loop's state: the request is sent or waits, nothing more.
LEMMA AttemptKeepsLoop ==
  ASSUME LoopInv, [Next]_vars, NEW r \in Req, NEW b \in Bucket, NEW priv \in BOOLEAN,
         Attempt(r, b, priv), pc[r] \in {"idle", "backoff"},
         private' \in [Req -> BOOLEAN], bucket' \in [Req -> Bucket],
         UNCHANGED <<signer, answers, result>>
  PROVE  LoopInv'
  <1>1. TypeOK /\ now \in Nat /\ InLoop(r)
    BY DEF LoopInv, TypeOK, LevelType
  <1>2. /\ pc' = [pc EXCEPT ![r] = "sending"] \/ pc' = [pc EXCEPT ![r] = "acquiring"]
        /\ stamp' = stamp \/ stamp' = [stamp EXCEPT ![r] = IF priv THEN now ELSE NoStamp]
        /\ since' = since \/ since' = [since EXCEPT ![r] = now]
    BY <1>1, AttemptSendsOrWaits
  <1>3. pc'[r] \in {"sending", "acquiring"}
    BY <1>1, <1>2 DEF TypeOK
  <1>4. TypeOK'
    <2>1. pc' \in [Req -> {"idle", "acquiring", "sending", "backoff", "done"}]
      BY <1>1, <1>2 DEF TypeOK
    <2>2. stamp' \in [Req -> Nat \union {NoStamp}]
      <3>1. (IF priv THEN now ELSE NoStamp) \in Nat \union {NoStamp}
        BY <1>1
      <3> QED BY <1>1, <1>2, <3>1 DEF TypeOK
    <2>3. since' \in [Req -> Nat]
      BY <1>1, <1>2 DEF TypeOK
    <2> QED BY <1>1, <2>1, <2>2, <2>3, BucketsTyped, WaitsTyped DEF TypeOK
  <1>5. InLoop(r)'
    BY <1>1, <1>3 DEF InLoop
  <1>6. Explained(answers[r], result[r], stamp[r])'
    BY <1>1, NothingToExplain DEF InLoop
  <1>7. \A q \in Req \ {r} : /\ pc'[q] = pc[q] /\ answers'[q] = answers[q]
                             /\ result'[q] = result[q] /\ stamp'[q] = stamp[q]
    BY <1>1, <1>2 DEF TypeOK
  <1> QED BY <1>4, <1>5, <1>6, <1>7, OneRequestMoves

\* The call starts the loop, or is refused for want of credentials.
LEMMA RequestKeepsLoop ==
  ASSUME LoopInv, [Next]_vars, NEW r \in Req, NEW b \in Bucket, NEW priv \in BOOLEAN,
         Request(r, b, priv)
  PROVE  LoopInv'
  <1>1. /\ TypeOK /\ pc[r] = "idle" /\ InLoop(r) /\ UNCHANGED <<signer, answers>>
        /\ private' = [private EXCEPT ![r] = priv] /\ bucket' = [bucket EXCEPT ![r] = b]
    BY DEF LoopInv, Request
  <1>2. private' \in [Req -> BOOLEAN] /\ bucket' \in [Req -> Bucket]
    BY <1>1 DEF TypeOK
  <1>3. CASE Attempt(r, b, priv) /\ UNCHANGED result
    BY <1>1, <1>2, <1>3, AttemptKeepsLoop
  <1>4. CASE /\ pc' = [pc EXCEPT ![r] = "done"]
             /\ result' = [result EXCEPT ![r] = Ended("ConfigError", 0)]
             /\ UNCHANGED <<waitVars, stamp>>
    <2>1. Ended("ConfigError", 0) \in Result
      BY DEF Ended, Result
    <2>2. TypeOK'
      BY <1>1, <1>2, <1>4, <2>1, BucketsTyped, WaitsTyped DEF TypeOK, waitVars
    <2>3. pc'[r] = "done" /\ result'[r] = Ended("ConfigError", 0)
      BY <1>1, <1>4 DEF TypeOK
    <2>4. Explained(answers[r], result[r], stamp[r])'
      BY <1>1, <1>4, <2>3 DEF InLoop, Explained, Ended
    <2>5. \A q \in Req \ {r} : /\ pc'[q] = pc[q] /\ answers'[q] = answers[q]
                               /\ result'[q] = result[q] /\ stamp'[q] = stamp[q]
      BY <1>1, <1>4 DEF TypeOK
    <2> QED BY <2>2, <2>3, <2>4, <2>5, OneRequestMoves
  <1> QED BY <1>3, <1>4 DEF Request

\* acquire() returns, and the request is signed and sent.
LEMMA AdmitKeepsLoop ==
  ASSUME LoopInv, [Next]_vars, NEW r \in Req, Admit(r)
  PROVE  LoopInv'
  <1>1. /\ TypeOK /\ now \in Nat /\ pc[r] = "acquiring" /\ InLoop(r)
        /\ UNCHANGED <<signer, private, bucket, answers, result>>
        /\ pc' = [pc EXCEPT ![r] = "sending"]
        /\ stamp' = [stamp EXCEPT ![r] = IF private[r] THEN now ELSE NoStamp]
        /\ since' = [since EXCEPT ![r] = 0]
    BY DEF LoopInv, TypeOK, LevelType, Admit, Send, ForgetWait, callVars
  <1>2. pc'[r] = "sending"
    BY <1>1 DEF TypeOK
  <1>3. TypeOK'
    BY <1>1, BucketsTyped, WaitsTyped DEF TypeOK
  <1>4. InLoop(r)'
    BY <1>1, <1>2 DEF InLoop
  <1>5. Explained(answers[r], result[r], stamp[r])'
    BY <1>1, NothingToExplain DEF InLoop
  <1>6. \A q \in Req \ {r} : /\ pc'[q] = pc[q] /\ answers'[q] = answers[q]
                             /\ result'[q] = result[q] /\ stamp'[q] = stamp[q]
    BY <1>1 DEF TypeOK
  <1> QED BY <1>3, <1>4, <1>5, <1>6, OneRequestMoves

\* An answer either ends the loop with its explanation, or was transient and leaves
\* an attempt.
LEMMA AnswerKeepsLoop ==
  ASSUME LoopInv, [Next]_vars, NEW r \in Req, NEW resp \in Response, Answer(r, resp)
  PROVE  LoopInv'
  <1> DEFINE a == answers[r]
             end == Outcome(resp, Len(a) + 1)
  <1>1. /\ TypeOK /\ pc[r] = "sending" /\ InLoop(r) /\ a \in Seq(Response)
        /\ answers' = [answers EXCEPT ![r] = Append(a, resp)]
        /\ result' = [result EXCEPT ![r] = end]
        /\ pc' = [pc EXCEPT ![r] = IF end.kind = "none" THEN "backoff" ELSE "done"]
        /\ UNCHANGED <<signer, private, bucket, since, stamp>>
    BY DEF LoopInv, TypeOK, Answer, callVars, waitVars
  <1>2. Len(a) \in Nat /\ Len(a) + 1 \in 1..MaxRetries + 1
    BY <1>1, MaxRetriesAssumption DEF InLoop
  <1>3. /\ answers'[r] = Append(a, resp) /\ result'[r] = end /\ stamp'[r] = stamp[r]
        /\ pc'[r] = IF end.kind = "none" THEN "backoff" ELSE "done"
    BY <1>1 DEF TypeOK
  <1>4. end \in Result
    BY <1>2, OutcomeOfAttempt
  <1>5. Append(a, resp) \in Seq(Response) /\ Len(Append(a, resp)) = Len(a) + 1
    BY <1>1, OneMoreAnswer
  <1>6. TypeOK'
    <2>1. \A q \in Req : Len(answers'[q]) <= MaxRetries + 1
      BY <1>1, <1>2, <1>5, MaxRetriesAssumption DEF TypeOK
    <2> QED BY <1>1, <1>4, <1>5, <2>1, BucketsTyped, WaitsTyped DEF TypeOK
  <1>7. \A q \in Req \ {r} : /\ pc'[q] = pc[q] /\ answers'[q] = answers[q]
                             /\ result'[q] = result[q] /\ stamp'[q] = stamp[q]
    BY <1>1 DEF TypeOK
  <1>8. \A i \in DOMAIN Append(a, resp) :
          \/ Retryable(Append(a, resp)[i])
          \/ i = Len(a) + 1 /\ Append(a, resp)[i] = resp
    BY <1>1, OneMoreAnswer DEF InLoop
  <1>9. pc'[r] # "done" => InLoop(r)'
    <2> SUFFICES ASSUME pc'[r] # "done" PROVE InLoop(r)'
      OBVIOUS
    <2>1. end.kind = "none" /\ pc'[r] = "backoff"
      BY <1>3
    <2>2. Retryable(resp) /\ Len(a) + 1 <= MaxRetries /\ end = Ended("none", 0)
      BY <1>2, <2>1, OutcomeOfAttempt
    <2> QED BY <1>3, <1>5, <1>8, <2>1, <2>2 DEF InLoop
  <1>10. Explained(answers[r], result[r], stamp[r])'
    <2> DEFINE b == Append(a, resp)
    <2>1. \A i \in DOMAIN b : i < Len(b) => Retryable(b[i])
      <3>1. \A i \in DOMAIN b : i < Len(b) => i # Len(a) + 1
        BY <1>2, <1>5
      <3> QED BY <1>8, <3>1
    <2>2. b # <<>> /\ Last(b) = resp /\ Len(b) = Len(a) + 1
      BY <1>1, OneMoreAnswer
    <2>3. /\ end.kind = "payload" => resp = 200
          /\ end.kind = "JSONDecodeError" => resp = NotJson
          /\ end.kind # "ConfigError"
          /\ end.kind = "RateLimitedError" => Len(a) + 1 = MaxRetries + 1 /\ resp = 429
          /\ end.kind = "KalshiAPIError" =>
               resp = end.status \/ (Len(a) + 1 = MaxRetries + 1 /\ resp \in {500, NoAnswer})
      BY <1>2, OutcomeOfAttempt
    <2> HIDE DEF a, b, end
    <2>4. Explained(b, end, stamp[r])
      BY <2>1, <2>2, <2>3 DEF Explained
    <2> QED BY <1>3, <2>4 DEF Explained, b
  <1> QED BY <1>6, <1>7, <1>9, <1>10, OneRequestMoves

\* The next attempt.
LEMMA RetryKeepsLoop ==
  ASSUME LoopInv, [Next]_vars, NEW r \in Req, Retry(r)
  PROVE  LoopInv'
  <1>1. /\ private \in [Req -> BOOLEAN] /\ bucket \in [Req -> Bucket]
        /\ UNCHANGED <<signer, private, bucket, answers, result>>
        /\ pc[r] \in {"idle", "backoff"} /\ Attempt(r, bucket[r], private[r])
    BY DEF LoopInv, TypeOK, Retry, callVars
  <1> QED BY <1>1, AttemptKeepsLoop

\* A cancelled request is abandoned where it was.
LEMMA CancelKeepsLoop ==
  ASSUME LoopInv, [Next]_vars, NEW r \in Req, Cancel(r)
  PROVE  LoopInv'
  <1>1. /\ TypeOK /\ InLoop(r)
        /\ UNCHANGED <<signer, private, bucket, answers, stamp>>
        /\ pc' = [pc EXCEPT ![r] = "done"]
        /\ result' = [result EXCEPT ![r] = Ended("cancelled", 0)]
        /\ since' = [since EXCEPT ![r] = 0]
    BY DEF LoopInv, Cancel, ForgetWait, callVars
  <1>2. Ended("cancelled", 0) \in Result
    BY DEF Ended, Result
  <1>3. TypeOK'
    BY <1>1, <1>2, BucketsTyped, WaitsTyped DEF TypeOK
  <1>4. pc'[r] = "done" /\ result'[r] = Ended("cancelled", 0)
    BY <1>1 DEF TypeOK
  <1>5. Explained(answers[r], result[r], stamp[r])'
    BY <1>1, <1>4 DEF InLoop, Explained, Ended
  <1>6. \A q \in Req \ {r} : /\ pc'[q] = pc[q] /\ answers'[q] = answers[q]
                             /\ result'[q] = result[q] /\ stamp'[q] = stamp[q]
    BY <1>1 DEF TypeOK
  <1> QED BY <1>3, <1>4, <1>5, <1>6, OneRequestMoves

LEMMA LoopStep == LoopInv /\ [Next]_vars => LoopInv'
  <1> SUFFICES ASSUME LoopInv, [Next]_vars PROVE LoopInv'
    OBVIOUS
  <1>1. CASE UNCHANGED <<signer, callVars, since, pc, stamp, answers, result>>
    <2>1. TypeOK'
      BY <1>1, BucketsTyped, WaitsTyped DEF LoopInv, TypeOK, callVars
    <2> QED BY <1>1, <2>1 DEF LoopInv, InLoop, Explained
  <1>2. Refill \/ UNCHANGED vars => UNCHANGED <<signer, callVars, since, pc, stamp, answers, result>>
    BY DEF Refill, vars, clientVars, waitVars
  <1> QED BY <1>1, <1>2, RequestKeepsLoop, AdmitKeepsLoop, AnswerKeepsLoop, RetryKeepsLoop,
             CancelKeepsLoop DEF Next

LEMMA LoopInvariant == Spec => []LoopInv
  BY LoopInit, LoopStep, PTL DEF Spec

\* Every variable keeps its type; in particular no request makes more than
\* max_retries + 1 attempts (client.py:142).
THEOREM RequestTyped == Spec => []TypeOK
  <1>1. LoopInv => TypeOK
    BY DEF LoopInv
  <1> QED BY <1>1, LoopInvariant, PTL

\* What request() returns or raises is what its attempts met, whatever the server
\* answers and wherever it is cancelled (client.py:141-166).
THEOREM OutcomesAreExplained == Spec => []OutcomeExplained
  <1>1. LoopInv => OutcomeExplained
    BY DEF LoopInv, Explained, OutcomeExplained
  <1> QED BY <1>1, LoopInvariant, PTL

--------------------------------------------------------------------------------
(* The budget, the throttling total and the signature *)

\* Each bucket is drawn on once for every request that was sent from it.
PaidInv == TypeOK /\ BucketInv /\ sent = spent

LEMMA PaidInit == Init => PaidInv
  <1> SUFFICES ASSUME Init PROVE PaidInv
    OBVIOUS
  <1>1. TypeOK
    BY LoopInit DEF LoopInv
  <1>2. BucketInv /\ sent = spent
    BY BucketInit DEF Init, AbstractInit
  <1> QED BY <1>1, <1>2 DEF PaidInv

LEMMA PaidStep == PaidInv /\ TypeOK' /\ [Next]_vars => PaidInv'
  <1> SUFFICES ASSUME PaidInv, TypeOK', [Next]_vars PROVE PaidInv'
    OBVIOUS
  <1>1. CASE Pour /\ UNCHANGED sent
    BY <1>1, PourKeepsInv DEF PaidInv, Pour
  <1>2. ASSUME NEW b \in Bucket, Draw(b, 1), sent' = [sent EXCEPT ![b] = @ + 1]
        PROVE  PaidInv'
    <2>1. 1 \in 1..Capacity[b]
      BY Parameters
    <2>2. BucketInv'
      BY <1>2, <2>1, DrawKeepsInv DEF PaidInv
    <2> QED BY <1>2, <2>2 DEF PaidInv, Draw
  <1>3. CASE UNCHANGED <<abstractVars, sent>>
    BY <1>3 DEF PaidInv, abstractVars, BucketInv, LevelType, Bounded, Budget
  <1> QED BY <1>1, <1>2, <1>3, TokenPerRequest DEF PaidInv

\* Retries included, the client never exceeds the budget of a bucket, for any number
\* of concurrent requests, rate, burst and retry limit (client.py:142-164).
THEOREM BudgetIsKept == Spec => []RequestBudget
  <1>1. PaidInv => RequestBudget
    <2> SUFFICES ASSUME PaidInv, NEW b \in Bucket
                 PROVE  sent[b] <= Capacity[b] + Rate[b] * now
      BY DEF RequestBudget
    <2>1. /\ sent[b] = spent[b] /\ spent[b] + level[b] <= Capacity[b] + Rate[b] * now
          /\ level[b] \in 0..Capacity[b] /\ spent[b] \in Nat
      BY DEF PaidInv, BucketInv, LevelType, Bounded, Budget
    <2>2. Rate[b] * now \in Nat /\ Capacity[b] \in Nat
      <3>1. now \in Nat /\ Rate[b] \in Nat
        BY Parameters DEF PaidInv, BucketInv, LevelType
      <3> QED BY <3>1, OneMoreTick, Parameters
    <2> QED BY <2>1, <2>2
  <1> QED BY <1>1, RequestTyped, PaidInit, PaidStep, PTL DEF Spec

\* No reading of the total is ahead of the waiting there was.
WaitInv ==
    /\ TypeOK
    /\ throttled <= waitTotal
    /\ \A r \in Req : loaded[r] <= waitTotal

LEMMA WaitStep == WaitInv /\ TypeOK' /\ [Next]_vars => WaitInv'
  <1> SUFFICES ASSUME WaitInv, TypeOK', [Next]_vars PROVE WaitInv'
    OBVIOUS
  <1>1. /\ throttled \in Nat /\ waitTotal \in Nat /\ loaded \in [Req -> Nat]
        /\ throttled <= waitTotal /\ \A r \in Req : loaded[r] <= waitTotal
    BY DEF WaitInv, TypeOK
  <1>2. CASE KeepsTotal
    <2>1. ASSUME NEW q \in Req PROVE loaded'[q] <= waitTotal'
      BY <1>1, <1>2 DEF KeepsTotal
    <2> QED BY <1>1, <1>2, <2>1 DEF WaitInv, KeepsTotal
  <1>3. CASE AddsWait
    <2>1. PICK r \in Req, w \in Nat : /\ throttled' = loaded[r] + w
                                      /\ waitTotal' = waitTotal + w
                                      /\ loaded' = [loaded EXCEPT ![r] = 0]
      BY <1>3 DEF AddsWait
    <2>2. throttled' <= waitTotal'
      BY <1>1, <2>1
    <2>3. ASSUME NEW q \in Req PROVE loaded'[q] <= waitTotal'
      <3>1. loaded'[q] \in {0, loaded[q]}
        BY <1>1, <2>1
      <3> QED BY <1>1, <2>1, <3>1
    <2> QED BY <2>2, <2>3 DEF WaitInv
  <1> QED BY <1>2, <1>3, WaitIsAdded DEF WaitInv

\* Coroutines that read the throttling total, wait, and write it back may lose one
\* another's waits, but never invent any (client.py:143).
THEOREM NeverOverstated == Spec => []ThrottledNeverOverstates
  <1>1. Init => WaitInv
    <2> SUFFICES ASSUME Init PROVE WaitInv
      OBVIOUS
    <2>1. TypeOK
      BY LoopInit DEF LoopInv
    <2> QED BY <2>1 DEF Init, WaitInv
  <1>2. WaitInv => ThrottledNeverOverstates
    BY DEF WaitInv, ThrottledNeverOverstates
  <1> QED BY <1>1, <1>2, RequestTyped, WaitStep, PTL DEF Spec

\* A request becomes "on the wire" only with the signature of that instant.
LEMMA SendSigns ==
  ASSUME TypeOK, Next, NEW r \in Req, pc'[r] = "sending", pc[r] # "sending"
  PROVE  stamp'[r] = IF private'[r] THEN now ELSE NoStamp
  <1> DEFINE Signed == stamp'[r] = IF private'[r] THEN now ELSE NoStamp
  <1>1. ASSUME NEW q \in Req, NEW b \in Bucket, NEW priv \in BOOLEAN,
               Attempt(q, b, priv), private'[q] = priv
        PROVE  Signed
    <2>1. q = r
      BY <1>1, AttemptSendsOrWaits DEF TypeOK
    <2>2. pc'[q] = "sending" => stamp' = [stamp EXCEPT ![q] = IF priv THEN now ELSE NoStamp]
      BY <1>1, AttemptSendsOrWaits DEF TypeOK
    <2> QED BY <1>1, <2>1, <2>2 DEF TypeOK
  <1>2. ASSUME NEW q \in Req, NEW b \in Bucket, NEW priv \in BOOLEAN, Request(q, b, priv)
        PROVE  Signed
    <2>1. private'[q] = priv
      BY <1>2 DEF Request, TypeOK
    <2>2. CASE Attempt(q, b, priv)
      BY <1>1, <2>1, <2>2
    <2>3. CASE pc' = [pc EXCEPT ![q] = "done"]
      BY <2>3 DEF TypeOK
    <2> QED BY <1>2, <2>2, <2>3 DEF Request
  <1>3. ASSUME NEW q \in Req, Admit(q) PROVE Signed
    <2>1. /\ pc' = [pc EXCEPT ![q] = "sending"] /\ private' = private
          /\ stamp' = [stamp EXCEPT ![q] = IF private[q] THEN now ELSE NoStamp]
      BY <1>3 DEF Admit, Send, callVars
    <2>2. q = r
      BY <2>1 DEF TypeOK
    <2> QED BY <2>1, <2>2 DEF TypeOK
  <1>4. ASSUME NEW q \in Req, Retry(q) PROVE Signed
    BY <1>1, <1>4 DEF Retry, callVars, TypeOK
  <1>5. ASSUME NEW q \in Req, NEW resp \in Response, Answer(q, resp) PROVE FALSE
    BY <1>5 DEF Answer, TypeOK
  <1>6. ASSUME NEW q \in Req, Cancel(q) PROVE FALSE
    BY <1>6 DEF Cancel, TypeOK
  <1>7. CASE Refill
    BY <1>7 DEF Refill, clientVars
  <1> QED BY <1>2, <1>3, <1>4, <1>5, <1>6, <1>7 DEF Next

\* Every attempt of a private request is signed as it is sent, after the limiter's
\* wait and afresh for each retry; a public one never is (client.py:143-147).
THEOREM SignedWhenSent == Spec => SignsWhenSent
  <1> DEFINE Signs == \A r \in Req : pc'[r] = "sending" /\ pc[r] # "sending" =>
                        stamp'[r] = IF private'[r] THEN now ELSE NoStamp
  <1>1. TypeOK /\ [Next]_vars => [Signs]_vars
    BY SendSigns
  <1> QED BY <1>1, RequestTyped, PTL DEF Spec, SignsWhenSent

================================================================================
