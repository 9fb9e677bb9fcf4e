--------------------------- MODULE Forward_proofs ---------------------------
(***************************************************************************)
(* Proofs about Forward, for any number of requests, any retry settings    *)
(* and any set of upstream replies.                                        *)
(***************************************************************************)
EXTENDS Forward, TLAPS

\* Which request may use which of the four extra retries.
FlagsFit(r) ==
  /\ shape[r] # "pending" => semanticRetries[r] = 0
  /\ semanticRetries[r] <= HollowMax
  /\ shape[r] # "adapted" => ~imageRetried[r] /\ streamPrimeRetries[r] = 0
  /\ shape[r] \notin {"adapted", "messages"} => ~thinkingRetried[r]

Untouched(r) ==
  /\ semanticRetries[r] = 0 /\ streamPrimeRetries[r] = 0
  /\ ~imageRetried[r] /\ ~thinkingRetried[r]
  /\ calls[r] = 0 /\ answers[r] = 0 /\ attempt[r] = 0

\* Attempts of earlier rounds of the inner loop, and of this one.
Spent(r) == (IF semanticRetries[r] = 0 THEN 0 ELSE MaxAttempts) + attempt[r]

\* Before a call is made the attempt it belongs to is already counted.
CallsCounted(r) ==
  /\ calls[r] <= Spent(r)
  /\ pc[r] \in {"gate", "backoff"} => calls[r] < Spent(r)

OneAnswer(r) ==
  answers[r] = IF pc[r] \in {"stream", "finished"} THEN 1 ELSE 0

\* Without a reply in hand there is no status of one, and the response starts with
\* the status of the reply.
StatusTracked(r) ==
  /\ pc[r] \in {"idle", "gate", "send", "backoff"} => reply[r].status # 200
  /\ pc[r] = "stream" => resStatus[r] = reply[r].status

IInv ==
  /\ TypeOK
  /\ AttemptsBounded
  /\ HonestStatus
  /\ owed <= cooling
  /\ \A r \in Requests :
       /\ FlagsFit(r)
       /\ CallsCounted(r)
       /\ OneAnswer(r)
       /\ StatusTracked(r)
       /\ pc[r] = "idle" => Untouched(r)

LEMMA InitIInv == Init => IInv
BY ForwardAssumption DEF Init, IInv, TypeOK, AttemptsBounded, HonestStatus, FlagsFit,
   CallsCounted, OneAnswer, StatusTracked, Untouched, Spent, Extras, One, Reply, NoReply,
   Streams, AllShapes, Working, Ended

\* Delays computed from the settings and a Retry-After are natural numbers.
LEMMA RetryAfterType ==
  ASSUME NEW ra \in Nat, NEW n \in Nat PROVE RetryAfterMs(ra, n) \in Nat
<1>1. RetryStepDelay * n \in Nat
  BY ForwardAssumption
<1>2. QED BY <1>1, ForwardAssumption DEF RetryAfterMs, Later, Sooner

LEMMA NoReplyType == NoReply \in Reply
BY DEF NoReply, Reply, Streams

-----------------------------------------------------------------------------
(* Type correctness *)

LEMMA NextTypeOK == TypeOK /\ [Next]_vars => TypeOK'
<1> SUFFICES ASSUME TypeOK, [Next]_vars PROVE TypeOK'
  OBVIOUS
<1> USE ForwardAssumption, NoReplyType DEF TypeOK, Goto, Working, Ended, retryFlags,
        client, gate
<1>1. ASSUME NEW r \in Requests, Receive(r) PROVE TypeOK'
  BY <1>1 DEF Receive
<1>2. ASSUME NEW r \in Requests, Refuse(r) PROVE TypeOK'
  BY <1>2 DEF Refuse
<1>3. ASSUME NEW r \in Requests, ClientLeaves(r) PROVE TypeOK'
  BY <1>3 DEF ClientLeaves
<1>4. ASSUME NEW r \in Requests, Step(r) PROVE TypeOK'
  <2>1. CASE PassGate(r)
    BY <2>1 DEF PassGate
  <2>2. CASE StatusRetry(r)
    <3> DEFINE wait == RetryAfterMs(reply[r].retryAfter, attempt[r])
    <3>1. wait \in Nat
      BY RetryAfterType DEF Reply
    <3> HIDE DEF wait
    <3>2. NoteRateLimit(r, wait) /\ SleepFor(r, "reply", wait) /\ NextAttempt(r)
      BY <2>2 DEF StatusRetry, wait
    <3>3. cooling' \in Nat /\ owed' \in Nat
      BY <3>1, <3>2 DEF NoteRateLimit, Extended, Later
    <3>4. QED BY <2>2, <3>1, <3>2, <3>3 DEF StatusRetry, SleepFor, NextAttempt
  <2>3. CASE FallThrough(r)
    <3> DEFINE wait == RetryAfterMs(reply[r].retryAfter, attempt[r])
    <3>1. wait \in Nat
      BY RetryAfterType DEF Reply
    <3> HIDE DEF wait
    <3>2. NoteRateLimit(r, wait)
      BY <2>3 DEF FallThrough, wait
    <3>3. cooling' \in Nat /\ owed' \in Nat
      BY <3>1, <3>2 DEF NoteRateLimit, Extended, Later
    <3>4. QED BY <2>3, <3>3 DEF FallThrough
  <2>4. CASE OmitImages(r)
    BY <2>4 DEF OmitImages, NextAttempt
  <2>5. CASE RectifyThinking(r)
    BY <2>5 DEF RectifyThinking, NextAttempt
  <2>6. CASE KeepReply(r)
    BY <2>6 DEF KeepReply
  <2>7. CASE SemanticRetry(r)
    <3> DEFINE n == semanticRetries[r] + 1
    <3>0. n \in Nat /\ 0 \in Nat
      OBVIOUS
    <3> HIDE DEF n
    <3>1. RetryAfterMs(0, n) \in Nat
      BY <3>0, RetryAfterType
    <3>2. semanticRetries[r] < HollowMax
      BY <2>7 DEF SemanticRetry, Buffering
    <3>3. semanticRetries[r] + 1 \in 0 .. 1
      BY <3>2
    <3>4. QED BY <2>7, <3>1, <3>3 DEF SemanticRetry, SleepFor, n
  <2>8. CASE PrimeRetry(r)
    <3> DEFINE n == streamPrimeRetries[r] + 1
    <3>0. n \in Nat /\ 0 \in Nat
      OBVIOUS
    <3> HIDE DEF n
    <3>1. RetryAfterMs(0, n) \in Nat
      BY <3>0, RetryAfterType
    <3>2. streamPrimeRetries[r] < 1
      BY <2>8 DEF PrimeRetry, Priming, MaxStreamPrimeRetries
    <3>3. streamPrimeRetries[r] + 1 \in 0 .. 1
      BY <3>2
    <3>4. QED BY <2>8, <3>1, <3>3 DEF PrimeRetry, SleepFor, NextAttempt, n
  <2>9. ASSUME NEW s \in Streams, StartRelay(r, s), reasonTruncated' \in [Requests -> BOOLEAN]
        PROVE TypeOK'
    <3>1. [reply EXCEPT ![r].stream = s] \in [Requests -> Reply]
      BY DEF Reply
    <3>2. reply[r].status \in Nat
      BY DEF Reply
    <3>3. QED BY <2>9, <3>1, <3>2 DEF StartRelay
  <2>10. AsRead(r) \subseteq Streams
    BY DEF AsRead, Reply, Streams
  <2>11. CASE DeliverBuffered(r)
    BY <2>9, <2>10, <2>11 DEF DeliverBuffered
  <2>12. CASE DeliverPrimed(r)
    BY <2>9, <2>10, <2>12 DEF DeliverPrimed
  <2>13. CASE DeliverDirect(r)
    BY <2>9, <2>13 DEF DeliverDirect, Reply
  <2>14. CASE Wake(r)
    BY <2>14 DEF Wake
  <2>15. CASE Quit(r)
    BY <2>15 DEF Quit
  <2>16. QED BY <1>4, <2>1, <2>2, <2>3, <2>4, <2>5, <2>6, <2>7, <2>8, <2>11, <2>12,
                <2>13, <2>14, <2>15 DEF Step
<1>5. ASSUME NEW r \in Requests, Upstream(r) PROVE TypeOK'
  <2>1. CASE ReplyArrives(r)
    BY <2>1 DEF ReplyArrives
  <2>2. CASE FetchRetry(r)
    <3> DEFINE n == attempt[r]
    <3>0. n \in Nat /\ 0 \in Nat
      OBVIOUS
    <3> HIDE DEF n
    <3>1. RetryAfterMs(0, n) \in Nat
      BY <3>0, RetryAfterType
    <3>2. QED BY <2>2, <3>1 DEF FetchRetry, SleepFor, NextAttempt, n
  <2>3. CASE FetchExhausted(r)
    BY <2>3 DEF FetchExhausted
  <2>4. CASE StreamEnds(r)
    BY <2>4 DEF StreamEnds
  <2>5. QED BY <1>5, <2>1, <2>2, <2>3, <2>4 DEF Upstream
<1>6. CASE Tick
  BY <1>6 DEF Tick, LessOne
<1>7. CASE UNCHANGED vars
  BY <1>7 DEF vars
<1>8. QED BY <1>1, <1>2, <1>3, <1>4, <1>5, <1>6, <1>7 DEF Next

-----------------------------------------------------------------------------
(* The inductive invariant *)

\* What HonestStatus says of one request that has finished.
HonestOf(r) ==
  /\ resStatus[r] = 200 /\ Broken(r) => Unnoticed(r)
  /\ resStatus[r] = 503 /\ reply[r].status = 200 /\ ~cancelled[r] =>
       Broken(r) \/ reply[r].stream = "failed"

\* What the invariant says of one request.
Sound(r) ==
  /\ attempt[r] <= MaxAttempts + Extras(r)
  /\ FlagsFit(r)
  /\ CallsCounted(r)
  /\ OneAnswer(r)
  /\ StatusTracked(r)
  /\ pc[r] = "idle" => Untouched(r)
  /\ pc[r] = "finished" => HonestOf(r)

LEMMA InvariantByRequest ==
  IInv <=> TypeOK /\ owed <= cooling /\ \A r \in Requests : Sound(r)
BY DEF IInv, Sound, AttemptsBounded, HonestStatus, HonestOf

\* A request whose own variables do not change stays sound.
LEMMA UntouchedStaysSound ==
  ASSUME TypeOK, NEW r \in Requests, Sound(r),
         pc'[r] = pc[r], shape'[r] = shape[r], attempt'[r] = attempt[r],
         calls'[r] = calls[r], semanticRetries'[r] = semanticRetries[r],
         imageRetried'[r] = imageRetried[r], thinkingRetried'[r] = thinkingRetried[r],
         streamPrimeRetries'[r] = streamPrimeRetries[r],
         reasonTruncated'[r] = reasonTruncated[r], reply'[r] = reply[r],
         answers'[r] = answers[r], resStatus'[r] = resStatus[r],
         cancelled[r] => cancelled'[r]
  PROVE  Sound(r)'
BY DEF Sound, FlagsFit, CallsCounted, OneAnswer, Untouched, Extras, One, Spent,
   StatusTracked, HonestOf, Broken, Unnoticed

\* The request that takes a step stays sound.
LEMMA StepSound ==
  ASSUME TypeOK, NEW r \in Requests, Sound(r), Step(r) \/ Upstream(r)
  PROVE  Sound(r)'
<1> USE ForwardAssumption DEF TypeOK, Goto, Working, Ended, retryFlags, client, gate,
        Sound, FlagsFit, CallsCounted, OneAnswer, Untouched, Extras, One, Spent,
        StatusTracked
<1>0. NoReply \in Reply /\ NoReply.status # 200
  BY NoReplyType DEF NoReply
<1> USE <1>0
<1>1. CASE PassGate(r)
  BY <1>1 DEF PassGate
<1>2. CASE StatusRetry(r)
  <2>1. attempt[r] < MaxAttempts /\ pc[r] = "reply" /\ pc'[r] \in {"gate", "backoff"}
    BY <1>2 DEF StatusRetry, SleepFor
  <2>2. QED BY <1>2, <2>1 DEF StatusRetry, NextAttempt
<1>3. CASE FallThrough(r)
  BY <1>3 DEF FallThrough
<1>4. CASE OmitImages(r)
  BY <1>4 DEF OmitImages, NextAttempt, ImageComplaint
<1>5. CASE RectifyThinking(r)
  BY <1>5 DEF RectifyThinking, NextAttempt, ThinkingComplaint, ImageComplaint
<1>6. CASE KeepReply(r)
  BY <1>6 DEF KeepReply, ThinkingComplaint, ImageComplaint
<1>7. CASE SemanticRetry(r)
  <2>1. /\ pc[r] = "accept" /\ pc'[r] \in {"gate", "backoff"}
        /\ shape[r] = "pending" /\ semanticRetries[r] < HollowMax
        /\ semanticRetries' = [semanticRetries EXCEPT ![r] = @ + 1]
    BY <1>7 DEF SemanticRetry, SleepFor, Buffering
  <2>2. semanticRetries[r] = 0 /\ semanticRetries'[r] = 1 /\ HollowMax = 1
    BY <2>1
  <2>3. calls[r] <= MaxAttempts
    BY <2>1, <2>2
  <2>4. QED BY <1>7, <2>1, <2>2, <2>3 DEF SemanticRetry
<1>8. CASE PrimeRetry(r)
  <2>1. /\ pc[r] = "accept" /\ pc'[r] \in {"gate", "backoff"}
        /\ shape[r] = "adapted" /\ streamPrimeRetries[r] = 0
        /\ streamPrimeRetries'[r] = 1
    BY <1>8 DEF PrimeRetry, SleepFor, Priming, MaxStreamPrimeRetries
  <2>2. QED BY <1>8, <2>1 DEF PrimeRetry, NextAttempt
<1>9. ASSUME NEW s \in Streams, StartRelay(r, s) PROVE Sound(r)'
  BY <1>9 DEF StartRelay
<1>10. AsRead(r) \subseteq Streams
  BY DEF AsRead, Reply, Streams
<1>11. CASE DeliverBuffered(r)
  BY <1>9, <1>10, <1>11 DEF DeliverBuffered
<1>12. CASE DeliverPrimed(r)
  BY <1>9, <1>10, <1>12 DEF DeliverPrimed
<1>13. CASE DeliverDirect(r)
  BY <1>9, <1>13 DEF DeliverDirect, Reply
<1>14. CASE Wake(r)
  BY <1>14 DEF Wake
<1>15. CASE Quit(r)
  BY <1>15 DEF Quit
<1>16. CASE ReplyArrives(r)
  BY <1>16 DEF ReplyArrives
<1>17. CASE FetchRetry(r)
  <2>1. attempt[r] < MaxAttempts /\ pc[r] = "send" /\ pc'[r] \in {"gate", "backoff"}
    BY <1>17 DEF FetchRetry, SleepFor
  <2>2. QED BY <1>17, <2>1 DEF FetchRetry, NextAttempt
<1>18. CASE FetchExhausted(r)
  BY <1>18 DEF FetchExhausted, HonestOf
<1>19. CASE StreamEnds(r)
  <2>1. PICK truncated \in Truncations(r) :
          resStatus' = [resStatus EXCEPT ![r] =
            IF truncated \/ reasonTruncated[r] \/ reply[r].stream \in SoftErrors
              THEN 503 ELSE @]
    BY <1>19 DEF StreamEnds
  <2>2. /\ resStatus[r] = reply[r].status /\ resStatus[r] \in Nat
        /\ reply[r].stream \in Streams
    BY <1>19 DEF StreamEnds, Reply
  <2>3. Broken(r) /\ ~Unnoticed(r) => resStatus'[r] = 503
    <3> SUFFICES ASSUME Broken(r), ~Unnoticed(r) PROVE resStatus'[r] = 503
      OBVIOUS
    <3>1. CASE reply[r].stream \in {"dead", "cut", "mentioned"}
      <4>1. Truncations(r) = {TRUE}
        BY <3>1 DEF Truncations, Streamed, Unnoticed
      <4>2. QED BY <2>1, <4>1
    <3>2. CASE reasonTruncated[r] \/ reply[r].stream \in SoftErrors
      BY <2>1, <3>2
    <3>3. QED BY <3>1, <3>2 DEF Broken, Unnoticed
  <2>4. ~Broken(r) /\ reply[r].stream # "failed" /\ ~cancelled[r] =>
          resStatus'[r] = reply[r].status
    <3> SUFFICES ASSUME ~Broken(r), reply[r].stream # "failed", ~cancelled[r]
                 PROVE  resStatus'[r] = reply[r].status
      OBVIOUS
    <3>1. Truncations(r) = {FALSE}
      BY DEF Truncations, Broken
    <3>2. QED BY <2>1, <2>2, <3>1 DEF Broken
  <2>5. HonestOf(r)'
    <3>1. /\ (Broken(r))' <=> Broken(r)
          /\ (Unnoticed(r))' <=> Unnoticed(r)
          /\ reply' = reply /\ cancelled' = cancelled
      BY <1>19 DEF StreamEnds, Broken, Unnoticed
    <3>2. QED BY <2>3, <2>4, <3>1 DEF HonestOf
  <2>6. QED BY <1>19, <2>5 DEF StreamEnds
<1>20. QED BY <1>1, <1>2, <1>3, <1>4, <1>5, <1>6, <1>7, <1>8, <1>11, <1>12, <1>13,
              <1>14, <1>15, <1>16, <1>17, <1>18, <1>19 DEF Step, Upstream

LEMMA NextIInv == IInv /\ [Next]_vars => IInv'
<1> SUFFICES ASSUME IInv, [Next]_vars PROVE IInv'
  OBVIOUS
<1>1. TypeOK /\ owed <= cooling /\ \A r \in Requests : Sound(r)
  BY InvariantByRequest
<1>2. TypeOK'
  BY <1>1, NextTypeOK
<1>3. SUFFICES owed' <= cooling' /\ \A r \in Requests : Sound(r)'
  BY <1>2 DEF IInv, Sound, AttemptsBounded, HonestStatus, HonestOf
<1>4. owed' <= cooling'
  <2>1. ASSUME NEW r \in Requests, NEW wait \in Nat, NoteRateLimit(r, wait)
        PROVE owed' <= cooling'
    BY <1>1, <2>1, ForwardAssumption DEF NoteRateLimit, Extended, Later, TypeOK, gate
  <2>2. ASSUME NEW r \in Requests, StatusRetry(r) \/ FallThrough(r)
        PROVE owed' <= cooling'
    <3> DEFINE wait == RetryAfterMs(reply[r].retryAfter, attempt[r])
    <3>1. wait \in Nat
      BY <1>1, RetryAfterType DEF TypeOK, Reply
    <3>2. NoteRateLimit(r, wait)
      BY <2>2 DEF StatusRetry, FallThrough
    <3> HIDE DEF wait
    <3>3. QED BY <2>1, <3>1, <3>2
  <2>3. CASE Tick
    BY <1>1, <2>3 DEF Tick, LessOne, TypeOK
  <2>4. CASE UNCHANGED gate
    BY <1>1, <2>4 DEF gate
  <2>5. ASSUME NEW r \in Requests, ~StatusRetry(r), ~FallThrough(r),
               Receive(r) \/ Refuse(r) \/ ClientLeaves(r) \/ Step(r) \/ Upstream(r)
        PROVE UNCHANGED gate
    BY <2>5 DEF Receive, Refuse, ClientLeaves, Step, Upstream, PassGate, OmitImages,
       RectifyThinking, KeepReply, SemanticRetry, PrimeRetry, DeliverBuffered,
       DeliverPrimed, DeliverDirect, StartRelay, Wake, Quit, ReplyArrives, FetchRetry,
       FetchExhausted, StreamEnds
  <2>6. QED BY <2>2, <2>3, <2>4, <2>5 DEF Next, vars
<1>5. ASSUME NEW q \in Requests PROVE Sound(q)'
  <2>1. ASSUME NEW r \in Requests, Step(r) \/ Upstream(r) PROVE Sound(q)'
    <3>1. CASE q = r
      BY <1>1, <2>1, <3>1, StepSound
    <3>2. CASE q # r
      <4>1. /\ pc'[q] = pc[q] /\ shape'[q] = shape[q] /\ attempt'[q] = attempt[q]
            /\ calls'[q] = calls[q] /\ reply'[q] = reply[q]
            /\ semanticRetries'[q] = semanticRetries[q]
            /\ imageRetried'[q] = imageRetried[q]
            /\ thinkingRetried'[q] = thinkingRetried[q]
            /\ streamPrimeRetries'[q] = streamPrimeRetries[q]
            /\ reasonTruncated'[q] = reasonTruncated[q]
            /\ answers'[q] = answers[q] /\ resStatus'[q] = resStatus[q]
            /\ cancelled'[q] = cancelled[q]
        BY <1>1, <2>1, <3>2 DEF TypeOK, Goto, SleepFor, NextAttempt, retryFlags, client,
           Step, Upstream, PassGate, StatusRetry, FallThrough, OmitImages,
           RectifyThinking, KeepReply, SemanticRetry, PrimeRetry, DeliverBuffered,
           DeliverPrimed, DeliverDirect, StartRelay, Wake, Quit, ReplyArrives,
           FetchRetry, FetchExhausted, StreamEnds
      <4>2. QED BY <1>1, <4>1, UntouchedStaysSound
    <3>3. QED BY <3>1, <3>2
  <2>2. ASSUME NEW r \in Requests, Receive(r) PROVE Sound(q)'
    <3>1. CASE q = r
      BY <1>1, <2>2, <3>1, ForwardAssumption DEF Receive, Goto, TypeOK, Sound, FlagsFit,
         CallsCounted, OneAnswer, StatusTracked, Untouched, Extras, One, Spent, retryFlags,
         client
    <3>2. CASE q # r
      <4>1. /\ pc'[q] = pc[q] /\ shape'[q] = shape[q] /\ attempt'[q] = attempt[q]
            /\ answers'[q] = answers[q] /\ resStatus'[q] = resStatus[q]
            /\ UNCHANGED <<calls, semanticRetries, imageRetried, thinkingRetried,
                           streamPrimeRetries, reasonTruncated, reply, cancelled>>
        BY <1>1, <2>2, <3>2 DEF Receive, Goto, TypeOK, retryFlags, client
      <4>2. QED BY <1>1, <4>1, UntouchedStaysSound
    <3>3. QED BY <3>1, <3>2
  <2>3. ASSUME NEW r \in Requests, Refuse(r) PROVE Sound(q)'
    <3>1. CASE q = r
      BY <1>1, <2>3, <3>1, ForwardAssumption DEF Refuse, Goto, TypeOK, Sound, FlagsFit,
         HonestOf, CallsCounted, OneAnswer, StatusTracked, Untouched, Extras, One, Spent, retryFlags,
         client
    <3>2. CASE q # r
      <4>1. /\ pc'[q] = pc[q] /\ shape'[q] = shape[q] /\ attempt'[q] = attempt[q]
            /\ answers'[q] = answers[q] /\ resStatus'[q] = resStatus[q]
            /\ UNCHANGED <<calls, semanticRetries, imageRetried, thinkingRetried,
                           streamPrimeRetries, reasonTruncated, reply, cancelled>>
        BY <1>1, <2>3, <3>2 DEF Refuse, Goto, TypeOK, retryFlags, client
      <4>2. QED BY <1>1, <4>1, UntouchedStaysSound
    <3>3. QED BY <3>1, <3>2
  <2>4. ASSUME NEW r \in Requests, ClientLeaves(r) PROVE Sound(q)'
    <3>1. UNCHANGED <<pc, shape, attempt, calls, semanticRetries, imageRetried,
                      thinkingRetried, streamPrimeRetries, reasonTruncated, reply,
                      answers, resStatus>> /\ (cancelled[q] => cancelled'[q])
      BY <1>1, <2>4 DEF ClientLeaves, retryFlags, TypeOK
    <3>2. QED BY <1>1, <3>1, UntouchedStaysSound
  <2>5. CASE Tick
    <3>1. UNCHANGED <<pc, shape, attempt, calls, semanticRetries, imageRetried,
                      thinkingRetried, streamPrimeRetries, reasonTruncated, reply,
                      answers, resStatus, cancelled>>
      BY <2>5 DEF Tick, retryFlags, client
    <3>2. QED BY <1>1, <3>1, UntouchedStaysSound
  <2>6. CASE UNCHANGED vars
    BY <1>1, <2>6, UntouchedStaysSound DEF vars, retryFlags, client
  <2>7. QED BY <2>1, <2>2, <2>3, <2>4, <2>5, <2>6 DEF Next
<1>6. QED BY <1>4, <1>5

\* The invariant holds throughout every behaviour of the retry loop.
THEOREM Invariance == Spec => []IInv
BY InitIInv, NextIInv, PTL DEF Spec

\* Type correctness of the retry loop's state (Upstream.Forward).
THEOREM TypeCorrect == Spec => []TypeOK
<1>1. IInv => TypeOK
  BY DEF IInv
<1>2. QED BY <1>1, Invariance, PTL

\* The inner loop, which has no bound of its own, makes at most MaxAttempts
\* attempts and one more for each one-shot flag that was used up.
THEOREM AttemptsAreBounded == Spec => []AttemptsBounded
<1>1. IInv => AttemptsBounded
  BY DEF IInv
<1>2. QED BY <1>1, Invariance, PTL

\* A request recorded with status 200 was not cut, clipped by the reasoning buffer
\* or ended in a soft error, except in the two ways the code does not notice, and
\* one recorded with 503 did not get a whole response that said 200: what Forward's
\* final correction of res.Status is for.
THEOREM StatusIsHonest == Spec => []HonestStatus
<1>1. IInv => HonestStatus
  BY DEF IInv
<1>2. QED BY <1>1, Invariance, PTL

-----------------------------------------------------------------------------
(* The shared cooldown *)

\* No request goes upstream while a 429 seen by any request, even on its last
\* attempt, still asks for patience, unless its client left or it was past the
\* gate (Forward's Cooldown.Extend before the attempt check, Cooldown.Wait).
THEOREM CooldownIsHonoured == Spec => CooldownHonoured
<1> DEFINE Honoured == \A r \in Requests :
             pc[r] = "gate" /\ pc'[r] = "send" => owed = 0 \/ cancelled[r]
<1>1. IInv /\ [Next]_vars => [Honoured]_vars
  <2> SUFFICES ASSUME IInv, Next, NEW q \in Requests, pc[q] = "gate", pc'[q] = "send"
               PROVE owed = 0 \/ cancelled[q]
    BY DEF vars
  <2> USE DEF IInv, TypeOK, Goto
  <2>1. CASE PassGate(q)
    BY <2>1 DEF PassGate
  <2>2. CASE ~PassGate(q)
    <3>1. ASSUME NEW r \in Requests, Step(r) \/ Upstream(r) PROVE pc'[q] = pc[q] \/ q = r
      BY <3>1 DEF SleepFor, Step, Upstream, PassGate, StatusRetry, FallThrough,
         OmitImages, RectifyThinking, KeepReply, SemanticRetry, PrimeRetry,
         DeliverBuffered, DeliverPrimed, DeliverDirect, StartRelay, Wake, Quit,
         ReplyArrives, FetchRetry, FetchExhausted, StreamEnds
    <3>2. ~(Step(q) \/ Upstream(q))
      BY <2>2 DEF SleepFor, Step, Upstream, StatusRetry, FallThrough,
         OmitImages, RectifyThinking, KeepReply, SemanticRetry, PrimeRetry,
         DeliverBuffered, DeliverPrimed, DeliverDirect, StartRelay, Wake, Quit,
         ReplyArrives, FetchRetry, FetchExhausted, StreamEnds
    <3>3. ASSUME NEW r \in Requests, Receive(r) \/ Refuse(r) \/ ClientLeaves(r)
          PROVE pc'[q] = pc[q]
      BY <3>3 DEF Receive, Refuse, ClientLeaves
    <3>4. ASSUME Tick PROVE pc'[q] = pc[q]
      BY <3>4 DEF Tick
    <3>5. QED BY <3>1, <3>2, <3>3, <3>4 DEF Next
  <2>3. QED BY <2>1, <2>2
<1>2. QED BY <1>1, Invariance, PTL DEF Spec, CooldownHonoured

-----------------------------------------------------------------------------
(* Refinement of Relay *)

\* A request that may still call upstream has not spent its budget.
LEMMA BudgetLeft ==
  ASSUME IInv, NEW r \in Requests, pc[r] = "gate"
  PROVE  calls[r] < Budget[shape[r]]
<1> USE ForwardAssumption DEF IInv, TypeOK, AllShapes
<1>1. FlagsFit(r) /\ CallsCounted(r) /\ attempt[r] <= MaxAttempts + Extras(r)
  BY DEF AttemptsBounded
<1>2. calls[r] < Spent(r)
  BY <1>1 DEF CallsCounted
<1>3. CASE shape[r] = "pending"
  BY <1>1, <1>2, <1>3 DEF FlagsFit, Extras, One, Spent, Budget
<1>4. CASE shape[r] = "responses"
  BY <1>1, <1>2, <1>4 DEF FlagsFit, Extras, One, Spent, Budget
<1>5. CASE shape[r] = "messages"
  BY <1>1, <1>2, <1>5 DEF FlagsFit, Extras, One, Spent, Budget
<1>6. CASE shape[r] = "adapted"
  BY <1>1, <1>2, <1>6 DEF FlagsFit, Extras, One, Spent, Budget
<1>7. QED BY <1>3, <1>4, <1>5, <1>6

\* The phase Relay sees, as a function of the goroutine's place.
phases == [r \in Requests |-> Phase(pc[r])]

LEMMA InitImplementsRelay == Init => R!Init
BY DEF Init, R!Init, Phase, Budget, AllShapes

\* Steps inside the loop that Relay does not see.
LEMMA InnerStepStutters ==
  ASSUME IInv, NEW r \in Requests, NEW from, NEW to,
         Goto(r, from, to), Phase(from) = Phase(to),
         UNCHANGED <<shape, calls, answers, cancelled>>
  PROVE  UNCHANGED R!vars
<1>1. phases' = phases
  <2>1. \A q \in Requests : Phase(pc'[q]) = Phase(pc[q])
    BY DEF IInv, TypeOK, Goto
  <2>2. QED BY <2>1 DEF phases, Phase, Ended
<1>2. QED BY <1>1 DEF R!vars, phases

\* A step that moves one request from one phase to another.
LEMMA PhaseMoves ==
  ASSUME TypeOK, NEW r \in Requests, NEW from, NEW to, Goto(r, from, to)
  PROVE  /\ phases[r] = Phase(from)
         /\ phases' = [phases EXCEPT ![r] = Phase(to)]
<1>1. \A q \in Requests : pc'[q] = IF q = r THEN to ELSE pc[q]
  BY DEF TypeOK, Goto
<1>2. phases' = [q \in Requests |-> Phase(pc'[q])]
  BY DEF phases, Phase, Ended
<1>3. pc[r] = from
  BY DEF Goto
<1>4. QED BY <1>1, <1>2, <1>3 DEF phases

LEMMA StepImplementsRelay == IInv /\ [Next]_vars => [R!Next]_(R!vars)
<1> SUFFICES ASSUME IInv, [Next]_vars PROVE [R!Next]_(R!vars)
  OBVIOUS
<1>1. TypeOK /\ \A r \in Requests : OneAnswer(r)
  BY DEF IInv
<1> USE DEF retryFlags, client
<1>2. ASSUME NEW r \in Requests, Receive(r) PROVE R!Receive(r)
  <2>1. phases[r] = "new" /\ phases' = [phases EXCEPT ![r] = "open"]
    BY <1>1, <1>2, PhaseMoves DEF Receive, Phase, Ended
  <2>2. \E s \in AllShapes : shape' = [shape EXCEPT ![r] = s]
    BY <1>2, ForwardAssumption DEF Receive
  <2>3. UNCHANGED <<calls, answers, cancelled>>
    BY <1>2 DEF Receive
  <2>4. QED BY <2>1, <2>2, <2>3 DEF R!Receive, R!Move, phases, Budget
<1>3. ASSUME NEW r \in Requests, Refuse(r) \/ FetchExhausted(r) PROVE R!Refuse(r)
  <2>1. phases[r] \in {"new", "open"} /\ phases' = [phases EXCEPT ![r] = "finished"]
    BY <1>1, <1>3, PhaseMoves DEF Refuse, FetchExhausted, Phase, Ended
  <2>2. answers[r] = 0
    BY <1>1, <1>3 DEF OneAnswer, Refuse, FetchExhausted, Goto
  <2>3. answers' = [answers EXCEPT ![r] = 1]
    BY <1>1, <1>3, <2>2 DEF Refuse, FetchExhausted, TypeOK
  <2>4. UNCHANGED <<shape, calls, cancelled>>
    BY <1>3 DEF Refuse, FetchExhausted
  <2>5. QED BY <2>1, <2>3, <2>4 DEF R!Refuse, R!Move, phases
<1>4. ASSUME NEW r \in Requests, ClientLeaves(r) PROVE R!Leave(r)
  <2>1. phases[r] \in {"open", "answering"}
    BY <1>4 DEF ClientLeaves, phases, Phase, Working, Ended
  <2>2. phases' = phases /\ cancelled' = [cancelled EXCEPT ![r] = TRUE]
    BY <1>4 DEF ClientLeaves, phases, Phase, Ended
  <2>3. UNCHANGED <<shape, calls, answers>>
    BY <1>4 DEF ClientLeaves
  <2>4. QED BY <2>1, <2>2, <2>3 DEF R!Leave, phases
<1>5. ASSUME NEW r \in Requests, PassGate(r) PROVE R!Call(r)
  <2>1. calls[r] < Budget[shape[r]]
    BY <1>5, BudgetLeft DEF PassGate, Goto
  <2>2. UNCHANGED <<shape, answers, cancelled>> /\ calls' = [calls EXCEPT ![r] = @ + 1]
    BY <1>5 DEF PassGate
  <2>3. phases[r] = "open" /\ phases' = [phases EXCEPT ![r] = "open"]
    BY <1>1, <1>5, PhaseMoves DEF PassGate, Phase, Ended
  <2>4. phases' = phases
    BY <2>3 DEF phases
  <2>5. QED BY <2>1, <2>2, <2>3, <2>4 DEF R!Call, phases
<1>6. ASSUME NEW r \in Requests, NEW s, StartRelay(r, s) PROVE R!StartAnswer(r)
  <2>1. phases[r] = "open" /\ phases' = [phases EXCEPT ![r] = "answering"]
    BY <1>1, <1>6, PhaseMoves DEF StartRelay, Phase, Ended
  <2>2. answers[r] = 0
    BY <1>1, <1>6 DEF OneAnswer, StartRelay, Goto
  <2>3. answers' = [answers EXCEPT ![r] = 1]
    BY <1>1, <1>6, <2>2 DEF StartRelay, TypeOK
  <2>4. UNCHANGED <<shape, calls, cancelled>>
    BY <1>6 DEF StartRelay
  <2>5. QED BY <2>1, <2>3, <2>4 DEF R!StartAnswer, R!Move, phases
<1>7. ASSUME NEW r \in Requests, StreamEnds(r) PROVE R!FinishAnswer(r)
  <2>1. phases[r] = "answering" /\ phases' = [phases EXCEPT ![r] = "finished"]
    BY <1>1, <1>7, PhaseMoves DEF StreamEnds, Phase, Ended
  <2>2. UNCHANGED <<shape, calls, answers, cancelled>>
    BY <1>7 DEF StreamEnds
  <2>3. QED BY <2>1, <2>2 DEF R!FinishAnswer, R!Move, phases
<1>8. ASSUME NEW r \in Requests, Quit(r) PROVE R!Abort(r)
  <2>1. phases[r] = "open" /\ phases' = [phases EXCEPT ![r] = "aborted"]
    BY <1>1, <1>8, PhaseMoves DEF Quit, Phase, Ended
  <2>2. cancelled[r] /\ UNCHANGED <<shape, calls, answers, cancelled>>
    BY <1>8 DEF Quit
  <2>3. QED BY <2>1, <2>2 DEF R!Abort, R!Move, phases
<1>9. ASSUME NEW r \in Requests,
             \/ StatusRetry(r) \/ FallThrough(r) \/ OmitImages(r) \/ RectifyThinking(r)
             \/ KeepReply(r) \/ SemanticRetry(r) \/ PrimeRetry(r) \/ Wake(r)
             \/ ReplyArrives(r) \/ FetchRetry(r)
      PROVE UNCHANGED R!vars
  <2>1. UNCHANGED <<shape, calls, answers, cancelled>>
    BY <1>9 DEF StatusRetry, FallThrough, OmitImages, RectifyThinking, KeepReply,
       SemanticRetry, PrimeRetry, Wake, ReplyArrives, FetchRetry
  <2>2. \E from, to \in Working \ {"stream"} : Goto(r, from, to)
    BY <1>9 DEF StatusRetry, FallThrough, OmitImages, RectifyThinking, KeepReply,
       SemanticRetry, PrimeRetry, Wake, ReplyArrives, FetchRetry, SleepFor, Goto, Working
  <2>3. \A p \in Working \ {"stream"} : Phase(p) = "open"
    BY DEF Working, Phase, Ended
  <2>4. QED BY <2>1, <2>2, <2>3, InnerStepStutters
<1>10. CASE Tick
  <2>1. UNCHANGED <<pc, shape, calls, answers, cancelled>>
    BY <1>10 DEF Tick
  <2>2. QED BY <2>1 DEF R!vars, Phase, Ended
<1>11. CASE UNCHANGED vars
  <2>1. UNCHANGED <<pc, shape, calls, answers, cancelled>>
    BY <1>11 DEF vars
  <2>2. QED BY <2>1 DEF R!vars, Phase, Ended
<1>12. ASSUME NEW r \in Requests,
              Receive(r) \/ Refuse(r) \/ ClientLeaves(r) \/ Step(r) \/ Upstream(r)
       PROVE [R!Next]_(R!vars)
  <2>1. CASE DeliverBuffered(r) \/ DeliverPrimed(r) \/ DeliverDirect(r)
    <3>1. \E s : StartRelay(r, s)
      BY <2>1 DEF DeliverBuffered, DeliverPrimed, DeliverDirect
    <3>2. QED BY <3>1, <1>6 DEF R!Next
  <2>2. QED BY <1>2, <1>3, <1>4, <1>5, <1>7, <1>8, <1>9, <1>12, <2>1
            DEF R!Next, Step, Upstream
<1>13. QED BY <1>10, <1>11, <1>12 DEF Next

\* The retry loop implements Relay: bounded upstream calls, at most one
\* response per request and no call after it, and an abort without a response
\* only of a request whose client has left.
THEOREM ForwardImplementsRelay == Spec => ImplementsRelay
<1>1. QED BY InitImplementsRelay, StepImplementsRelay, Invariance, PTL
          DEF Spec, ImplementsRelay, R!Spec
=============================================================================
