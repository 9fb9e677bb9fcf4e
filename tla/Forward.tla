------------------------------- MODULE Forward -------------------------------
(***************************************************************************)
(* The retry loop of the proxy: Upstream.Forward (upstream.go), one        *)
(* goroutine per client request, as handleForward (server.go) calls it.    *)
(* The goroutines share the 429 cooldown.  Upstream replies are arbitrary  *)
(* members of Replies, clients may leave at any moment, and time is        *)
(* counted down: `cooling' and `delay' are the ticks still to wait.        *)
(***************************************************************************)
EXTENDS Naturals

CONSTANTS
  Requests,          \* client requests, one goroutine each
  MaxAttempts,       \* MAX_ATTEMPTS
  Retryable,         \* RETRYABLE_STATUSES
  RetryDelay,        \* RETRY_DELAY_MS, in ticks like every delay below
  RetryStepDelay,    \* RETRY_STEP_DELAY_MS
  MaxRetryDelay,     \* MAX_RETRY_DELAY_MS
  HonoredMax,        \* maxHonoredRetryAfter
  CooldownMs,        \* RATE_LIMIT_COOLDOWN_MS
  HollowMax,         \* REASONING_ONLY_RETRY_MAX
  Shapes,            \* the sorts of request that arrive
  Replies            \* what the upstream may answer

\* How a 2xx/3xx body turns out.  "json": not a stream.  "clipped": not a stream,
\* and it breaks off or is longer than the 8 MB that are read.  "clean": a stream
\* with an executable item and its end.  "dead": it ends, or goes idle, before one
\* whole event.  "failed", "busy", "fatal": the first event is a failure without
\* a known kind, with a retryable one, with a terminal one.  "late": a retryable
\* soft error after good events.  "cut": some events, then no end.  "mentioned": the
\* same, but the body ends in order, and a text in it names a terminal event.
\* "hollow": completed, reasoning only.  "oversize": longer than the reasoning buffer.
\* "error": any body with a status of 400 or more.
Streams == {"json", "clipped", "clean", "dead", "failed", "busy", "fatal", "late",
            "cut", "mentioned", "hollow", "oversize", "error"}

\* retryAfter is the parsed Retry-After header, 0 without one; image and
\* thinking say whether the error text is one of those two complaints.
Reply == [status : Nat, stream : Streams, image : BOOLEAN, thinking : BOOLEAN,
          retryAfter : Nat]

NoReply == [status |-> 0, stream |-> "error", image |-> FALSE, thinking |-> FALSE,
            retryAfter |-> 0]

\* "pending": POST /responses passed through, eligible for the reasoning-only
\* retry; "responses": passed through, not eligible; "messages": native
\* /messages; "adapted": /responses converted for a Messages or Chat upstream.
AllShapes == {"pending", "responses", "messages", "adapted"}

ASSUME ForwardAssumption ==
  /\ MaxAttempts \in Nat \ {0}
  /\ RetryDelay \in Nat /\ RetryStepDelay \in Nat /\ MaxRetryDelay \in Nat
  /\ HonoredMax \in Nat /\ CooldownMs \in Nat
  /\ HollowMax \in 0 .. 1
  /\ Shapes \subseteq AllShapes
  /\ Replies \subseteq Reply

VARIABLES
  pc,                  \* where the goroutine is
  shape,               \* the sort of the request
  attempt,             \* the inner loop's counter
  calls,               \* history: upstream calls made
  semanticRetries,
  imageRetried,
  thinkingRetried,
  streamPrimeRetries,
  reasonTruncated,
  reply,               \* resp, the upstream response in hand
  delay,               \* ticks of sleepCtx still to go
  answers,             \* WriteHeader calls on the client's connection
  resStatus,           \* ForwardResult.Status
  cancelled,           \* the client left: r.Context() is done
  cooling,             \* ticks until the shared gate opens
  owed                 \* history: ticks still promised by the 429s seen so far

retryFlags == <<semanticRetries, imageRetried, thinkingRetried, streamPrimeRetries>>
gate == <<cooling, owed>>
client == <<answers, resStatus, cancelled>>
vars == <<pc, shape, attempt, calls, retryFlags, reasonTruncated, reply, delay,
          client, gate>>

Working == {"gate", "send", "reply", "rectify", "accept", "backoff", "stream"}
Ended == {"finished", "aborted"}
TypeOK ==
  /\ pc \in [Requests -> {"idle"} \cup Working \cup Ended]
  /\ shape \in [Requests -> AllShapes]
  /\ attempt \in [Requests -> Nat]
  /\ calls \in [Requests -> Nat]
  /\ semanticRetries \in [Requests -> 0 .. 1]
  /\ imageRetried \in [Requests -> BOOLEAN]
  /\ thinkingRetried \in [Requests -> BOOLEAN]
  /\ streamPrimeRetries \in [Requests -> 0 .. 1]
  /\ reasonTruncated \in [Requests -> BOOLEAN]
  /\ reply \in [Requests -> Reply]
  /\ delay \in [Requests -> Nat]
  /\ answers \in [Requests -> Nat]
  /\ resStatus \in [Requests -> Nat]
  /\ cancelled \in [Requests -> BOOLEAN]
  /\ cooling \in Nat
  /\ owed \in Nat

Init ==
  /\ pc = [r \in Requests |-> "idle"]
  /\ shape = [r \in Requests |-> "responses"]
  /\ attempt = [r \in Requests |-> 0]
  /\ calls = [r \in Requests |-> 0]
  /\ semanticRetries = [r \in Requests |-> 0]
  /\ imageRetried = [r \in Requests |-> FALSE]
  /\ thinkingRetried = [r \in Requests |-> FALSE]
  /\ streamPrimeRetries = [r \in Requests |-> 0]
  /\ reasonTruncated = [r \in Requests |-> FALSE]
  /\ reply = [r \in Requests |-> NoReply]
  /\ delay = [r \in Requests |-> 0]
  /\ answers = [r \in Requests |-> 0]
  /\ resStatus = [r \in Requests |-> 0]
  /\ cancelled = [r \in Requests |-> FALSE]
  /\ cooling = 0
  /\ owed = 0

-----------------------------------------------------------------------------
(* The retry policy (retry.go) *)

Later(a, b) == IF a > b THEN a ELSE b
Sooner(a, b) == IF a < b THEN a ELSE b

ShouldRetry(r) ==
  \/ reply[r].status \in Retryable
  \/ reply[r].status = 404 /\ shape[r] \in {"pending", "responses"}

RetryAfterMs(retryAfter, n) ==
  LET step == IF RetryStepDelay > 0 THEN RetryStepDelay * n ELSE RetryDelay
  IN  Later(Sooner(step, MaxRetryDelay), Sooner(retryAfter, HonoredMax))

\* Cooldown.Extend, as the atomic step that module Cooldown justifies.
Extended(now, wait) ==
  IF CooldownMs > 0 THEN Later(now, Later(CooldownMs, wait)) ELSE now

\* Mutant of NoteRateLimit: only a 429 that is retried extends the cooldown.
NoteRetriedRateLimit(r, wait) ==
  IF ShouldRetry(r) /\ reply[r].status = 429 /\ attempt[r] < MaxAttempts
    THEN /\ cooling' = Extended(cooling, wait)
         /\ owed' = IF CooldownMs > 0 THEN Later(owed, Later(CooldownMs, wait)) ELSE owed
    ELSE /\ cooling' = cooling
         /\ owed' = IF ShouldRetry(r) /\ reply[r].status = 429 /\ CooldownMs > 0
                      THEN Later(owed, Later(CooldownMs, wait)) ELSE owed

\* The 429 handling shared by a retried and by a last 429.
NoteRateLimit(r, wait) ==
  IF ShouldRetry(r) /\ reply[r].status = 429
    THEN /\ cooling' = Extended(cooling, wait)
         /\ owed' = IF CooldownMs > 0 THEN Later(owed, Later(CooldownMs, wait)) ELSE owed
    ELSE UNCHANGED gate

Goto(r, from, to) ==
  /\ pc[r] = from
  /\ pc' = [pc EXCEPT ![r] = to]

\* sleepCtx(ctx, wait): a wait of zero returns at once, even to a client that
\* has left.
SleepFor(r, from, wait) ==
  /\ Goto(r, from, IF wait = 0 THEN "gate" ELSE "backoff")
  /\ delay' = [delay EXCEPT ![r] = wait]

\* `continue': the inner loop's post statement.
NextAttempt(r) ==
  /\ attempt' = [attempt EXCEPT ![r] = @ + 1]
  /\ reply' = [reply EXCEPT ![r] = NoReply]

-----------------------------------------------------------------------------
(* Before the loop *)

Receive(r) ==
  /\ Goto(r, "idle", "gate")
  /\ \E s \in Shapes : shape' = [shape EXCEPT ![r] = s]
  /\ attempt' = [attempt EXCEPT ![r] = 1]
  /\ UNCHANGED <<calls, retryFlags, reasonTruncated, reply, delay, client, gate>>

\* The body cannot be read, is over the limit, or cannot be adapted.
Refuse(r) ==
  /\ Goto(r, "idle", "finished")
  /\ answers' = [answers EXCEPT ![r] = @ + 1]
  /\ resStatus' = [resStatus EXCEPT ![r] = 400]
  /\ UNCHANGED <<shape, attempt, calls, retryFlags, reasonTruncated, reply, delay,
                 cancelled, gate>>

-----------------------------------------------------------------------------
(* One attempt *)

\* Cooldown.Wait returns and doAttempt sends the request.
PassGate(r) ==
  /\ cooling = 0 \/ cancelled[r]
  /\ Goto(r, "gate", "send")
  /\ calls' = [calls EXCEPT ![r] = @ + 1]
  /\ UNCHANGED <<shape, attempt, retryFlags, reasonTruncated, reply, delay, client, gate>>

FetchRetry(r) ==
  /\ attempt[r] < MaxAttempts
  /\ SleepFor(r, "send", RetryAfterMs(0, attempt[r]))
  /\ NextAttempt(r)
  /\ UNCHANGED <<shape, calls, retryFlags, reasonTruncated, client, gate>>

FetchExhausted(r) ==
  /\ attempt[r] >= MaxAttempts
  /\ Goto(r, "send", "finished")
  /\ answers' = [answers EXCEPT ![r] = @ + 1]
  /\ resStatus' = [resStatus EXCEPT ![r] = 503]
  /\ UNCHANGED <<shape, attempt, calls, retryFlags, reasonTruncated, reply, delay,
                 cancelled, gate>>

\* Response headers arrive; with its context done, Do returns an error instead.
ReplyArrives(r) ==
  /\ ~cancelled[r]
  /\ Goto(r, "send", "reply")
  /\ \E p \in Replies : reply' = [reply EXCEPT ![r] = p]
  /\ UNCHANGED <<shape, attempt, calls, retryFlags, reasonTruncated, delay, client, gate>>

\* Mutant of StatusRetry: one attempt too many.
StatusRetryOnceMore(r) ==
  /\ ShouldRetry(r)
  /\ attempt[r] <= MaxAttempts
  /\ LET wait == RetryAfterMs(reply[r].retryAfter, attempt[r])
     IN  NoteRateLimit(r, wait) /\ SleepFor(r, "reply", wait)
  /\ NextAttempt(r)
  /\ UNCHANGED <<shape, calls, retryFlags, reasonTruncated, client>>

\* A retryable status with attempts left: extend, drop the body, back off.
StatusRetry(r) ==
  /\ ShouldRetry(r)
  /\ attempt[r] < MaxAttempts
  /\ LET wait == RetryAfterMs(reply[r].retryAfter, attempt[r])
     IN  NoteRateLimit(r, wait) /\ SleepFor(r, "reply", wait)
  /\ NextAttempt(r)
  /\ UNCHANGED <<shape, calls, retryFlags, reasonTruncated, client>>

\* Mutant of FallThrough: the last retryable failure is nobody's case.
FallThroughFinal(r) ==
  /\ ~ShouldRetry(r)
  /\ Goto(r, "reply", "rectify")
  /\ UNCHANGED <<shape, attempt, calls, retryFlags, reasonTruncated, reply, delay,
                 client, gate>>

\* Not retryable, or out of attempts: a last 429 still extends the cooldown.
FallThrough(r) ==
  /\ ~(ShouldRetry(r) /\ attempt[r] < MaxAttempts)
  /\ NoteRateLimit(r, RetryAfterMs(reply[r].retryAfter, attempt[r]))
  /\ Goto(r, "reply", "rectify")
  /\ UNCHANGED <<shape, attempt, calls, retryFlags, reasonTruncated, reply, delay, client>>

-----------------------------------------------------------------------------
(* The two one-shot corrections of the request body *)

Rectifiable == {400, 422, 501}

ImageComplaint(r) ==
  /\ shape[r] = "adapted" /\ ~imageRetried[r]
  /\ reply[r].status \in Rectifiable /\ reply[r].image

ThinkingComplaint(r) ==
  /\ shape[r] \in {"adapted", "messages"} /\ ~thinkingRetried[r]
  /\ reply[r].status \in Rectifiable /\ reply[r].thinking

\* The body is rewritten without images and sent again at once.
OmitImages(r) ==
  /\ ImageComplaint(r)
  /\ Goto(r, "rectify", "gate")
  /\ imageRetried' = [imageRetried EXCEPT ![r] = TRUE]
  /\ NextAttempt(r)
  /\ UNCHANGED <<shape, calls, semanticRetries, thinkingRetried, streamPrimeRetries,
                 reasonTruncated, delay, client, gate>>

\* The thinking blocks are rewritten and the body is sent again at once; if the
\* reply also complained of an image, that rewrite has just failed.
RectifyThinking(r) ==
  /\ ThinkingComplaint(r)
  /\ Goto(r, "rectify", "gate")
  /\ thinkingRetried' = [thinkingRetried EXCEPT ![r] = TRUE]
  /\ imageRetried' = [imageRetried EXCEPT ![r] = @ \/ ImageComplaint(r)]
  /\ NextAttempt(r)
  /\ UNCHANGED <<shape, calls, semanticRetries, streamPrimeRetries, reasonTruncated,
                 delay, client, gate>>

\* No complaint, or nothing in the body to rewrite: the error is restored.
KeepReply(r) ==
  /\ Goto(r, "rectify", "accept")
  /\ thinkingRetried' = [thinkingRetried EXCEPT ![r] = @ \/ ThinkingComplaint(r)]
  /\ imageRetried' = [imageRetried EXCEPT ![r] = @ \/ ImageComplaint(r)]
  /\ UNCHANGED <<shape, attempt, calls, semanticRetries, streamPrimeRetries,
                 reasonTruncated, reply, delay, client, gate>>

-----------------------------------------------------------------------------
(* Before the response is started: two looks at the beginning of a stream *)

Streamed(r) == reply[r].stream \notin {"json", "clipped", "error"}

\* What reading the stream shows: a client that leaves breaks it off.
AsRead(r) == {reply[r].stream} \cup IF cancelled[r] THEN {"dead", "cut"} ELSE {}

\* Mutant of Buffering: one reasoning-only retry too many.
BufferingOnceMore(r) ==
  shape[r] = "pending" /\ semanticRetries[r] <= HollowMax /\ Streamed(r)

\* The reasoning-only check buffers the whole stream.
Buffering(r) ==
  shape[r] = "pending" /\ semanticRetries[r] < HollowMax /\ Streamed(r)

\* No end was seen, or an end without anything to execute.  A late soft error
\* is an end only if it comes as response.failed.
LooksHollow == {"hollow", "cut", "mentioned", "late"}
LooksWhole == Streams \ {"hollow", "cut", "mentioned"}

\* `continue semanticRetry': discard the response and start a new inner loop.
SemanticRetry(r) ==
  /\ Buffering(r)
  /\ AsRead(r) \cap LooksHollow # {}
  /\ semanticRetries' = [semanticRetries EXCEPT ![r] = @ + 1]
  /\ SleepFor(r, "accept", RetryAfterMs(0, semanticRetries[r] + 1))
  /\ attempt' = [attempt EXCEPT ![r] = 1]
  /\ reply' = [reply EXCEPT ![r] = NoReply]
  /\ UNCHANGED <<shape, calls, imageRetried, thinkingRetried, streamPrimeRetries,
                 reasonTruncated, client, gate>>

\* The adapted path reads the first whole event.
MaxStreamPrimeRetries == 1

Priming(r) ==
  /\ shape[r] = "adapted" /\ streamPrimeRetries[r] < MaxStreamPrimeRetries
  /\ Streamed(r)

BadStart == {"dead", "failed", "busy"}

\* Mutant of PrimeRetry: the retry is not counted.
PrimeRetryUncounted(r) ==
  /\ Priming(r)
  /\ AsRead(r) \cap BadStart # {}
  /\ SleepFor(r, "accept", RetryAfterMs(0, 1))
  /\ NextAttempt(r)
  /\ UNCHANGED <<shape, calls, retryFlags, reasonTruncated, client, gate>>

PrimeRetry(r) ==
  /\ Priming(r)
  /\ AsRead(r) \cap BadStart # {}
  /\ streamPrimeRetries' = [streamPrimeRetries EXCEPT ![r] = @ + 1]
  /\ SleepFor(r, "accept", RetryAfterMs(0, streamPrimeRetries[r] + 1))
  /\ NextAttempt(r)
  /\ UNCHANGED <<shape, calls, semanticRetries, imageRetried, thinkingRetried,
                 reasonTruncated, client, gate>>

-----------------------------------------------------------------------------
(* Delivery *)

\* writeResponse starts the client's response with what was read as stream s.
StartRelay(r, s) ==
  /\ Goto(r, "accept", "stream")
  /\ reply' = [reply EXCEPT ![r].stream = s]
  /\ answers' = [answers EXCEPT ![r] = @ + 1]
  /\ resStatus' = [resStatus EXCEPT ![r] = reply[r].status]
  /\ UNCHANGED <<shape, attempt, calls, retryFlags, delay, cancelled, gate>>

DeliverBuffered(r) ==
  /\ Buffering(r)
  /\ \E s \in AsRead(r) \cap LooksWhole :
       /\ StartRelay(r, s)
       /\ reasonTruncated' = [reasonTruncated EXCEPT ![r] = (s = "oversize")]

DeliverPrimed(r) ==
  /\ Priming(r)
  /\ \E s \in AsRead(r) \ BadStart : StartRelay(r, s)
  /\ UNCHANGED reasonTruncated

DeliverDirect(r) ==
  /\ ~Buffering(r) /\ ~Priming(r)
  /\ StartRelay(r, reply[r].stream)
  /\ UNCHANGED reasonTruncated

SoftErrors == {"busy", "late", "fatal"}

\* Whether the relay reports the response as truncated.  A body that is no stream
\* never is, whatever became of it: the error of its ReadAll is dropped.  Of a
\* stream that is passed through and ends in order, a text that names a terminal
\* event is as good as the event; the converters go by the events themselves.
Truncations(r) ==
  IF ~Streamed(r) THEN {FALSE}
  ELSE IF \/ reply[r].stream \in {"dead", "cut"}
          \/ reply[r].stream = "mentioned" /\ shape[r] = "adapted" THEN {TRUE}
  ELSE IF \/ reply[r].stream \in SoftErrors \cup {"failed"}
          \/ reasonTruncated[r] \/ cancelled[r] THEN BOOLEAN
  ELSE {FALSE}

\* Mutant of StreamEnds: the upstream's status stands.
StreamEndsAsBegun(r) ==
  /\ Goto(r, "stream", "finished")
  /\ UNCHANGED <<shape, attempt, calls, retryFlags, reasonTruncated, reply, delay,
                 client, gate>>

\* The relay is over; a truncated stream or a soft error is no success.
StreamEnds(r) ==
  /\ Goto(r, "stream", "finished")
  /\ \E truncated \in Truncations(r) :
       resStatus' = [resStatus EXCEPT ![r] =
         IF truncated \/ reasonTruncated[r] \/ reply[r].stream \in SoftErrors
           THEN 503 ELSE @]
  /\ UNCHANGED <<shape, attempt, calls, retryFlags, reasonTruncated, reply, delay,
                 answers, cancelled, gate>>

-----------------------------------------------------------------------------
(* Waiting, leaving, and time *)

Wake(r) ==
  /\ delay[r] = 0
  /\ Goto(r, "backoff", "gate")
  /\ UNCHANGED <<shape, attempt, calls, retryFlags, reasonTruncated, reply, delay,
                 client, gate>>

\* sleepCtx returns false: Forward returns the context's error and handleForward
\* only logs the abort.
Quit(r) ==
  /\ cancelled[r]
  /\ Goto(r, "backoff", "aborted")
  /\ delay' = [delay EXCEPT ![r] = 0]
  /\ UNCHANGED <<shape, attempt, calls, retryFlags, reasonTruncated, reply, client, gate>>

ClientLeaves(r) ==
  /\ pc[r] \in Working
  /\ ~cancelled[r]
  /\ cancelled' = [cancelled EXCEPT ![r] = TRUE]
  /\ UNCHANGED <<pc, shape, attempt, calls, retryFlags, reasonTruncated, reply, delay,
                 answers, resStatus, gate>>

LessOne(n) == IF n > 0 THEN n - 1 ELSE 0

Tick ==
  /\ cooling > 0 \/ owed > 0 \/ \E r \in Requests : delay[r] > 0
  /\ cooling' = LessOne(cooling)
  /\ owed' = LessOne(owed)
  /\ delay' = [r \in Requests |-> LessOne(delay[r])]
  /\ UNCHANGED <<pc, shape, attempt, calls, retryFlags, reasonTruncated, reply, client>>

-----------------------------------------------------------------------------

\* What the goroutine does by itself, and what the upstream has to do.
Step(r) ==
  \/ PassGate(r) \/ StatusRetry(r) \/ FallThrough(r)
  \/ OmitImages(r) \/ RectifyThinking(r) \/ KeepReply(r)
  \/ SemanticRetry(r) \/ PrimeRetry(r)
  \/ DeliverBuffered(r) \/ DeliverPrimed(r) \/ DeliverDirect(r)
  \/ Wake(r) \/ Quit(r)

Upstream(r) ==
  ReplyArrives(r) \/ FetchRetry(r) \/ FetchExhausted(r) \/ StreamEnds(r)

Next ==
  \/ \E r \in Requests : Receive(r) \/ Refuse(r) \/ ClientLeaves(r)
  \/ \E r \in Requests : Step(r) \/ Upstream(r)
  \/ Tick

Spec == Init /\ [][Next]_vars

\* Goroutines are scheduled, time passes, and every upstream call is answered,
\* fails, or is cut off in the end.
FairSpec ==
  /\ Spec
  /\ WF_vars(Tick)
  /\ \A r \in Requests : WF_vars(Step(r)) /\ WF_vars(Upstream(r))

-----------------------------------------------------------------------------
(* Properties *)

One(b) == IF b THEN 1 ELSE 0

\* How often the body or the stream gave a reason to call again that does not
\* ask for attempts to be left.
Extras(r) == One(imageRetried[r]) + One(thinkingRetried[r]) + streamPrimeRetries[r]

\* `for attempt := 1; ; attempt++' has no bound of its own: the one-shot flags of
\* the corrections and of the prime retry are all that bounds it, in whatever
\* order network errors, retryable statuses and corrections come.
AttemptsBounded ==
  \A r \in Requests : attempt[r] <= MaxAttempts + Extras(r)

\* The upstream calls one request may cost: a whole new round for a semantic
\* retry of a passed-through request, three extra calls on the adapted path.
Budget ==
  [s \in AllShapes |->
     CASE s = "pending" -> IF HollowMax = 0 THEN MaxAttempts ELSE 2 * MaxAttempts
       [] s = "responses" -> MaxAttempts
       [] s = "messages" -> MaxAttempts + 1
       [] s = "adapted" -> MaxAttempts + 3]

\* What became of the last response is worse than its status 200 says.
Broken(r) ==
  \/ reply[r].stream \in SoftErrors \cup {"dead", "cut", "clipped", "mentioned"}
  \/ reasonTruncated[r]

\* The two the code does not notice: a body that is no stream and was not read to
\* its end, and a stream passed through that stops after naming its end.
Unnoticed(r) ==
  \/ reply[r].stream = "clipped"
  \/ reply[r].stream = "mentioned" /\ shape[r] # "adapted"

\* The status of request_finish (and on the dashboard) is no 200 if the response
\* ended before its time, was clipped by the reasoning buffer or carried a soft
\* error, unless the code does not notice; and no 503 if the upstream said 200, the
\* response was whole and the client stayed: whatever was retried and buffered on
\* the way.  A failure that names no known kind may count as either.
HonestStatus ==
  \A r \in Requests : pc[r] = "finished" =>
    /\ resStatus[r] = 200 /\ Broken(r) => Unnoticed(r)
    /\ resStatus[r] = 503 /\ reply[r].status = 200 /\ ~cancelled[r] =>
         Broken(r) \/ reply[r].stream = "failed"

\* Whichever request meets a 429, and even if it was that request's last
\* attempt, no request goes upstream before the wait it asked for is over,
\* unless its client has left or it had passed the gate already.
CooldownHonoured ==
  [][\A r \in Requests :
       pc[r] = "gate" /\ pc'[r] = "send" => owed = 0 \/ cancelled[r]]_vars

Phase(p) ==
  IF p = "idle" THEN "new"
  ELSE IF p = "stream" THEN "answering"
  ELSE IF p \in Ended THEN p
  ELSE "open"

R == INSTANCE Relay WITH
  phase <- [r \in Requests |-> Phase(pc[r])], sort <- shape, left <- cancelled

\* The retry loop keeps the promises of Relay: bounded calls, one response, no
\* call after it, an abort only of a request whose client has left.
ImplementsRelay == R!Spec

\* Every request that is received ends, whatever mixture of failures it meets.
Served ==
  \A r \in Requests : pc[r] \in Working ~> pc[r] \in Ended
=============================================================================
