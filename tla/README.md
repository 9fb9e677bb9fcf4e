# Verification of ai-gateway-go (codex-relay)

The program is one Go binary: a local proxy between a coding client (Codex CLI,
Claude Code) and an upstream AI gateway. It relays `POST /responses` and
`POST /messages`, converts between three wire formats, retries what fails, and
runs itself as a background process. This directory holds TLA+ models of its
core logic, the TLC configurations that check them on small instances, and
TLAPS proofs of the properties that matter most, for every value of the
constants. All source paths below are relative to `src/internal/proxy/`.

## 1. Inventory

| part | state | operations | who it meets |
|---|---|---|---|
| **retry loop** — `upstream.go` `Forward`, `retry.go`, `server.go` `handleForward` | per request: body, attempt, one-shot flags, response in hand, `ForwardResult` | wait at the gate, send, classify, back off, correct the body, look at the start of the stream, relay, finish | cooldown, watchdog, relay loops, monitor |
| **429 cooldown** — `retry.go` `Cooldown` | one atomic deadline | `Wait`, `Extend` | every request goroutine at once |
| **idle watchdog** — `idle.go` | `lastRead`, timer, `fired`, `closed` under a mutex | `Read`, `trip`, `Close` | timer goroutines, the reader, `Forward`'s drain |
| **daemon** — `cmd.go`, `server.go` `Main` | PID file, ready file, port, processes | `start`, `stop`, `restart`, signals, shutdown | operators, the OS, other programs |
| **look-ahead** — `semantic_retry.go`, `upstream.go` prime read | a buffer of the stream's beginning | decide to retry or to deliver | retry loop |
| **SSE relay loops** — `sse.go`, `stream_limits.go` | line and event buffers, keepalive goroutine, `[DONE]` tracker | relay, convert, keep alive, end | converters, client, watchdog |
| **stream converters** — `adapter_sse.go` (Messages), `adapter_chat.go` (Chat) | open items, indices, sequence numbers, held-back finish | one handler per upstream event, synthesised terminal event | relay loops, tool-shape repair |
| **request converters** — `adapter.go`, `adapter_chat.go`, `adapter_reasoning.go`, `codex_tools.go` | none (pure) | Responses → Messages / Chat, namespaced tools flattened and restored | retry loop |
| **transformers** — `tool_shape.go`, `image_bridge.go` | names and arguments of open calls; image calls in progress | rewrite events; call the image upstream mid-stream | relay loops, converters |
| **body corrections** — `image_fallback.go`, `thinking_rectifier.go` | none | recognise a complaint, rewrite the body | retry loop |
| **headroom** — `headroom*.go` | none, but a directory of originals | compress tool output | request converters, retention |
| **monitor** — `monitor.go` | counters and a bounded table of sources under a mutex | request, finish, snapshot | every request, dashboard |
| **log** — `log.go` | file, size, under a mutex | write, rotate, close | everybody |
| **retention, capture** — `retention.go`, `capture.go` | directories of old artifacts | remove by age and size | headroom, log |
| **configuration, routing, dashboard, tokens, skill, scripts** | read at start | parse, look up, serve a page | — |

What is hard here: request goroutines share the cooldown with no lock; a timer
goroutine that is already dispatched cannot be taken back; the retry loop's
header has no bound of its own; a response, once begun, cannot be retried; the
client may leave at any step; a process can end without running its deferred
cleanup, and its PID outlives it in two files. `PROJECT.json` lists the hazards
one by one, at their lines.

Per component, correctness means:

* retry loop — a bounded number of upstream calls, exactly one response or an
  abort of a client that left, no call after a response has begun, an honest
  status, no call before the wait that a 429 asked for is over, and an end;
* cooldown — no extension lost, no wait over early, every call returns;
* watchdog — a watched stream is never left unguarded, a trip never decides
  early, nothing happens after `Close`, no read waits for ever;
* daemon — `start` tells the truth, what serves can be found and stopped, `stop`
  works, every command returns, a signalled process ends;
* converters and relay loops — what the client gets is a well-formed stream of
  its own protocol, whatever upstream sends, however it breaks off; it learns how
  its turn ended, the monitor hears the same, and no turn whose tool calls were
  all lost looks complete; no write of one goroutine falls into another's;
* request converters — whatever was said, called and answered reaches the model
  once and in order, a tool keeps one name across turns and retries, the client is
  told to run the tool that the model meant;
* transformers — a repaired call is told once and as a custom call, an image is
  not paid for twice;
* monitor, log, retention — counts agree with the requests, no line is lost by a
  rotation, an original can be had as long as an upstream may have been referred
  to it.

## 2. Modules

| module | what it is |
|---|---|
| `CooldownGate` | abstract: a gate shut for some ticks; `Extend` only lengthens that, `Wait` outlasts what was owed on entry |
| `Cooldown` | `Cooldown.Wait` / `Extend`, one action per atomic load, clock read, timer, compare-and-swap; implements `CooldownGate` |
| `Relay` | abstract: what a client request may cost and how it may end |
| `Forward` | `Upstream.Forward` and its caller, many requests that share the gate; implements `Relay` |
| `IdleWatchdog` | one upstream attempt under `idleTimeoutReader` |
| `ResponsesClient` | what a client makes of the frames it is sent, and which of them its protocol does not allow |
| `MessagesSSE`, `ChatSSE` | the two stream converters, as operators from state and event to state |
| `PassThrough` | the same for a stream that is not converted, with the tool repair and the image bridge |
| `AdaptedStream` | the relay loops around the three, with the keepalive goroutine, the upstream and the client |
| `ToolNames` | declaring, flattening and restoring the names of tools |
| `MessagesRequest`, `ChatRequest` | the two request converters and the conversion of whole replies |
| `Conversation` | a client's history through several turns, with the corrections of a refused request |
| `Headroom` | which tool outputs are shortened and which originals stored |
| `Monitor` | the counters and the table of sessions |
| `LogFiles` | the rotating log and its older files |
| `Service` | requests with the three above, the sweep, the rotation loop and `Main`'s shutdown |
| `Daemon` | the subcommands of `cmd.go` and the life of `Main` |
| `*_proofs` | the theorems about the module of that name; `AdaptedStream_proofs` begins with the lemmas about the operators of the three stream converters; `Transcript_proofs` goes on from `Conversation_proofs` to what a request shows of the history |
| `MC*` | the instances TLC checks |

**Cooldown** (`retry.go:83-139`). `until` is the atomic deadline. `Wait` is
`EnterWait`, `WaitLoad` (load), then — after the clock may have moved —
`WaitOver` or `WaitSleep`, then `WaitTimer`, back to the load, or
`WaitCancelled`. `Extend` is `EnterExtend` (clock read, deadline computed),
`ExtendCovered` or `ExtendLoad`, and `ExtendSwap` or `ExtendRetry`. The history
variable `floor` holds the deadline in force when a caller entered `Wait`. The
refinement maps the deadline to the ticks left until it and the callers inside
`Wait` to the gate's waiters; a compare-and-swap that wins is the gate's
`Extend`, everything else before a return is a stutter.

**Forward** (`upstream.go:114-480`, `retry.go`, `server.go:120-180`). The
variables are `Forward`'s locals under their own names, plus `pc`, the response
in hand `reply`, the `WriteHeader` count `answers` and `resStatus`. A request
is one of four `Shapes`, which is what the code's conditions on path and route
distinguish. A reply is a record: status, how its body turns out (`Streams`),
whether its error text complains of an image or of thinking blocks, and its
parsed `Retry-After`. `StatusRetry` and `FallThrough` are the status check;
`OmitImages`, `RectifyThinking` and `KeepReply` the one-shot corrections;
`SemanticRetry`, `PrimeRetry` and the three `Deliver` actions the look-aheads
and the start of the response; `StreamEnds` the relay and the status it leaves
in the result. `Extend` and `Wait` are single steps here: that is what the
refinement `Cooldown ⇒ CooldownGate` licenses. A client that leaves makes every
later read come out "cut" or "dead", `Do` fail, and the backoff end in `Quit`.
What the relay reports at the end is `Truncations`: a stream that was cut is
reported, unless it is passed through, ends in order and has named a terminal event
("mentioned"); a body that is no stream never is, even if it broke off or was
clipped at 8 MB ("clipped"), since the error of its `ReadAll` is dropped.

**IdleWatchdog** (`idle.go`, `upstream.go:318-345`). One action per critical
section of the mutex: `Renew` (after `Read`), `Close`, the three outcomes of
`trip`, and outside it `Dispatch` (the timer fires and a goroutine exists),
`ReadReturns` and `CallOnIdle`. Several dispatched trips may wait for the mutex
together. `Close` may be called while a read is in progress, as `Forward` does
when a drain runs out of time.

**MessagesSSE** (`adapter_sse.go`) and **ChatSSE** (`adapter_chat.go:875-1508`,
`adapter_reasoning.go`). The converter is a record with the fields of
`messagesSSEState` and `ChatSSETransformer`, plus `view`, the client's view
(`ResponsesClient`): items announced and finished, open parts, how the turn ended,
and the faults, which are frames its protocol does not allow. There is one operator
per upstream event or method; a method that writes several frames composes their
effects on the view. Raw text is known by what the searches for `<think>` find:
for Messages, whether the tail of a block is held back and whether it or what was
shown has text besides tags; for Chat, what the buffer turns out to be
(`Judgements`).

**PassThrough** (`sse.go:181-270`, `:533-645`, `tool_shape.go`, `image_bridge.go`). What
upstream sends is already in the client's protocol, so the state is what the relay
and its transformers remember of it: how far each item has got (`at`), the calls
held back (`tracked`), the image calls run (`executed`), the tracker of `[DONE]`
(`sawDone`, `sawData`) and the sniffer of terminal events (`seen`). How often a
custom call's input was told and an image call was run, and what the terminal
event makes of each item, are kept for the properties. The items the bridge adds
take indices past upstream's own (`synthetic`).

**AdaptedStream** (`sse.go:116-527`, `stream_limits.go`). The three loops have one
shape, and `route` says which it is. An upstream event is taken in (`TakeIn` and
the actions that use it), the frames wait for the mutex (`Lock`), are written
(`Unlock`, `WriteFails`), and then `thinking` is stored. A soft error goes to the
detector, which sees it when its data line ends; the Messages converter and the
transformers see it only after the empty line (`whole`), and one that is not
complete even to the detector is `torn`. `EndOfBody` is the end of the body, in
order or not, with the converter's `Flush`; `RawEndOfBody` may find the client of
an unconverted stream in the middle of an event. There is no keepalive goroutine
on that route. The reader's deferred stop waits in `Return` for the
keepalive goroutine (`Tick`, `KeepaliveLock`, `KeepaliveUnlock`,
`KeepaliveStop`), whose `select` may prefer a tick.

**Conversation** (`adapter.go`, `adapter_chat.go:1-874`, `codex_tools.go`,
`image_fallback.go`, `thinking_rectifier.go`, and `upstream.go` where it puts them
together). The proxy keeps nothing between requests, so the state is the client's
`history`. Each item carries a stamp, `of`; a result has that of its call. The
client speaks, declares tools in its history, finishes tools in any order and drops
its oldest item when the history is full; `Ask` is the conversion of all of it,
`AskInVain` a request the proxy answers with 400. The upstream may refuse pictures
(`ImageRefused`, the request is made anew) or a thinking budget (`BudgetRefused`,
it is changed), fail, or reply, streamed or whole. `Request` reads a
converted request back into the same list of what was said, called and answered
that `History` makes of the client's items, and the properties compare the two.

**Service** (`server.go:120-180`, `headroom.go`, `monitor.go`, `log.go`,
`retention.go`, and `Main`'s deferred calls). One action per step of `handleForward`
that another goroutine could come between; `OpenOriginal` and `WriteOriginal` are
the two halves of `os.WriteFile`, `LoseOriginal` and `LoseOriginals` its failure for one
text and that of `MkdirAll` for all of them; `Judge` and `Remove` (or `RemoveFails`) are
those of the sweep, which remembers in between the time `Info` gave it (`seen`), and
`CheckSize` and `Rotate` those of the rotation loop. `FetchFailed` and
`StreamFailed` are the two failures that are events of their own; what else
`Forward` does between sending and answering is its own module's. The process is in
one of four setups, each with what one part of it is about (`MCService`).

**Daemon** (`cmd.go`, `server.go:330-408`). Processes run `Main` from `Arm`
(signal handler) over `Bind`, `MarkReady`, `ServeReturns`, `ClearReady` to
`Exit`; they crash, are signalled, killed or fail (`BootFails`, `ServeFails`), and
end as zombies while the `start` that spawned them is still to wait for them. A
process that is killed while it listens keeps the port until it `Dies`, for which
nobody waits. Operators run `start`, `stop` and `restart` (a stop and then a start)
one step at a time, each poll and each file operation by itself. Once a process has
ended, its PID is free, and may be given to the child of the next `start`, also when a
file left by a crash still holds it, or to an unrelated program.

### Abstractions worth knowing

* Time is discrete. In `Forward` and `CooldownGate` it is counted down, in
  `Cooldown` it is a clock; in `Daemon` every time limit may run out at any
  moment, which includes every real duration.
* `StatusRetry` includes the drain of the discarded body (at most 5 s, no
  decision depends on it). The statuses `Refuse` sends (400, 413, 502) are one.
* A body is known only by what the code's checks would find in it. Whether a
  rewrite finds something to rewrite is a free choice (`KeepReply`).
* In `AdaptedStream` an event other than a soft error is read in one piece, since
  a piece of it has no effect: it waits in `pending` and is parsed with the rest,
  at the next read or at the end. Frames about no item (`response.created`), usage
  and arguments are left out, and so are `<think>` tags inside each other. A
  Chat chunk has one tool-call fragment at most: more of them are as many chunks.
  The image bridge and the tool repair are modelled on the unconverted route; that
  they may be chained behind a converter as well is left out.
* The upstream of an unconverted stream keeps to its protocol until it breaks off:
  what the client is sent is then what the proxy makes of it. An image call may
  always fail.
* The upstream of a Messages stream sends its blocks one after the other, or text
  in a block that it never starts (which the code accepts from some); it may send
  `message_stop` and errors at any point, also again, and nothing is presumed of
  the order of Chat chunks. The client stops reading at `[DONE]`, and at the
  overloaded frame, as the comment at `sse.go:305` presumes.
* In `Conversation` texts, arguments and sampling options are left out, pictures are
  known by whether they are inline or a link, and a tool by its namespace and its
  name, a list of parts, so that a flattened name can meet one that was declared. Names
  over 64 bytes, which end in a hash, do not occur. A client asks only when every
  call since the user's last word is answered.
* In `Service` the log line and the event of one step of a handler are one step, as
  nothing reads the log and the monitor together. 400 stands for 413 too; `Infof`
  lines, output on stderr and partial writes on a full disk are left out, and so are
  the monitor's ring of events, minutes and durations. What a compressor makes of a
  text is a parameter of the text. The first sweep may start at any time.
  An original is always stored when an output is shortened: `StoreDir` cannot be empty,
  since `headroomConfig` (`config.go:185-188`) then puts the default in its place.
* In `Daemon` an unrelated program matters only at a PID that a file or a command
  knows, and only there is given one. A write of the ready file that fails leaves it
  as it was. Errors of `os.Remove`, Ctrl-C during a command and the two read-only commands
  are left out; the kill and the removal at the end of a start that timed out
  are one step.

## 3. Runs

| run | instance | what it shows |
|---|---|---|
| `cooldown` | 3 callers, clock to 2, delays 0 and 2, cooldown 1 | all interleavings of up to three `Wait`/`Extend`; safety, refinement, termination |
| `forward_request` | 1 request of each shape, `MAX_ATTEMPTS` 2, all replies | every sequence of replies a request can meet, with the client leaving anywhere |
| `forward_gate` | 3 requests, 429s with and without `Retry-After` | a 429 to any holds back all |
| `idle` | timeout 3, up to 3 trips at the mutex | all orders of trips, reads and closes |
| `idle_no_headers`, `idle_slow_client` | timeout 2 | *violations*, see 6 |
| `adapted_stream` | 2 blocks, 2 tool calls, 2 items of an unconverted stream, three routes | every sequence of upstream events, ended, cut, failing or overloaded anywhere, beside the keepalive goroutine and with a client that may leave; the unconverted stream in three protocols, with and without repair and bridge |
| `conversation` | histories of 5 items, 3 tools of which 2 have one flat name, a Messages and a Chat model | every history with every reply and refusal: nothing said, called or answered is lost, moved or renamed |
| `service` | 3 requests, 2 sessions and a table of 1, 2 older log files, 3 hours | every order of handlers, sweep, rotation and shutdown, with one failure of the log and one of the disk |
| `daemon` | 2 operators, 2 PIDs | commands that overlap, crashes, signals and kills, a port that is taken, PIDs given again to children and to strangers |
| `daemon_shutdown`, `daemon_strangers` | 1 operator | *violations*, see 6 |

**Bounds and why they are enough.** Two `Extend`s are needed for a lost
compare-and-swap, a third caller to raise the deadline under a sleeping `Wait`;
two distinct delays give a longer and a shorter deadline, and a clock of 2 lets
both be in force after one has been overtaken. `MAX_ATTEMPTS` 2 separates the
first, the last and (with the extra retries) the attempts beyond it; 501 is
retryable and rectifiable at once and 404 retryable for some shapes only, the
two places where the conditions overlap; all four extra retries can occur in
one request. Three requests are one that meets a 429, one at the gate and one
past it. For the watchdog, a timeout of 3 leaves room for a read between the
firing of the timer and its deadline, and three trips is more than can pile up
usefully: a timer is set again only by a read or by a trip. Two content blocks or
two tool calls are a good and a dropped one, or a shown and an unseen one, next to
each other, and with reasoning and a message they are all sorts of items; three
blocks (a million states) give the same result. The bridge's two failed calls need
four indices of its own; `syntheticIndexBase`, 2 here and `1 << 20` in the code, keeps
them apart from upstream's two. Five items hold a user's word, two
calls and their results, or a declaration, a call under it and the next question;
a history that is full is trimmed and goes on, so that conversations have no
length. A `tool_choice` is tried with histories of up to three items, a declaration, a
word and one more. Two sessions and room for one evict at every change; with
`maxLines` 0 each line asks for a rotation, and three lines with two older files push the
oldest out. Three hours and a retention of one let a file be stored, expire, be judged and
stored again. Two PIDs are a
predecessor and a successor, and as they are given again there may be any number of
processes one after the other, at most two at a time; two operators are the least for
commands to overlap. Everything proved in section 5 holds without these bounds.

Deadlock is checked where the system never stops by itself (`cooldown`,
`daemon`, `conversation`) and in `service`, where an exited process stutters in a
step of its own (`Terminated`), so that a close that waits for ever is found; a
request that has ended and a closed stream do stop. `conversation` has a `VIEW` that
renames the stamps, which are only compared, and leaves out what follows from the
rest; `forward_gate` and `service` are symmetric in the requests. No liveness property is
checked under either.

Each property is listed with a mutant of the code in `PROJECT.json`: a small
change of one action, such as a plain store for the compare-and-swap, after
which that property is violated on the same instance. The mutated operators sit
next to the definitions they change and are used by no specification.

## 4. Fairness

* `Cooldown`: the clock runs and goroutines are scheduled (weak fairness of each
  call's steps). The compare-and-swap loop needs no strong fairness: a failure
  means the deadline has grown.
* `Forward`: goroutines are scheduled, time passes, and an upstream call ends —
  it is answered, fails, or is cut off. The last is an assumption on the network
  that the code itself guarantees only once headers have arrived; section 6
  shows what happens without it.
* `IdleWatchdog`: the proxy's goroutines and the timer run. The upstream owes
  nothing, nor does the client: `ReadsReturn` holds with no fairness for either.
* `AdaptedStream`: goroutines are scheduled, the mutex is not withheld for ever
  (Go's mutexes are fair to a waiter after a millisecond), and `select` does not
  always prefer the ticker to `stop`; these are strong, since the other goroutine
  disables the step again and again. Upstream and client owe nothing:
  `HandlerReturns` is about a reader that is done.
* `Daemon`: processes and commands run, their waits being limited. Requests need
  not end, and nobody need ever run a command.

## 5. Proofs

Each proof module states an inductive invariant, shows that it holds initially and is
preserved by every action, and derives the theorems from it. The assumptions are the
named `ASSUME`s on the constants, which TLC evaluates in every run. Those of
`Cooldown`, `Forward`, `IdleWatchdog` and `Headroom` say what the clamping in `config.go`
guarantees; `LogAssumption` and `MonitorAssumption` that a log has a size and a table a
limit. `MessagesAssumption`, `ChatAssumption` and `OwnAssumption` say that the indices
bounding the model leave room for every block, call and failed image call, and that the
bridge's begin above upstream's, as `1 << 20` does in the code. `ServiceAssumption` and
`DaemonAssumption` say what a request's body looks like, and that no PID means "none".
`ConversationAssumption` says of a tool list outside the input that its names are not in
namespaces and that no name occurs twice, which every upstream demands; nothing is
presumed of the lists inside the history.

| module | theorems |
|---|---|
| `Cooldown_proofs` | `TypeCorrect`, `DeadlineIsMonotone`, `NoExtendLost`, `WaitIsNotEarly`, `CooldownImplementsGate` |
| `Forward_proofs` | `TypeCorrect`, `AttemptsAreBounded`, `StatusIsHonest`, `CooldownIsHonoured`, `ForwardImplementsRelay` |
| `IdleWatchdog_proofs` | `TypeCorrect`, `StreamsAreGuarded`, `TripsAreNotEarly`, `QuietOnceClosed` |
| `AdaptedStream_proofs` | `FramesAreWhole`, `KeepaliveIsNotLate`, `ReportIsHonest`, `EveryTurnEnds`, `NobodyEmptyHanded`, `TypeCorrect`, `FramesAreWellFormed`, `ReasoningIsLast` |
| `Service_proofs` | `TypeCorrect`, `TrueCounts`, `WholeLog`, `ServedOriginals` |
| `Daemon_proofs` | `TypeCorrect`, `TrueStart`, `AlwaysManageable`, `EffectiveStop` |
| `Conversation_proofs` | `StaysIntact`, `TypeCorrect`, `OneNameForOneTool`, `ReasoningStaysInTurn`, `ResultsFollowTheirCalls` |
| `Transcript_proofs` | `StaysAsked`, `TranscriptIsFaithful` |

`DeadlineIsMonotone` has no run of its own: TLC checks it as a part of
`ImplementsGate`.

**Cooldown.** Neither "the deadline never moves back" nor "a wait is not early"
says anything about the values a goroutine has loaded, so the invariant adds
what each goroutine knows (`Knows`): the deadline a `Wait` loaded and the
moment its timer is set to are no earlier than `floor`, and an `Extend`
about to swap has loaded less than its target. A swap that wins then raises the
deadline, and a wait that ends has seen a deadline at least its floor pass. The
refinement needs the bound `until <= MaxNow` as well: the gate's `MaxDelay`.

**Forward.** `AttemptsBounded` is not inductive without knowing which shapes may
use which retry (`FlagsFit`); the refinement adds that every call made has been
counted by `attempt` in this round or by a whole earlier round (`CallsCounted`),
strictly so at the gate, and that a response has begun exactly if the goroutine
is relaying or finished (`OneAnswer`). `CooldownHonoured` follows from
`owed <= cooling`: the shared gate never promises less than the 429s together.
`StatusIsHonest` names the two breaks that the code does not notice (`Unnoticed`), and
excludes every other way for a broken response to count as a success.

**IdleWatchdog.** The timer and the time since the last read add up to the
timeout while a timer is set, and the recorded `quiet` is the true one until the
reader is fired or closed. That makes `TripEarly`'s new timer come due exactly
at the deadline, and `AlwaysGuarded` inductive.

**AdaptedStream.** There are three invariants. `Locked` is mutual exclusion together with
"a handler that has returned has waited for the other goroutine"; no converter is
expanded for it. `Judged` relates what is still to come to what has been said: while the
reader runs, the converter is in order and the client's view has no end it does not know
of; once the stream closes, the report to the monitor and the end the client saw have
been judged by the same event. `HonestReport`, `TurnEnds` and `NoEmptyHanded` speak of
the returned handler only, so they say nothing about the steps before. `Shaped` is what
well-formed frames need: for each converter, which items and parts it believes open,
that the client was told of just these, and that an index not yet given out is unknown to
the client (`MessagesShape`, `ChatWell`, `RawWell`). Each event of each converter is one
lemma of its own, so that the theorems hold for any number of blocks,
calls and items.

**Service.** The counts of `CountsAreTrue` are cardinalities of sets of requests, one
of which a step moves from one set to another (`Balanced`, `SessionsBalanced`); what
a request's own step knows, its session and whether it was counted, is part of `Typed`.
A log is whole when the lines of the files, oldest first, are those that were written;
inductive it is only with the place where a rotation stands (`LogInOrder`,
`LogUnbroken`). An original can be had because every text a request is through with was
stored or its storing failed (`OriginalsHad`), and because a sweep that removes the very
file it has seen removes one older than the retention, as that file is no older than the
text's last storing (`StoreInOrder`). The three exceptions are part of the statement: what
could not be stored, what is torn while it is written again, and what a sweep removed
instead of the older file it had seen. The theorem says that there is no other way to lose
an original; in those three the code does lose it.

**Daemon.** `StartIsTrue` needs that no two starts have the same child, that the PID of a
child is not given away while its start deals with it, and that the ready file names such
a child only if the child wrote it (`bound`) or it was there, with this PID, before the
child was (`misled`; all in `Orderly`). It thus says that a stale file is the only thing
that can make `start` report success too early. `Manageable` is about commands that never
overlapped, and so is the rest of its invariant (`Undisturbed`): which file names the
process that serves at each step of a start or a stop.

**Conversation.** `Intact` says that stamps are unique, that every past call is what the
model meant, and that the request in hand is `MadeOf` the history, whichever
corrections it has gone through; without the last, a second correction could be made of
anything. The client is told the right tool because the restore table of
`buildCodexToolContext` maps every flat name back to the one identity that was declared
under it (`ContextFits`), and a past call is shown under the present name because the
converters keep the names of the input (`MessagesNames`, and `Fits` for the state of
`inputToChatMessages`). The converters are folds. The prover cannot use a theorem of induction whose
parameter is an operator, so the induction over the length is made anew, from the
least element of a set of numbers, for each fold (`CarriedByInduction`,
`PlacedByInduction`, `FlattenByInduction`): what is proved by it is a named invariant of
the accumulator. That of `ReasoningInTurn` is `InTurn`: after the first `n` items, each word
of the user among them has been said once and none is in the message last or after it, and
each thought among them still waits or is in one message only, after just those
words of the user it came after in the input. Stamps are unique and the
input leaves the history's order as it is (`Follow`), so that a turn of the input is a
turn of the history and the words before a thought can be counted in either.

`ResultsFollowCalls` needs the client's side of the protocol too, since the Chat
converter only keeps an order that it is given. `Polite` adds to `Intact` that between a
call and its result, or the end of the history while the call is open, the user says
nothing and no call comes after anything but a call (`Talk`), and that nothing is open
once a request is out. Where no text of the model stands right before a result, it then
stands nowhere between a call and a result (`TalkConversed`), and the accumulator keeps
`Answering`: a call whose result is still to come either waits to be placed, or is in a
message with nothing but results behind it. Whose message that is, `Rendered` says: the
tool's own, the user message with its picture right behind the tool's, or one for a result
whose call is lost (`FollowPairs`). For a Messages upstream nothing is asked of
the client: a call has one result because stamps are unique (`OneEach`), so
`normalizeToolResultOrder` makes blocks of a message and at most one result
(`NormalizedPairs`), and leaving out the system texts tears none apart (`FilteredPairs`).

**Transcript.** `FaithfulTranscript` needs no invariant beyond `Polite` and that a client
asks after the user's words or a result (`Asked`): what is out is `MadeOf` the history, so
the whole proof is about the converters. What they show and what they should show are both
written as `Spread(f, s)`, what `f` makes of each element of `s`, one after the other; that
a spread of a spread is a spread (`SpreadTwice`), and of a joined sequence the joined
spreads (`SpreadFlatten`), is proved once.

* *Messages.* Each item becomes one message that shows one thing, or nothing
  (`ItemBears`), and no two show the same, since only a call and its result share a stamp
  (`BearsOne`). Moving the results loses none, because one is made only for a call of the
  same input; it repeats none, because a call has one result; and it moves nothing else
  (`NormalizedWell`). Two sequences of the same things without repetition are as long
  (`DistinctAlike`).
* *Chat.* The accumulator of `inputToChatMessages` keeps `KeepsView`: the messages so far
  and the calls that wait show the same things as the items so far, and as many. If no text
  stands directly before a result (`Spaced`), they show them in the same order too; for
  this the accumulator also keeps that a message which calls may still join is the last one
  (`Late`). Where a text does stand there, a later call joins it from behind the result:
  that is the exception `TextBeforeResult`, and it costs the order only.
* *Pictures.* A Chat request has the pictures of all its items, or none (`ChatPictures`). A
  Messages request has that of the current item, which is the last one, as the client asks
  after a user's words or a result (`LastIsCurrent`). Either holds of the corrected request
  as well, since the correction decides with the same two flags (`TriesAre`).

What stays with TLC: the liveness properties (`CallsReturn`, `Served`,
`ReadsReturn`, `HandlerReturns`, `CommandsReturn`, `SignalEnds`), since the prover
has no rule for fairness and `ENABLED`. Every other property of a passing run is stated by
a theorem.

## 6. Where the code and its comments disagree

Each of these has a run in which TLC finds the violation.

* **No time limit before the headers** (`idle_no_headers`). `idle.go:9` promises
  to reclaim a connection on which not one byte arrives; the watchdog starts
  after `client.Do` has returned.
* **A slow client looks like a silent upstream** (`idle_slow_client`). The time
  spent writing to the client counts as idle time, so a stream that is arriving
  is cancelled. An image call of the bridge counts the same way.
* **Shutdown does not wait** (`daemon_shutdown`). `server.go:381` promises up to
  five seconds for the requests in flight; `Serve` returns as soon as `Shutdown`
  begins and `Main` returns with it.
* **`stop` after a crash may hit a stranger** (`daemon_strangers`). Both files
  survive a crash and agree with each other, which is all that `stop` checks.

What follows has no run of its own. Where a property or a definition is named, the
behaviour is an exception to that property, and TLC finds it when the exception is
taken out; the rest are remarks.

*Retry loop.* `upstream.go:286` says that the thinking correction does not use up
`MAX_ATTEMPTS`; it takes `continue`, and the loop's post statement counts (`:314`). A
retryable failure after it is delivered instead of retried.

*Honest status.* The comment at `upstream.go:454` says that what was truncated
does not count as completed. A whole reply that breaks off, or is longer than 8 MB, is
delivered clipped and recorded as 200: `upstream.go:744` drops the error of `ReadAll` and
returns "not truncated". So is a stream passed through that stops, in order, after a
text that names a terminal event (`sse.go:598-636`). `HonestStatus` excepts these two
(`Unnoticed`). A stream that fails with no kind the detector knows may count as either.

*Daemon.* `start` waits 「等子进程写出 ready（bind 成功）」 (`cmd.go:163`, for the child to write
the ready file, having got the port), but does not clear the file first: after a crash it
may hold the PID that the new child is given, and `start` reports success before the
child has the port, or although it never gets it (`misled` in `StartIsTrue`). `stop` does
not wait after its SIGKILL (`cmd.go:218`), so that the start of a `restart` may find the port
still taken and fail. Two proxies started at the same time can leave the survivor without a
PID file; `Manageable` is stated for commands that do not overlap, and the run
still explores the ones that do for its other properties.

*Converters.* A Messages turn with thinking only ends in `output_item.done` for a
message that was never announced, and text in a block that upstream never started
is shown without its part having been announced (`WellFormed`). A fingerprint
cooldown whose last newline comes in a later chunk ends the Messages loop before
the converter has parsed it, so that the client is sent nothing at all
(`TurnEnds`). A dropped Chat tool call leaves a gap in the announced indices; the
comment at `adapter_chat.go:1510` speaks of the allocated ones.

*Unconverted streams.* `[DONE]`, or the overloaded frame, is glued to an event that
lacks its end and is lost with it (`cut` in `TurnEnds`), although `sse.go:253` promises
one in that very case. A terminal marker in an event that was cut, or in a text that
mentions it, counts as a success when the body then ends in order (`mentioned` in
`HonestReport`); the reason given at `sse.go:598`, that quotes inside a JSON string are
escaped, does not apply to markers without quotes. Chat Completions have no
marker, so each of their streams is reported as truncated. An image call that
fails announces its error item under one index and finishes it under the next
(`WellFormed`), so that a completed turn has an item open. Also so, though no
property says otherwise: a soft error reaches the client before `server_overloaded`;
`failed` and `incomplete` count as an end; a soft error that lacks its empty line
passes a transformer's `Flush` unseen; an image call that fails in the terminal event
stays the function call it was; and `doImageAPI` cancels its context before
its caller reads the body (`image_bridge.go:413`), which makes failures of large
images likely.

*Conversation.* The picture in a tool result is shown to a Chat model in a user message of
its own, directly behind the tool's (`adapter_chat.go:498-503`). When several calls are
answered and one but the last has a picture, that message stands between a call and a
later tool's answer, where Chat Completions expect answers only (`Returned` in
`ResultsFollowCalls`). A whole Chat reply with a text and a call is kept with the call
first; a later call is then merged into that text although it is not the last message,
as the comment at `flushPendingToolCalls` has it, and results no longer follow their calls
(`Ordered`, `TextBeforeResult`). A tool in the history, outside namespaces, whose name is the flat
name of another is dropped without an error, against `codex_tools.go:25`; one
namespaced tool declared twice is an error, so that the exception for equal
identities at `:157` is never used. The request made anew without pictures has
lost the bridge's tool and a raised budget. Pictures in tool results do not count
as pictures when a refusal is judged; the picture of a result without its call is
written out as JSON text (`PicturesFit`), and that of a user's word in the middle of a
turn is dropped for Messages. The system text of a Chat request leaves out `input_text` blocks.

*Service.* A sweep removes by name a file it judged earlier and that was written anew
since (`raced`); an original that cannot be stored is referred to all the same
(`unsaved`), as the code intends; `WriteFile` empties the file first, so that for a
moment there is less (`BeingWritten`). A session that was evicted comes back with
zero counts (`evicted`); an aborted request was received and never finishes. After
a rotation whose open or close fails the log is silent for good, and an older file
whose rename fails is overwritten (`faults` in `LogIsWhole`). The sweep looks under
`LOG_DIR`, the store may be configured to be elsewhere. With `latest-per-type` an output is shortened only
while it is the latest of its type.

## 7. Not modelled

* The image bridge and the tool repair behind a converter and in whole replies, and
  the image upstream's protocol: the transformers are the same code, called from other
  loops.
* The wording and the parsing of all of it: arguments, usage, sampling options,
  compressors, how complaints are recognised. They are functions of one text,
  better tested than modelled.
* The error bodies that `capture.go` keeps: nothing reads them.
* The dashboard, token estimate, skill installer, route table, configuration
  parser and service scripts: no state that a second actor could disturb.

## 8. Plan

*Done:* all modules of section 2, and proofs of every property but those that section 5
leaves to TLC. What is left, in this order:

1. The transformers behind a converter.
2. The relay as what `Forward`'s `StreamEnds` presumes of it.
