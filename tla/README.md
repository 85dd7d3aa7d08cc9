# A TLA+ verification of gotel-reserves

gotel-reserves ("recallo") is a Go server for guest video meetings: it opens LiveKit
rooms, follows them through webhooks, and turns their recordings into transcripts and
summaries with a Redis job queue. Next to that it has accounts, private chats and a
WebSocket hub. This directory holds TLA+ models of its core, the TLC runs that check
them, and TLAPS proofs. Every action names in `PROJECT.json` ("map") the lines it stands
for.

## 1. The system

| component | state | operations | interacts through |
|---|---|---|---|
| Job queue (`internals/jobs`) | table `job_queue`; Redis lists `queue:<type>`, `queue:dlq`, set `queue:delayed`; the job in each worker's hand | `Enqueue`, `EnqueueTx`, worker loop, retry, bury, delayed scheduler | the caller's transaction, Redis, handlers |
| Rooms service (`internals/rooms`) | table `rooms` | create, token, end, extend, reads | LiveKit API, webhooks |
| Session enforcer | the list of one tick | query, `EndRoom` each | rooms service |
| Webhook receiver (`internals/webhooks`) | tables `webhook_events`, `rooms`, `recordings`, `room_participants` | store event, dispatch to six handlers | LiveKit, job queue |
| LiveKit client | none | create, delete, count, mint token | LiveKit server (external) |
| Transcription | table `transcripts` | handler of `transcribe` | Deepgram, object storage, job queue |
| Summarisation | table `summaries` | handler of `summarize`, chunk and reduce | Grok |
| Insights | none | derive a step from four tables | polling clients |
| Hub and WebSocket (`internals/realtime`, `routes/websocket.go`) | connections per user, a channel per connection | register, unregister, fan-out, three pumps | chat, presence |
| Private conversations (`handlers/convo.go`, `models`) | tables of conversations and messages | find-or-create, send, deliver, read, paginate | hub |
| Accounts and sessions (`handlers/login.go`, `user-session.go`, `oauth.go`) | table `users`, one refresh token per platform | register, sign in, refresh, sign out | HTTP, devices |
| Files, user search, configuration, logging | files on disk | upload, reads | HTTP |

What is hard in it:

* Redis and Postgres are written by separate commands. A job is pushed *before* its
  transaction commits, so a worker may be faster than the commit, and a rollback leaves a
  phantom job.
* A job lives in memory between BRPOP and the end of its handler and between ZREM and
  LPUSH. No reconciler exists, although several comments count on one.
* A room exists twice, as a row and in LiveKit. They meet through calls one way, and through
  webhooks that are repeated, reordered or given up the other way. An event is recorded
  before its handler runs, and a handler that failed is never run again.
* Requests check a row and act later; the enforcer works through a list that may be stale.
* The hub's maps are ranged over without its lock, or under a copy of it; a channel may be
  closed while somebody still sends on it, and a sender may wait for room in it with the lock held.
* Presence and messages are events that a full channel drops and that overtake each other.
* `Hub.Shutdown` closes connections one by one and drops the map while their handlers, which the
  HTTP server's shutdown does not wait for, run on.

`PROJECT.json` lists these and the others as hazards, each at its line, with the properties
that would catch it going wrong. What makes each component correct is the list of properties
in section 4.

## 2. Modules

```
JobLife          what the queue promises about one job (abstract)
  ^ refinement
JobQueue         Redis, Postgres, producers, workers, schedulers
Pipeline         egress webhooks, job handlers, insights;  uses JobLife as its queue
RoomLifecycle    rooms service, enforcer, room webhooks, LiveKit
Hub              connections, presence, channels, pumps, messages and receipts
Services         composes the parts below, which share nothing
  Conversations  opening a private conversation
  History        the pages of a conversation
  Accounts       one person's account and sessions on several devices
  Attendance     participant webhooks and room_participants
  MapReduce      chunks and partial summaries of a long transcript
  Presign        the lifetime of a recording's URL
MC*              small instances for TLC
*Proofs          theorems checked by TLAPS
```

`Pipeline` does not see the Redis lists. It composes with the queue through `JobLife`, and
`ImplementsJobLife` shows that `JobQueue` keeps that promise.

Each module takes a constant `FaultSets`. A behaviour picks one set in `Init`, keeps it in
the variable `faults`, and only those failures may happen in it. Properties that a failure
breaks by design say so (`... /\ faults \intersect {...} = {} => ...`), so that one run
covers the behaviours with and without it.

### JobQueue

One action is one command to Redis or Postgres. `tx[j]` is the producer's transaction (`InsertJob`,
`PushReady`, `Commit`, `Rollback`), `row` what other transactions see of `job_queue`,
`ready`, `delayed`, `dlq` the Redis keys, `due` the members whose score has passed. A worker
goes through `pc`: idle, popped, handling, then succeeded, or failing and retrying or dead; each
transition is one command of `workerLoop`, `process`, `handleFailure` or `moveToDLQ`. The
scheduler of each process has the snapshot it still has to go through (`todo`) and the member it
has claimed. `runs` and `done` are history. A status write hits nothing while the row is not
committed, and may fail (`"status"`). `"reply"` is the loss of Redis' answer: the element is
gone and nobody has it. A crash empties what a process holds in memory; a shutdown, which
cancels the contexts of workers and scheduler without waiting for them, is the same.

A command takes effect once or not at all. go-redis repeats a command whose answer was lost
(`cache/redis.go` keeps its default of three retries), and an LPUSH that took effect and is sent again is a second copy
of its job: that is outside these faults, and `OneCopy` is stated without it.

Left out: payloads, malformed envelopes (none is ever pushed), the length of the backoff
(a due job is one whose backoff has elapsed; unless `"slow"`, that is after the 3s a status
write may take).

### RoomLifecycle

`row` is the rooms row, `lk` the LiveKit room, `creating` the creating request, `calls` the
requests and the enforcer's call between their check and their effect, `expired` the
rest of the enforcer's list, `sent`, `stored` and `dispatching` an event on its way. The row is
only written by the insert, by `markExtensionUsed` and by the two webhook handlers. Time counts
in minutes: `age` since `started_at`, `token` what is left of a room's longest token.
A token request waits for LiveKit's participant count, at most 10s, so that it may see
one minute begin (`late`). The host check of `EndRoom` is left out: callers stand for the
host. LiveKit is external, known from what the code sends it and expects of it: a room is
created once, closed by DeleteRoom or by `empty_timeout`, and both are told by an event. That LiveKit may create
a room again when somebody joins it with a token that outlived it is left out.

### Pipeline

One room. `sent` and `handled` are the egress events, `rec` its recordings, `ending` the open
transaction of `handleEgressEnded` and whether its UPDATE hit a row. Jobs are records; the
transcribe and the summarize handlers are sequences of steps (`stage`) inside the active life
of a job, `Fail` is a returned error, which JobLife turns into a retry or a burial. A commit
may fail (`"rollback"`) or succeed without an answer (`"unsure"`). `InsightsStep` is the `switch`
of the insights handler over the state.

The transcribe handler looks at neither the status nor the `file_url` of the recording it finds. When
it is faster than the transaction of `egress_ended`, it presigns the empty key and asks Deepgram for a link that leads nowhere
(stage `"unlinked"`). What Deepgram makes of that is external: an error, which costs an attempt, or under the fault
`"deaf"` an empty text, which is stored as a transcript like another. `Provenance` tells the two apart.

Storing an event and running its handler are one step here (RoomLifecycle has them apart); an
event stored and not handled is the fault `"dispatch"`. The recording status `failed`, which no
code writes, is left out.

### Hub

`hub` is `Hub.Clients`, `lock` the holder of `Hub.mu` where it may have to wait, `pc[c]` the place of a
connection's handler from registration to `Close`, `buf[c]` its channel, `heart[c]` its
heartbeat, `pumping` the write pumps that have not given up, `marking` the goroutines about to
reconcile messages, `msg` the messages table. `view` is what a client makes of
what it was told, `shown` the messages that a pump wrote to a socket of their receiver; the client is external. Critical sections are one step, but for
`SentCurrentClients`, which may wait under the lock (`GreetLock`, `GreetSend`), and for `Shutdown`.

`main` goes from "runs" to "closing" and "done": `ShutdownStarts` takes the lock, `ShutdownClose` closes one
connection of the map after the other, `ShutdownEnds` replaces the map, and `MainReturns` ends the process, at any time
after. The handlers run on throughout. One that waited for the lock unregisters from an empty map, silently; one that was
about to greet finds its channel closed and ends in a panic (`GreetPanics`); a range that began before goes on over the maps
that were dropped (`dropped`), whose channels are closed (`RangePanics`); a heartbeat does the same and ends the process. A
connection that comes late is registered in the new map, and served until the process ends.

A range over connections has two steps: it begins and notes what is there (`walk.there`),
and it sends. Go's map iteration promises that an entry that is there throughout is reached and
one that is removed before it is reached is not; an entry added meanwhile may be (`Reaches`). What lies
between two of its sends never waits, so that splitting it would only add orders in which different
channels are filled. What Go leaves undefined is the fault `"race"`: the runtime
may notice a write to a map in use and end the process (`MapsRace`), a connection fetched just before
it was closed makes the send panic (`RangePanics`), and a copy of a locked mutex stays
locked (`Broadcast`).

### The parts of Services

*Conversations*: each request looks, looks again inside `CreatePrivate`, inserts and reads back; the
table's UNIQUE and CHECK are `Admits`. *History*: messages are numbered by `created_at`, a reader asks for
page after page while messages are saved. *Accounts*: every statement of the five handlers is a step;
tokens are numbers in the order stored. *Attendance*: LiveKit's participants,
its events under way, and the row each upsert leaves; only whether a time is NULL is kept.
*MapReduce*: positions in runes, one step per turn of the loop and per call of the model. *Presign*:
seconds.

They share no table and no memory, so an interleaving of two of them has no behaviour
that one alone has not: `Services` picks the part that moves, and the others rest. The table of messages
is in Hub (delivery) and History (order); neither reads what the other keeps.

## 3. Fairness

Safety properties are checked without any. `FairSpec` adds weak fairness of
what the runtime does by itself: goroutines that have work go on, tickers fire, a
transaction that was begun ends, a begun request ends (the HTTP client of LiveKit times
out after 10s), time passes, and LiveKit repeats an event until it is accepted (its documented
delivery), unless the behaviour has the fault `"lost"`. Nothing obliges a user to act, a handler
to succeed, or a failure to happen. In Hub the handlers'
own steps and the goroutines are fair; what clients send, when they leave, tickers and failures are
not, and main shuts the hub down only under the fault `"stop"`.

## 4. Runs

| run | bounds | shows |
|---|---|---|
| `job_queue` | 2 jobs of one type, 2 workers and 2 schedulers in 2 processes, 2 tries; {push, zadd, dlq, reply, crash, status}, {rollback, status, slow}, {slow} | `OneCopy`, `AttemptsCountRuns`, `FinalRowsTrue`, `RunningHasWorker`, `NoLostJob`, `FinalRowsStay`, `ImplementsJobLife` (refinement), and `Settles`: a committed job succeeds or is buried |
| `room_lifecycle` | 1 room, 2 callers and the enforcer, sessions of 3 minutes, age up to 6; all faults, {insert} | `RowFollowsLiveKit`, `NoOrphanRoom`, `TokenWithinSession`, `ExtensionsBounded`, `StatusAdvances`, `EnforcerNotEarly`, `LiveEnds`, no deadlock |
| `pipeline` | 1 egress, 2 tries; all faults, {egress}, {egress, rollback, unsure, provider, slow} | `Provenance`, `PhantomsNeverSucceed`, `OneTranscription`, `StuckExplained`, `InsightsAdvance`, `EndsInSummary`, `Accounted` |
| `hub` | 2 users, one with two connections, 1 message, channels of 2 events; twelve scenes (146,000 states) | `HubFollowsHandlers`, `PresenceAtRest`, `MessageNotForgotten`, `EventsTrue`, `Greeted` |
| `services` | 4 requests of 3 users; 7 messages, pages of 1 to 3; 3 devices, 3 tokens; 2 people, 5 events; lengths 0 to 9; durations around both bounds | `OneConversation`, `HistoryLosesOnlyCut`, `SessionHeld`, `AttendanceTrue`, `ChunksCover`, `SummaryRestsOnAll`, `URLOutlivesDownload` |
| `history_complete` | 5 messages, pages of 2 | violated: a page skips the row it cut off (`README.md:99` of the repository) |
| `room_started_is_live` | no faults | violated: `room_started` before the insert is used up (`rooms/service.go:35`) |
| `room_extended_token` | no faults | violated: tokens are refused in the extension (`rooms/service.go:454`) |
| `room_extended_once` | 2 racing callers, no faults | violated: both get the one extension (`rooms/service.go:243-244`) |
| `pipeline_order` | no faults | violated: `egress_ended` before `egress_started` (`integration_livekit.md:193-195`) |
| `attendance_order` | 2 people, 3 moves, reordered events | violated: a late `participant_joined` shows somebody who has left (`webhooks/handler.go:138`) |
| `hub_reconnect` | one scene, no faults | violated: a second connection takes over from the first and nothing is reconciled (`README.md:9,209,212` of the repository) |

Why the bounds are enough. *Queue*: a race needs two parties, and there are two of each that can
race: two jobs in one list, two workers, two schedulers in different processes (so
that one can crash and the other not). Two tries make a first run, a retry through the delayed set and a burial. *Rooms*: rooms share nothing but
the enforcer's list, from which a room is taken without looking at the others. Two callers and the
enforcer race on the room. With sessions of three minutes and extensions of one, the age cap 6
lies beyond the longest window (5), which `CapIsBeyond` asserts. *Pipeline*: egresses of a room meet
only in `InsightsStep`; `InsightsAdvance` is stated for one recording and would not hold for
two, since a second recording takes the step back from "transcribing" to "recording". `EnqueueCap` 2
leaves room for the second transcribe job that `OneTranscription` excludes. *Hub*: presence needs a user who comes back, on another
connection, and one who watches; two connections of one user make the first-in and last-out decisions
race. Channels of 2 instead of 512 fill up: one event of somebody else and one of one's own are enough to
drop the next, or to make `SentCurrentClients` wait. A scene fixes who is connected, who may
come and go, which failures may happen and what is sent; together they let every action fire. The last two stop the process, one while
a message is on its way and another connection comes. A
single instance with all of it at once is too large. *Services*: a page size of 3 and 7 messages give three
pages; windows of 3 with overlaps from 0 to 4 take both sides of every comparison in the loop, and
lengths to 9 make up to seven chunks; a third device tells the platforms apart; five moves let a person leave and come back
while another is there. The job queue and the pipeline
stop when all jobs and egresses have ended, the hub when the process has, and the services at their
bounds, so their runs do not check for deadlock. The room run does.

Every property of a passing run has a mutant, a definition next to the original
that makes a plausible mistake (an unchecked ZREM, a retry recorded in Postgres only, an insert
failure without clean-up), under which TLC finds the property violated.

The violated runs are disagreements between the code and what it or its documentation says;
`PROJECT.json` quotes both sides. Others were met and have no run: `insights.go:24` has a status
"failed" for a failed job, which no job ever causes; `transcripts/service.go:130` says DO NOTHING where the
statement is DO UPDATE; the first backoff is 4s where `worker.go:124` says 2s. The largest of them: the error of an LPUSH is
dropped and the transaction commits (`client.go:86-92`), and nothing in the repository reads `job_queue` again, although
`client.go:52-53` says that "the reconciler guarantees eventual re-queue from the Postgres row". In the model such a job has a
row and no copy; `NoLostJob` names a failed push among the five failures that lose a job.

What the model shows of the hub and the services beyond the properties, which name these cases
as exceptions:

* An "offline" sent after the lock was released may overtake the "online" of a user who came back, who is
  then online and shown to nobody (`PresenceAtRest`).
* A message put into the channel of a connection that goes before its pump has written it is dropped with the channel. When
  the user has no other connection then, the next one marks it; when another connection has taken over already it is neither shown
  nor marked (`MessageNotForgotten` names the case, `hub_reconnect` shows it).
* A handler waits for ever under the hub's lock when its channel is full before its pump starts (`Jammed`).
* A heartbeat that sends after the teardown panics, and the process ends (`HeartbeatPanics`).
* `AttendanceTrue` asks for presence only when no event overtook another; `attendance_order` shows what happens when one did.
* `ExtensionsBounded` allows one extension per racing caller; `room_extended_once` shows two.
* While `Shutdown` goes through the map, closed connections are found in it, and a send to one panics; after it, served
  connections are not (`HubFollowsHandlers` says when).
* A refreshed token whose answer is lost leaves a session that nobody holds (`SessionHeld`).
* A message saved while a reader turns the page shifts the pages, so that one is shown twice
  (`HistoryLosesOnlyCut`).

## 5. Proofs

Every safety invariant and every action property that a run checks is a theorem.

### Job queue

`TypeCorrect` (JobQueueProofs), `Spec => []TypeOK`. `TypeOK` is not inductive: `HandlerFails`
adds one to `attempts`, and nothing in `TypeOK` keeps the sum below `MaxRetries`. `TypeInv`
adds that an envelope that still has to run, in a list, the delayed set, a scheduler's or
a worker's hand, has an attempt left, and is split by place (`RowsOK`, `ReadyOK`,
`DelayedOK`, `HeldOK`, `DrainOK`) so that each action touches few parts.

The other properties of the queue, all but liveness (JobQueueCopiesProofs). None is inductive: each needs to know
that the step of one worker or scheduler concerns no copy of the job elsewhere. `PlaceInv` says so: a job has one
place at most (`Spots`: a ready list, the delayed set, the dead-letter list, a worker, a scheduler), is there
once, and has none before its push or after its success. A lemma per action (`PopMoves`, `ClaimMoves`, ...) says from which place to
which it moves one job; the rest is argued from those, never from the lists and sets themselves.

* `AlwaysOneCopy`: `PlaceInv` gives it, with the cardinality of a set of one.
* `AttemptsAlwaysCount`: `CountInv` adds the attempts of each copy, those a scheduler holds included; a start
  of a handler counts for no other copy because there is none.
* `NeverLoses`: `JobSteps`, what any step may do to one job, of which a loss needs one of the failures.
* `FinalRowsAlwaysTrue`: `RowsInv` adds that a worker which is about to write "failed" has buried its job, and
  that no row is written before the commit.
* `RunningAlwaysHasWorker`: by the write and the release of a worker being one step.
* `FinalRowsAlwaysStay`: `WriteInv` adds that a scheduler's old snapshot never names the envelope a worker has just
  scheduled (`TodoOld`), so that a job whose "pending" is not yet written cannot start again (`RetryWaits`); this is where
  a slow write is excluded.
* `QueueImplementsJobLife`: `LifeFacts` reads the life of a job off its place, and each action becomes a
  step of `JobLife` or none; a crash loses the set of jobs whose place it empties.

### Rooms

`TypeCorrect` (RoomLifecycleProofs) is inductive by itself, split in the same manner.

`RowNeverAhead`, `Spec => []RowFollowsLiveKit`. The property follows from nothing that a row
says: what a row may become is told by events, which events there are by LiveKit's room, and
what that room may become by the request that creates it. `LinkInv` joins them: `CreationInv` (until
its creation there is no LiveKit room, until its insert no row), `EventsInv` (LiveKit only tells of what
has happened), and the property.

`StatusNeverBack`, `Spec => StatusAdvances`, an action property from the same invariant: the insert
finds no row because of `CreationInv`, and each handler checks what it rewrites.

The other properties of the room, all but liveness, rest on three lemmas of what any one step may do: `RowMoves` (a row
stays or is inserted, begun, over or prolonged), `CallMoves` (one new request, or fewer, or a minute) and `ClockMoves`.

* `RoomsHaveOwners`, `Spec => []NoOrphanRoom`: only a creation opens a room, and a row that is there stays.
* `EnforcerWaits`, `Spec => EnforcerNotEarly`: `EnforcerInv` carries what the query saw through the list and the
  call; ages only grow, and `WindowInv` keeps every row's window at the schema's default or above.
* `TokensKeepToSession`, `[]TokenWithinSession` if `SessionMins <= RowDefault`: tokens are minted from the configured
  length and rooms ended by the row's, so a longer configured session would break it. `TokenInv` bounds a draft's
  tokens too, `CallsInv` says that a request which read a draft is at most one minute behind.
* `ExtensionsAreBounded`, `[]ExtensionsBounded` for a finite set of callers and `SessionMins >= 2` (half of one minute is
  none): `PaidInv` adds to an extended row's window the extensions still to come; those are of different callers
  (`CallersInv`) and all were checked before the first was written.

### Hub

`HubInv` (HubProofs) joins what all proofs about the hub use: `MapInv`, `ToldInv`, `WalkInv`, `ProcInv`, `PlainInv` and
`ChannelInv`. `StepsByKind` splits a step by what it does to a handler; `ShutFrame` and `ProcFrame` say what a step of
`Shutdown`, and any other, does to the process.

* `HubAlwaysFollowsHandlers`, `Spec => []HubFollowsHandlers`. `MapInv` says what each
  stage of a handler has done to the map and to its channel, a "stuck" one included, and that a connection is only ever
  filed under its own user, without which an unregistration could remove the wrong entry. `Placed` follows a connection through
  `Shutdown`: closed in the map while it goes through the map, closed and in `dropped` after.
* `EventsAlwaysTrue`, `[]EventsTrue`. `ToldInv` follows an event: what it tells is true before
  it is in a handler's range over the receiver's connections, then in a channel, then told; rows only gain marks
  (`Grows`), so nothing that was true stops being true while the event waits behind others.
* `HubTypes`, `[]TypeOK`. `WalkInv` is the part that is not a type: what a handler walks with depends on its stage. A presence
  broadcast tells its own user's presence to all users; a fan-out never carries presence, still has a user to look up
  when it delivers, and looks a message's sender up before its receiver.
* `JamsNeverClear`, `JamIsForever`: the lock is held by exactly the handler that greets (`LockInv`), and when its channel is full no
  step but the end of the process changes that: `Shutdown` waits for the lock too, and the handler cannot panic, since nothing
  is left in a closed channel (`ClosedInv`). `Greeted` leaves this case out; the theorem says that it is a deadlock.
* `PresenceAlwaysSettles`, `[]PresenceAtRest` (HubPresenceProofs). The property speaks of a state where all is quiet; the
  invariant `PresenceInv` speaks of every state, so it needs what a client *will* show: `Shows` reads the channel from the end
  (the last event about a user decides), and `ShowsAppend` and `ShowsTail` say what a send and a read do to it. For each
  user shown wrongly there is a handler to blame: shown but away, one that has yet to say "offline" and will reach this
  client, or is stuck; not shown but online, one that has yet to say "online", or one that has left. Failures and
  races are not excluded.
* `MessagesNotForgotten`, `[]MessageNotForgotten` (HubMessageProofs), also when writes to sockets and pings fail. A saved message has
  one carrier, the handler that saved it (`OneCarrier`, since saving needs a message that is not), which has the receiver still to look up, or
  ranges over the connections it found, or is done: then it waits in one of their channels or was written to a socket, or those
  connections were full, lost their pump or have gone. If it found none, a handler that came later is about to mark it (`Announced`),
  because the first connection is the one that announces. `HadBefore` keeps a connection made since from counting as one that was looked up.

Shutdown has no part in the last two: both properties speak of a process whose main runs, and `PlacedWhileRuns` says that
every handler inside is in the map then.

### Pipeline

`PipelineInv` (PipelineProofs) ties the three places a recording's progress is kept in: the row (`EgressInv`: a completed
recording belongs to an egress whose end was stored, by a transaction that enqueues one job), the jobs (`TranscribeInv`, `SummarizeInv`:
what a stage has behind it) and the results (`RowInv`). What makes it inductive is that an upsert never
changes the id of the row it meets, so that a summarize job holding a row's id holds it for good, and one whose id was rolled
back never meets its row. `FoundedOn` says what a text rests on: a completed recording, or an answer to a link that leads nowhere. `MoveInv` is the one lemma on a job that moves while the others stay.

* `TypeCorrect`, `ProvenanceHolds`, `PhantomsFail`, `TranscribedOnce` follow from `PipelineInv`; `StuckAlwaysExplained` also needs that
  no step of a handler forgets a recording without one of the listed reasons.
* `InsightsAlwaysAdvance`, an action property, is stated as the property is checked: for a room with one recording. With two it is false (section 4).
* `JobsLiveAsPromised`: every step of the pipeline is a step of `JobLife` for each job. With `QueueImplementsJobLife`, which shows the same of
  `JobQueue`, the two modules meet in the abstract queue.

### Services (ServicesProofs)

* `AlwaysOneConversation`. That an error means that the conversation exists follows from
  what each stage has seen, that rows are never removed, and that only a row of the same pair is refused: every other condition of
  the table holds because the pair is ordered and of two different users.
* `HistoryAlwaysLosesOnlyCut`. `WalkInv`: while there are more pages, every message neither shown nor cut off lies behind
  the offset of the next page, wherever newer messages have shifted it; at the end there are none.
* `SessionAlwaysHeld`, for any number of devices: the number of a stored token is held by, or on its way to, the device that
  stored it last; numbers stored later are larger, so no device that holds an old one is mistaken for it.
* `AttendanceAlwaysTrue`, for any number of moves: who has joined has a time or an event on the way (`JoinedInv`), and the newest event on the
  way, or else the row, says whether somebody is there (`NewestInv`), unless one overtook another.
* `ChunksAlwaysCover` and `SummaryAlwaysRestsOnAll`, for every length and window: that the
  loop's `start` is where the last chunk ends but for the overlap, and that partial summaries are the
  chunks' numbers in order. Lengths and windows are naturals, of any size.
* `URLsAlwaysOutlive`, by arithmetic over the four cases; `NanosecondsFit` shows that the
  code's 64-bit nanoseconds do not overflow, so that the model may count in integers.
* `ServicesTypes`, and the composition: `PartsAreServices` (the composed specification implements each part's) carries every theorem of
  a part over to `Services`, which is what TLC runs (`ServicesCorrect`). `ServicesAssumption`, that there is a
  length and a window to choose, is only needed for the composed `Init` to have a value.

### Assumptions and limits

All assume only the named ASSUMEs of the modules: retry limit and durations are positive, the
enforcer is no caller, fault sets are sets of faults, a scene does not list a connection as both
open and coming; the two last room theorems and `InsightsAlwaysAdvance` also what they state. They hold for any number of jobs, workers,
processes, rooms, callers, recordings, connections, messages, devices and requests.

Only model-checked: liveness (`Settles`, `LiveEnds`, `EndsInSummary`, `Accounted`, `Greeted`),
which the prover does not handle under fairness. The violated runs have counterexamples and nothing to prove.

## 6. Not modelled

Passwords, access tokens, the exchange with GitHub and its encrypted token, which nothing reads, token grants, signatures and
encryption: library calls without a state that other parts depend on. Read endpoints, user search:
single statements. File upload writes to disk; what two uploads of one name leave is not decided
by this code. Configuration, logging, routing. `RemoveParticipant`, `UpdateRoomMetadata` and
`GetClients` have no callers. The reconciler of `integration_livekit.md` section 10 does not exist in the code.

## 7. What is left

1. Abstract specifications of a room and of a connection, as `JobLife` is one of a job, and the proofs that `RoomLifecycle` and `Hub` implement them.
2. Attendance with the calls that read it, once there are any.
