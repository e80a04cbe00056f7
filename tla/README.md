# ZapLab in TLA+

ZapLab is one Go process: a PocketBase application (SQLite, HTTP API, a static
frontend) around a whatsmeow client. This directory models the parts of it
that are concurrent or that have to survive a failure, checks them with TLC on
small instances, and proves the most important of the results with TLAPS for
all values of the constants.

Run everything from this directory:

    tlc -config MCEventPipeline.cfg MCEventPipeline     # and so on, see "Runs"
    tlapm EventPipelineProofs.tla                        # and the other *Proofs

## The system and its parts

| Part | State it keeps | Operations | What is hard | What makes it correct |
|---|---|---|---|---|
| Event pipeline (`whatsapp/events.go`, `persist.go`) | `eventQueue` (2000), `receiptLatencyQueue` (500), `shuttingDown`; the collections | `handler` enqueues, one worker runs `handleAsync`, another `recordReceiptLatencies`; HTTP sends and notices call `saveEvent` too | a full queue, failing downloads and saves, goroutines that save beside the worker, a crash between any two steps | each event accounted for once; rows and publications in arrival order; a lookup of earlier rows that does not fail is final |
| Live feed (`whatsapp/sse.go`, `api/sse.go`) | subscriber map under an RWMutex, one bounded channel per stream | `SSESubscribe`, `SSEUnsubscribe`, `ssePublish` | a channel closed outside the lock, stalled clients | no send on a closed channel, complete streams, nobody waits for a reader |
| Activity tracker (`whatsapp/activitytracker.go`, `api/activitytracker.go`) | `atTrackers`, `atProbeWaiters`, per-tracker windows; sessions and probes in the database; a flag in memory and on disk | start, stop, enable, disable; a goroutine per tracker; `NotifyProbeReceipt` from `handler` | late, repeated and unexpected receipts, starts that race stops | no goroutine without an owner, no receipt credited to the wrong probe |
| Scheduled messages (`api/scheduledmsgs.go`) | rows with a status | POST, PATCH, DELETE; a minute worker that sends | PATCH and DELETE while a row is being sent, a mark that fails, text timestamps | nothing sent twice without a reason, nothing forgotten |
| Connection and pairing (`whatsapp/pairing.go`, `reconnect.go`, `bootstrap.go`) | the global `client`, `connStatus`, `lastQR`, `reconnecting` | whatsmeow's events, the QR goroutine, `reconnectWithBackoff`, the Reinitialize functions | globals changed without a lock by several goroutines | one reconnect loop, a status that agrees with the events |
| Webhooks (`webhook/webhook.go`, `whatsapp/webhookdelivery.go`) | four lists in memory and in a JSON file; `webhook_deliveries` | add, remove, set, clear; dispatch; `SendAsync` with three attempts | slices changed in place while senders iterate; retries | each matching hook fires once; attempts end and are recorded |
| Scripts, cron, triggers (`api/scripts.go`, `scriptsio.go`, `cronmanager.go`, `triggers.go`) | `scripts`, `script_triggers`, `cronSchedules` | CRUD, import, manual run, the minute tick, dispatch per saved event | overlapping runs, records loaded before a run and saved after it, a clock that jumps | no run takes an edit back, a schedule goes on, the next time is the first that matches |
| Auto-reply (`whatsapp/autoreply.go`, `api/autoreply.go`) | `auto_reply_rules` | a goroutine per message, CRUD | concurrent counters, hour windows | the first rules in priority order up to a stop; counts are executions |
| DB explorer (`api/dbexplorer.go`) | two SQL connections, the session file, its backups, `dbMu` | browse, edit, backup, restore, reconnect | restore under running edits and a running client, partial failure | an edit can be undone, a restore is effective, the connections come back |
| Route simulation (`simulation/`) | `activeSims` | start, stop, list; a goroutine per route | interpolation at the edges, a slow or failing send, Stop against a tick | positions follow the way to its end |
| Log capture (`whatsapp/capturelog.go`) | ring of 2000 entries, sink of 4096, `frames` | `emit`, `snapshot`, consumer | wrap-around, many writers | a snapshot is the newest entries, each entry is stored once or dropped |
| Conversation view (`api/conversation.go`, `lidmigration.go`, `conversation.js`) | rows of `events`; the page's chat, messages and cursor | chats, pages of one chat, LID migration | cursors over rows that are added, skipped and migrated | who scrolls to the end has seen all, once |
| Sending and groups (`api/api.go`, `whatsapp/send.go`, `groups.go`) | none of their own; rows of `events`, `errors` | about 25 routes | several steps of which one fails; an acknowledgement that is lost | the answer tells what was done and which row was left |
| Audit log (`api/auditlog.go`) | rows of `audit_log` | wraps the routes | a body read twice | a row per audited request |
| Configuration (`config/config.go`) | three flags in memory and in a file | load, set | a crash between the two | the file's flag after a restart |
| Contact cache, spoofed messages, media, HTTP routes | none others rely on | calls of whatsmeow | – | what they save goes through `saveEvent` |
| Read-only queries, migrations, frontend | none they read back | – | – | – |

How they interact: whatsmeow calls `handler`, which signals the activity
tracker (`NotifyProbeReceipt`), changes the connection status, or enqueues.
The worker saves through `saveEvent`, which hands the record to the webhooks
before the row is written, and to the live feed and the trigger dispatcher
after it; message events also start auto-reply evaluation in a goroutine.
Scripts, auto-replies, scheduled messages, simulations and HTTP requests send
through the same client, and what they send comes back through `saveEvent` as
an outbound record.

## Modules

| Module | What it is |
|---|---|
| `EventLog` | the abstract promise of the pipeline: a log of records, each stored once and in arrival order, published after it is stored and in the same order |
| `EventPipeline` | the queue, the worker's paths, the other savers, receipt latency, recovery, shutdown and crash; implements `EventLog` |
| `EventPipelineProofs` | type correctness, the log's inductive invariant, the refinement; what lookups that do not fail are answered is final, arrivals are accounted for |
| `SseBroker`, `SseBrokerProofs` | the live feed, and the proofs that no publisher sends on a closed channel and that streams are complete |
| `RttClassifier` | the tracker's pure part: the two windows, the median threshold, the device state |
| `ActivityTracker`, `ActivityTrackerProofs` | requests, registry, tracker goroutines, probe waiters and receipts; and the proofs |
| `Connection`, `ConnectionProofs` | the client, its status and QR code, pairing, reconnecting, and the requests that rebuild the client; and the proofs |
| `WebhookLists` | the configured webhooks: edits that change a slice in place, the dispatches that walk it, `webhook.json` |
| `WebhookDelivery` | `SendAsync`: attempts, their rows, URLs that change between them |
| `ScheduledMessages` | the minute worker and the requests beside it |
| `Scripts` | the rows of scripts and triggers, the requests on them, the minute tick and the three kinds of run |
| `CronTime` | `nextCronTime`: the search for the next time, with the server's zone and a small calendar |
| `AutoReply` | messages against rules: conditions, order, stop, counts, edits meanwhile |
| `Sending` | a request that makes WhatsApp do something, from its checks to its answer and row |
| `Conversation` | pages of a chat, as the server answers them and the page asks for them, and LID migration |
| `DbExplorer` | edits, backups and restores of the session file beside the client that writes it |
| `RecentLog` | the abstract promise of the log capture: the newest entries, in order |
| `CaptureLog` | the ring, the sink and their goroutines; implements `RecentLog` |
| `RouteSimulation` | points of a GPX file, the position at a distance, the goroutine of a journey |
| `WebhookProofs` | deliveries and the lists of webhooks: theorems about `WebhookDelivery` and `MCMessaging` |
| `MessagingProofs` | requests that send, auto-reply rules, the conversation view, types: theorems about `MCMessaging` |
| `AutomationProofs` | nothing scheduled is sent twice without a lost mark, no run of a script takes an edit back, the search for the next time misses none: theorems about `ScheduledMessages` and `MCAutomation` |
| `ServicesProofs` | the explorer, the log capture, journeys, types: theorems about `MCServices` |
| `AutomationBounds`, `MessagingBounds` | values for the constants of the modules above |
| `MC...` | instances for TLC; a module may have several .cfg files |

Four of the MC modules check several components in one run. Their variable
`part` is chosen in the initial state and never changes; it says which component
a behaviour is about, whose next-state relation applies, and whose fairness
is required. The variables of the others keep their first values. This is a sum
of state spaces, not a product: the components in one run share no state
in the code, and a property of one component is checked over exactly the
behaviours that component has by itself. `MCMessaging` is deliveries, webhook
lists, auto-reply, sending and conversation; `MCAutomation` scheduled messages, scripts
and the cron search; `MCServices` the live feed, the DB explorer, the log
capture and simulations; `MCActivityTracker` the probes of one tracker, or all
requests and trackers without their probes (`Within`).

An operator whose comment begins with "Mutant:" is a plausible bug in the
definition that follows it. It is used by no specification: it is there so that
each property can be seen to fail when the code is changed that way
(`mutants` in `PROJECT.json`).

### EventPipeline

* `arrivals` is what whatsmeow delivered; an event is its number. `queue`,
  `latencyQueue` are the channels. `pc[t]` is the line of `saveEvent` or
  `handleAsync` a goroutine has reached; `cur` is the worker's event and
  `reply` the message it sends itself when it answers a command.
* `Arrive` is `handler`: the probe signal and the enqueue are one step, since
  both happen in whatsmeow's node goroutine; a full queue drops the event.
* A kind of event is a path through `handleAsync`; the table in the module
  lists them. What a payload contains is abstracted: a path only needs the
  kind and, for receipts, votes and deletions, the message it points at.
* `CheckShutdown`, `SaveRow`, `SaveFails`, `Publish` are `saveEvent` in the
  order of the code: the webhooks are called before the row is saved, the
  feed and the dispatcher after it.
* `Recover` and `RecordLatency` are the two queries made later, by other
  goroutines. Each may fail (`Lookup`), and the code takes an error for an empty
  result: `recoverAndNotify` logs "not found" and returns, and
  `recordReceiptLatency` saves a row without a send time. The history in
  `notices` and `latency` keeps which of the two it was, and the properties
  speak of the queries that were answered. A revoke points at a message that was
  sent or at any other inbound one, earlier or later (`Targets`): its original may
  be delivered late or never.
* `hooked` is the set of records handed to the webhooks: a second call for one
  record would not be seen in it, only a missing one. `SetShuttingDown` is the
  terminate hook; `Restart` is a crash and a new start: channels are gone,
  collections stay.
* `gone` is history: how each arrival left memory.

### SseBroker

A request goes from `new` to `streaming` and through `leaving` (waiting for
the lock) and `closing` (lock released, channel not closed) to `done`. A
publisher holds the read lock while `p \in publishing` and has still to offer
to `todo[p]`. Go's RWMutex lets no new reader in while a writer waits:
`LockWanted`. A payload that does not marshal is not published and changes
nothing.

### RttClassifier and ActivityTracker

A tracker is its session id, a probe its session and number. `StartTracker`
and `BeginStop` are the sections under `atMu`; `Cancel` follows outside it, as
in the code. A probe is registered in `waiters` before it is sent; `Receipt`
removes it under the lock and `Signal` sends to its channel afterwards;
`Answered`, `TimedOut`, `Abandon` and `SendFails` are the four ways a probe
ends. The API runs requests concurrently: checking the flag and starting the
tracker are two steps, and so are stopping everything and clearing the flag.
`Restart` forgets everything but the two collections and the flag's file.

### ScheduledMessages

`Load` is the worker's query (any `Limit` due rows: the query has no ORDER
BY), `Send` the call to WhatsApp, whose outcome may be an error although the
message got through, `Mark` the lookup and save afterwards, with its error
dropped. The lookup and the save of `Mark` are one step: a row in the batch
was pending, so the mark always changes the status, and a request between the
two has the same effect as one before both. `Fetch` and `Patch`/`Delete` are
two steps, because the row may change in between. PocketBase writes only the
fields of a record that differ from what was loaded; `Patch` says so with
`Written`. Times are those of the documented input, UTC.

### Connection

whatsmeow is the environment. A client's `link` is down, lost (whatsmeow will
restore it), up, or online; `event` is the one event of it that `handler` has
in hand, and `qr` its QR channel with the goroutine that reads it: `left` codes
are waiting, and the channel's final state is its last item. Status and code
are set in separate sections of the lock, so each handler that sets both is
two actions. A goroutine of `reconnectWithBackoff` is `new` until its
compare-and-swap, then sleeps, dials, and is `done` until the deferred reset. A
request is `ForceReconnect` (disconnect, connect), `Reinitialize` or
`ReinitializeForPairing` (disconnect, nil, new client, QR channel, status,
connect), each of whose steps may fail; requests and the loop use the global
client at each step anew, as the code does. `Bootstrap` is the initial state: a
client that connected. A second QR channel of one client says what its first
one says and is not told apart. `own` is history: whether the status was last
set for the client that is current.

### WebhookLists

A list is a Go slice: `memory[k]` holds the arrays of kind `k`, `list[k]` names
one of them and a length. `AppendHook` writes the next slot of the array, if
there is one, and `Assign` the list; `Cut`, `Shift` (one element at a time) and
`Shorten` are `append(list[:i], list[i+1:]...)`. None of it is locked, so a walk
(`Enter` ... `Leave`) keeps the slice it began with and reads elements that an
edit may be moving. The words of a single element are read and written
together. `torn` is history: a removal took the list a walk reads, or an addition
assigned one that lacks what another had added. `alone` is history, too: no other
edit of the list overlapped this one, and `expected` is what it should leave.
`WriteConfig` is `writeConfig`; `Marshals` says what `encoding/json`
does with the fields of `Config`. Event types are sequences of names, texts
the set of patterns they match.

### WebhookDelivery

A delivery goes from `new` through `taking` (the URL was found to be set, the
goroutine has not started), `posting` and `logging` (up to three times) to
`ended`. Its `pointer` is to the configuration, as the code passes one: `Target`
is the URL at the time of the attempt, and again at the time of its row.
`Post` covers a request that arrives although its answer is late or an error.
`LogFails` is `OnDelivery` during shutdown, or a save that fails.

### Scripts

A task is a goroutine: a request that edits (`PatchLoad` or `ImportLoad`, then
`EditSave`), a manual run (`StartRun`, `EndRun`), a scheduled run (`Tick`,
`CronLoad`, `EndRun`, `CronAdvance`) or a run a saved event starts (`Fire`,
`EndFired`, `SaveFired`). Each holds `rec`, the row as it was loaded; `Write` is
PocketBase's UPDATE of the fields that differ from it, and no row means no
update. What a script does in the sandbox is an `Outcome`. `updates` are the
goroutines that store a schedule's next time. Codes are the numbers of the
edits that wrote them, so that `edited` can say what the row was last asked to
be. Only a start reads schedules (`Loaded`): no request registers one.

### CronTime

An instant is a number of minutes, the zone an offset that changes once, the
calendar a parameter. `Date` is `time.Date` as package time documents and
implements it: the offset is guessed from the clock's reading and corrected
once. Each action is one turn of the loop with the first condition that fails.
A field is a form, with the values it stands for: `Denotes` is the reference
that `Fits`, the code's way to look at it, is checked against.

### AutoReply

`Begin` loads the enabled rules in the order of the query: rules of one
priority in any order. `Skip`, `Execute`, `CountLoad`, `CountSave` follow one
evaluation through its list. A text is the set of patterns that match it. An
action's effect is outside; whether it fails changes nothing here. A row holds
the conditions a request gave it and its count, which starts at 0 and which an
edit keeps. `ran` is history: how often a rule was executed; `uncertain` says
which counts may be short.

### Sending

A request goes through `Refuse` or `Accept`, `Upload` or `BuildVote`, one call
of the server after the other, a row, and an answer. `Needs` says what each
route refuses to go on without. A call of the server succeeds, fails, or succeeds
without the client learning of it. `patchGroup` is the route whose `wish` has
several parts. `Refuse` covers the audit wrapper, which leaves the handler 64 KB
of the body and so a request that does not parse.

### Conversation

A contact has a number and a LID; `lidMap` says whose number is known.
`Before` is the query's condition, `Newest` what fits a page, `Displayed` the rows
of it that are shown, `NewestFirst` their order (rows of one millisecond in any
order), `Answer` the response with its cursor; `Select`, `LoadMore`, `Receive` and
`Fail` are the page. A row is a time and what it contains; `ContentFilter` is the
query's condition, `DetectMsgType` what the answer makes of it.

### DbExplorer

The file is one row. `Backup` is under `dbMu`, `Write` is not. `Lock`, `Replace`,
`Reopen` and the steps of `Reinitialize` are those of a restore, each of which may
fail. A backup is named after its second. `alone` is history: whether nobody else
wrote between an edit's backup and the edit.

`Reinitialize` runs in a restore, which holds `dbMu`, and in a full reconnect
(`dbexplorer.go:507`), which does not, so that two of them interleave at every
step on the globals: `client`, with what it holds of the row and the container it
writes it to (`ClientSaves`), and `store`, a container or none; `closed` are the
containers that were closed, and `device[r]` is the local variable between
`GetFirstDevice` and `NewClient`. `strays` are clients that `client` no longer
names and that may still be connected: one that somebody connects between
`Disconnect` and `client = nil` (which is why these two are one action with two
outcomes), or one that another Reinitialize assigned and that is assigned over.
They write until their container is closed. Where the code calls a method of a
global that another request has set to nil it panics; that is a failure.

The files of SQLite are one: the `-wal` and `-shm` files that a restore leaves
beside the database it replaces, and what an open connection has cached of the old
one, are not modelled. Neither are the requests that rebuild the client for
pairing or log it out, which are in `Connection`.

### CaptureLog

A goroutine takes a number, pushes under the lock of the ring, and offers to
the sink, in three steps. `Snapshot` is the unfiltered read. `RecentLog` is what
it is to look like: an entry is added at the end, the oldest falls out.

### RouteSimulation

Points are on a line. `Segment` is the binary search over the cumulated
distances, `PointAt` the interpolation; `Look`, `Send`, `TakeTick`, `TakeDone`
and `Leave` the goroutine. `Way` is the reference: all places of the route, one
unit after the other. `JourneyInv` says why a journey keeps to it.

## Runs

| Run | Configuration | States | What it shows |
|---|---|---|---|
| `events` | 2 arrivals of any of 7 kinds, one outbound saver, queues of 1, one crash | 385,322 | nothing is lost, repeated or reordered unaccounted for, what was saved has been published and handed to the webhooks; what a lookup that did not fail was answered is final; the worker goes on whatever fails; the pipeline implements `EventLog` |
| `tracker` | one tracker, 2 probes, two round-trip times, one crash; or two requests and two trackers of one device | 295,950 | every running tracker can be seen and stopped; receipts reach only their own probe; windows hold the last samples; stopped trackers end |
| `tracker_disabled` | two requests, no crash | | **violated**: a start that read the flag before a disable leaves a tracker running with the feature off |
| `connection` | two clients, two lost connections, one request at a time, two reconnect goroutines, one QR code per channel | 1,375,856 | one reconnect goroutine, which ends when the connection is back; codes go with their channel; the status settles |
| `connection_stale` | two clients, two codes | | **violated**: the channel of an abandoned client overwrites the status of the new one |
| `messaging` | delivery: three attempts, two slots, two URLs, three changes; lists: 1, 2 and 2 webhooks, two editors, two edits, one walk; rules: two, two evaluations, one edit; sending: two requests, five routes, one death; view: one contact, pages of 2, three rows, three moments | 874,517 | attempts are recorded, end with the first confirmed one, and go to the current URL; an edit alone has its effect and a dispatch calls each match once; rules run in order and are counted; answers tell what was done; a reader sees the whole chat |
| `webhook_file` | one editor, one edit | | **violated**: no change of the configuration is ever written to `webhook.json` |
| `automation` | messages: two rows, one request, limit 1, two moments, one lost mark per row, one crash; scripts: one or two rows, two goroutines, two edits and two runs (three together), one restart; search: 216 expressions, four zones, three starts | 189,065 | never sent twice without a lost mark, never forgotten; no run takes an edit back and schedules go on; the search misses no time |
| `scheduled_due` | one row | | **violated**: a row is not due at its time but on the next UTC day |
| `script_result` | one script, two goroutines, three runs | | **violated**: overlapping runs leave a mixture of two results |
| `cron_gap` | a zone west of Greenwich, summer time beginning | | **violated**: the search for the next time never ends |
| `services` | feed: two publishers (2 and 1 events), two streams, channels of 1; explorer: two requests, two seconds, one save of the client; log: two goroutines, ring and sink of 2, three entries, one restart; journey: five files, three speeds, six ticks | 270,561 | no send on a closed channel, no gap, nobody waits for a reader; edits can be undone, restores are effective but for a full reconnect that overlaps, connections come back; the ring is a `RecentLog`; a journey follows its way |

Why the bounds are enough. Queue capacities of 1 put "full" one step away: the
second arrival finds a queue of one full, or waits behind the event in hand.
The kinds of event cover each path of the worker: media save files, revocations
and votes look up other messages, receipts are timed, commands are answered,
notices and ignored events have none of it; two of them are what it takes for
one to point at the other, before or after it. Two publishers are what it takes for one to hold the
read lock while another is offered to, and two streams for one to leave while
another is full; a channel of one overflows with the second event. The
tracker's windows are 1 long where the code has 3, 2000 and 5, so that two
probes evict; the code uses them only through their lengths. Two sessions let
one tracker be started while another of the same device is still being
stopped. For scheduled messages two moments a day apart are a time before and
one after any schedule, and a limit of one makes two due rows compete. Two editors and two edits
are a removal that meets an addition, a replacement or another removal. Two
lost connections start two reconnect goroutines, and a second client is one
rebuild, which may come while the first client pairs, is online, is lost or is
being reconnected. Deliveries share only the URLs and the shutdown, so one of
them shows what any of them does; three changes clear, set and replace the URL
between its attempts.

Two goroutines are what it takes for a run to be started beside itself, or for
an edit to fall between the load and the save of a run; two minutes of ticks
make a schedule due again while its run goes on. The calendar of the cron
search is a year of seven days of four hours of three minutes: each of the
loop's five ways on is taken, fields wrap, months differ in length, a stepped
list begins before, at and after the least value, and the zone changes within
the search. Two evaluations of two rules meet in a count; one edit comes
before, between and after. Of the routes, the five differ in the steps they
take; the others are in `Needs`, and take the same steps as one of these. Three
rows and pages of 2 make a second page, and the third row may be stored while
the first is read. Two requests of the explorer are an edit or a restore that
meets any other request, a full reconnect at any of its steps among them, two
seconds two backups or a collision of their names. A ring of 2 wraps with the
third entry. The GPX files repeat a point, turn, go on from one track to the
next, have no length, or one point.

Deadlock is not checked (`CHECK_DEADLOCK FALSE`) because every bounded instance
ends: arrivals, sessions, probes, events and time are used up.

### Fairness

* Pipeline: weak fairness for the worker's and the savers' steps and for the
  latency worker. They are goroutines in loops over channels; nothing else
  holds what they wait for. Arrivals, failures and crashes are never forced.
* Broker: weak fairness for the goroutines inside the broker, and for a
  writer that waits: Go's RWMutex blocks later readers, so the lock becomes
  free and stays so. Reading from a stream is *not* fair.
* Tracker: a select with a cancelled context and another ready case may pick
  the other one any number of times, so that `End` needs strong fairness, as
  the random choice of Go's select justifies. Requests that hold a claimed
  tracker go on to cancel it.
* Scheduled messages: the ticker fires for ever and the loop over a batch
  waits only for a send that returns: weak fairness for the worker. Failed
  saves are bounded.
* Connection: weak fairness for the reconnect goroutines: the delay is bounded
  and `Connect` returns. Nothing is expected of the network: `LoopEndsWhenUp`
  says what happens if the connection stays.
* Deliveries: weak fairness: a goroutine that waits for timers and for
  requests that have a timeout; it is stated (`FairSpec`), and no run needs it.
* Scripts: weak fairness for the steps of a run and of its schedule
  (`Proceed`): goroutines are scheduled, and a timer interrupts a script that
  takes too long. Requests and ticks are not forced.
* The cron search is a loop of one goroutine: weak fairness for its next step.
* DB explorer: weak fairness for a handler that has begun: each of its steps
  returns, with or without an error, and the lock is released by defer.
* Rules, sending, the conversation, the log and journeys: safety only, none.

## Proofs

All theorems hold for every value of the constants that meets the modules'
`ASSUME`s; `tlapm` checks every leaf. The assumptions say that a bound is a
number, a capacity or a ring greater than zero where the code makes it so, a
model value of one kind none of another, rules and evaluations finitely many, a
rule's fields those the collection's comments give (`all`, `others`, `me`, or
nothing, which a PATCH may set and which is `others`, and hours from -1 to 23),
webhooks records as the types of `webhook.go` say, that a page of a
conversation has room for a row (`limit` is at least 1), that tracks and routes
of a file are sequences of points and a journey moves, and that a calendar has
months, days and hours. One assumption is about the world and not given by the
code: `ZonesAssumption`, that clocks change on the full hour and by an hour at
most. Only `SearchesMissNothing` needs it. A theorem about `MessagingSpec`,
`AutomationSpec` or `ServicesSpec` is about all behaviours of that module,
whatever `part` they follow.

Pipeline (`EventPipelineProofs`):

* `TypeCorrect`: `Spec => []TypeOK`. `TypeOK` needs `ThreadShape`: only an idle
  worker has no event, and a thread that saves has an item to save.
* `LogOrder`: `Spec => []LogInv`. The order of rows is not inductive. `LogInv` adds
  where everything else is: the queue is ahead of the event in hand
  (`QueueAhead`), that is ahead of every inbound row (`RowsBehind`), and a
  goroutine about to save has an item without a row, one about to publish an
  item with a row that was not published (`OneRow`).
* `Implementation`: `Spec => ImplementsEventLog`. Each step is a step of
  `EventLog` or changes neither `stored` nor `published`; `SaveRow` is `Store`
  because of `RowsBehind` and `OneRow`, `Publish` is `Publish`.
* `LookupsAreFinal`: `Spec => []RecoveryLookupIsFinal`. When the query of a
  recovery is answered, rather than failing, that there is no row of an
  original that arrived before the revoke, there never will be one. It rests on
  `PastInv`: the event that asks is older than all the worker has not finished,
  and an original that arrived before it is older still. Nothing is claimed of
  a query that failed, of an original that arrives after its revoke, and of a
  message this server sent.
* `LatencySeesEarlierRows`: `Spec => []LatencyKnowsEarlierRows`. A row without a
  send time, for a message whose own row is ahead of the receipt's, means that the
  query failed. Rows are only added, and the receipt is queued after its own row.
* `ArrivalsAreAccountedFor`: `Spec => []EachArrivalOnce`, from `PlaceInv` (an
  arrival is in one place: queue, worker, or gone in one way) and `PassedInv`
  (what the event in hand has passed by its stage, so that it has left the traces
  its way out is recorded with).

Feed and tracker:

* `SseBrokerProofs!ClosedIsUnreachable`: `Spec => []NoSendOnClosed`. A publisher
  holds channels of subscribers only while it holds the read lock;
  unsubscribing waits for the lock, so that after it nobody holds the channel.
* `SseBrokerProofs!StreamsAreComplete`: `Spec => []StreamIsComplete`, from
  `StreamInv`: a stream begins with nothing, what a publisher has still to offer
  to it is newer than the subscription, and an event of the time between is
  sent, missed because the channel was full, or about to be offered.
  `SseBrokerProofs!TypeCorrect` has the types.
* `ActivityTrackerProofs!NoStrayTracker`: `Spec => []LiveIsTracked`, from
  `TrackInv`: sessions that were not used are fresh, one that is in the map is
  open, one request at most holds it to stop it, and a goroutine that was not
  cancelled is in the map or held. `OwnReceipts` is
  `Spec => []AnsweredByOwnReceipt`, from `ReceiptInv`: a round-trip time is under
  way for receipts that came, and only those. `WindowsAreLast` is
  `Spec => []SamplesAreLast`, for windows of any size, and `TypeCorrect` the types.

Webhooks (`WebhookProofs`) and messages (`MessagingProofs`):

* `WebhookProofs!ConfirmedIsLast`, `AttemptsAreLogged` and `RetriesAreCurrent`.
  The invariant `DeliveryInv` relates what was received and the rows to the
  attempt in hand: nothing received is of a later attempt (`ReceivedBehind`),
  rows are of earlier ones, and only the last attempt of a delivery that ended
  was confirmed (`RowsBehindAttempt`).
* `WebhookProofs!LoneEditsTakeEffect`: `MessagingSpec => []LoneEditTakesEffect`,
  from `LoneInv`: while an edit is alone nobody else edits its list, and what it
  has still to do (`Left`) turns the list into what was asked for. For a removal
  that is: the places before the hole hold what they held, those from it on what
  their right neighbours hold.
* `WebhookProofs!DispatchesAreWhole`: `MessagingSpec => []EachMatchOnce`, from
  `WalkInv`: until a walk is torn, its slice and the list begin with what was
  registered (`Following`), and it has called what matches in the part it has
  passed (`Called`). An addition writes behind the list's end, a replacement only
  a URL (`StillBegins`). `MatchesWanted` says that the code's comparisons are the
  documented ones. Both theorems rest on `TypeOK`: a slice lies within its array,
  on slots that were written, however edits race.
* `MessagingProofs!AnswersTellFates`: `MessagingSpec => []AnswerTellsFate`, from
  `FateInv`: until something fails, what was done and what is left are what was
  asked for; before the upload or without the poll's key nothing was done; there
  is no row before the answer. The steps of one request touch neither what the
  server did for another nor its rows, so that the invariant is proved request
  by request (`CallOK`).
* `MessagingProofs!RulesAreInOrder`: `MessagingSpec => []RulesInOrder`. `ScanInv`
  says of each evaluation that it has executed, of the rules it has passed,
  those that match, in the order of its list, and none after one that stops. At
  its end this is what the documents ask for: `OrderedRules` says that the list
  has each enabled rule once, by priority, `MatchingIsWanted` that the code's
  comparisons are the documented conditions, with `HoursAround` for the hours
  around midnight.
* `MessagingProofs!CountsAreExecutions`: `MessagingSpec => []CountsExecutions`. The
  count alone is not inductive. `CountInv` adds those who have still to count: a
  rule's count and they together are at most the executions, and exactly these
  unless the rule is `uncertain`; and what a goroutine has loaded is the count
  that is still there, unless another one counts, too. The invariant is proved
  rule by rule (`RuleOK`), and a step concerns the rule its evaluation is at
  (`Executed`, `LoadedToCount`, `Counted`) and no other (`OtherRule`).

* `MessagingProofs!ChatsAreShownWhole`: `MessagingSpec => []WholeConversation`. The
  invariant is about the pages: rows are in the order of their times, so that a
  row stored later is behind every cursor given out, and what a steady reader
  has been shown is all of the chat from the cursor to the time it was opened.
  A page is put before that (`Prepends`); the reader at the end has the whole
  (`Whole`). `ListCounts` says that the list of chats counts the same rows.
* `MessagingProofs!TypesAreKept`: `MessagingSpec => []TypesOK`, the types of all five
  parts together.

Connection, scheduled messages, scripts, schedules, services:

* `ConnectionProofs!ReconnectsAlone`: `OneReconnecter` is inductive with the
  types: a goroutine passes the compare-and-swap only when no other has.
* `ConnectionProofs!CodesAreWithdrawn` and `StatusSettles`, from `StatusInv`.
  Only a device with an id is online, and such a client has no open channel
  (`DeviceShape`), so that the only item its goroutine may still handle last is
  a success; an event that reports a lost connection is in hand only while the
  client is not online (`EventShape`). With these, what an online client said
  last is `connected` (`StatusShape`). The proof is for any number of requests
  at once, where the run has one.
* `AutomationProofs!SentAgainOnlyAfterLoss` and `SentRowsWereSent`. The
  invariant counts: a row that is pending, or loaded and not reached, was sent
  at most as often as its mark was lost. A PATCH holds a copy that said
  pending and so writes cancelled or no status at all.
* `AutomationProofs!EditsStand`: `AutomationSpec => []RowsAreAsEdited`. The
  invariant says what a goroutine holds (`TaskOK`): the copy of a run has what
  requests set as it was loaded, since a result is three other fields
  (`DoneKeeps`), so that saving it leaves these as they are by then
  (`WriteKeeps`); an edit's copy differs only in what its request gives.
* `AutomationProofs!SearchesMissNothing`: `AutomationSpec => []FirstMatch`, from
  `SearchInv`, which says the same of the search under way. Two lemmas carry it.
  `PassedOver`: between a candidate and the instant `time.Date` returns for the end
  of its hour, day or month, every clock is of that hour, day or month or is
  shown again later; this is where a change on the half hour would break it.
  `Denoted`: `matchField` accepts exactly what a field stands for. `SameHour`,
  `SameDay` and `SameMonth` say that the clocks passed over read alike.
* `ServicesProofs!EditsHaveBackups`: `ServicesSpec => []EditHasBackup`, from
  `BackupInv`: from its backup to its write an edit's backup is what the file is,
  unless somebody else wrote, and from then on what was written over.
* `ServicesProofs!RestoresTakeEffect`: `ServicesSpec => []RestoreTakesEffect`, from
  `RestoreInv`: what a restore copied stays in the file until somebody else
  writes it, who then is its last writer; a device that was read since the last
  write is what the file is (`Wrote` makes all others out of date); and once the
  restore has dropped the client there was, any client made of such a device is
  what the file is. Every step of every Reinitialize keeps this (`RebuildStep`),
  whoever runs it and whoever else is at which step. The theorem does not say that
  the old session is gone: see "Allowed by the models".
* `ServicesProofs!WritersKeepOrder`: `ServicesSpec => []WritersOrder`, from
  `OrderInv`: the entry a goroutine holds is its own, and newer than all it
  pushed and offered before.
* `ServicesProofs!RingIsRecentLog`: `ServicesSpec => ShowsTheNewest`, for a ring of
  any size greater than zero. `Place` says where the i-th newest entry is
  without a modulus; a push leaves the places as they are while there is room
  (`PlacesStay`) and moves all of them up by one when the ring is full
  (`PlacesMoveUp`). Only pushes and restarts change what is shown. The
  invariant `RingInv` is the types of the ring alone.
* `ServicesProofs!JourneysFollowTheWay`: `ServicesSpec => []FollowsTheWay`, from what
  `JourneyInv` says: the last position sent is not beyond the distance, and a
  longer distance leads at least as far. `PointIsOnTheWay` says that the code's
  binary search and interpolation find the place of the way that a distance
  leads to, for every route.
* `ServicesProofs!TypesAreKept`: `ServicesSpec => []TypesOK`, the types of all four
  parts together.

Distances along a route and the first days of months are defined by recursion.
No operator is a parameter in the proofs about them: `LeastNumber` (`Least` in
`ServicesProofs`) says that a set of numbers has a least one, `FirstAndNext` is
induction for a set, and `SumsExist` (`Recursion`) that the recursively defined
function exists, so that its equation may be used.

Every safety invariant and both refinements that the passing runs check are
theorems. Only model-checked is liveness (`QueuedIsHandled`, `SavedIsPublished`,
`NobodyWaitsForReaders`, `StoppedProbesEnd`, `DueIsHandled`, `LoopEndsWhenUp`,
`ScheduleGoesOn`, `ExplorerReturns`), since it rests on fairness and ENABLED. Of
`RttClassifier`, the properties are about which samples it is given; none is about
the state of the device that it makes of them.

## Disagreements with the documents

* `tracker_disabled`: `postActivityTrackerDisable` "turns the feature flag off
  and stops all running trackers"; it stops first, and a start may come
  between.
* `scheduled_due`: the documents give the worker's query as `scheduled_at <=
  NOW()`. The column is text and holds ISO-8601 with a `T`, `datetime('now')`
  has a space: a row becomes due at the next UTC midnight.
* `webhook_file`: "The file is rewritten automatically on every change." It is
  never written: `Config` has an exported field of function type that
  `encoding/json` refuses. Each request that changes a webhook fails after it
  changed the memory, and a start without the file fails.
* `connection_stale`: the status `connected` is documented as "Paired and
  online". After a repair while a QR code was shown, the abandoned client's
  channel sets `qr` and `timeout` although the new client is online.
* `script_result`: "Last-run metadata is stored back after each execution." A
  run sets the four fields in a copy from before the run, and only those that
  differ from that copy are saved: after two runs of one script that overlap
  the row may show the status of one with the output or error of the other.
* `cron_gap`: "Search up to a year ahead to avoid infinite loops on invalid
  exprs". When the hour does not match, the search goes on with the clock's next
  full hour. West of Greenwich, in the night summer time begins, that hour does
  not exist and `time.Date` returns an earlier instant: the search repeats it
  for ever, for a valid expression, and holds the goroutine that registers or
  advances the schedule.

Found while proving: in a zone whose clock changes in the middle of an hour, as
Chatham's from 2:45 to 3:45, the search for the next time passes over minutes
that match. In spring the hour it looks for, 3:00, does not exist; `time.Date`
returns 4:00, and a schedule at 3:50 does not run that day. In autumn a
search that begins between 2:50 and the change skips the 2:50 that comes again. No document of the repository
speaks of zones; `ZonesAssumption` leaves such zones out of the theorem and the run.

Allowed by the models, but against a comment or a document: a removal during a
dispatch skips one webhook and calls another twice, although each matching
webhook is to be called (`webhook.go:313`); additions that overlap may lose one
another, and so disturb a dispatch; the row of an attempt may name
another URL than the one posted to, when the webhook is changed meanwhile; text,
event and command webhooks are sent with `send`, which makes one attempt and
leaves no row, although every outgoing attempt is to be persisted (`README.md:1425`);
after `POST /wa/logout` the status stays `connected`, since whatsmeow reports no
event for it; after `timeout` no new code comes (`README.md:501`) until a repair;
a disconnect that falls between a successful `Connect` and the reset of
`reconnecting` starts no loop; a reconnect loop that dials between `Disconnect`
and `client = nil` leaves a second client online.

The models of this group's components allow these too. In scripts: an import
stores a schedule but nothing registers it until the next start; a script that
is disabled is still run by its triggers and by a schedule registered before;
the goroutines that store the next time are not ordered. In rules: a rule
created without hours gets 0 to 0, the hour after midnight, where the
specification has -1, any hour. In the explorer: a full reconnect that has read
its device when a restore replaces the file, and assigns its client after the
restore has assigned its own, leaves the client with the session from before,
which it goes on writing to the restored file, although the restore was
answered ok and `Reinitialize` is there "so that all in-memory state is
discarded" (`reconnect.go:90`); `RestoreTakesEffect` excepts exactly this
client, the one that is not `current`; two edits at a time may leave the value
one of them overwrote in no backup; two backups in one second collide and the
second request fails; a PATCH of a row that is gone answers "row updated". In
the conversation: rows of one millisecond at a page's end are skipped; a page
of which every row is skipped has no cursor, and the reader cannot go on;
selecting another chat while a page loads shows that page under the other chat;
the list merges a contact's LID and number where the view does not; contacts
and polls pass `detectMsgType` but not the content filter.

Seen while reading, outside the models: `getActivityTrackerContacts`
(`api/activitytracker.go:108`) asserts that a tracker's state is a `string`,
and it is an `ATState`, so that the request panics while a tracker runs;
nothing closes the session row of a tracker that was running at a crash; the
audit middleware leaves a handler the first 64 KB of a body, although
`specs/BETA8_FEATURES_SPEC.md:294` has it restored, and its status code is
always empty; `postSendRaw` answers 400 when the server fails; the page that edits
schedules sends `cron_expression` in a PATCH (`cronscheduler.js:47`) that
`patchScript` does not read; the auto-reply action "script" knows names of
commands only, where `README.md:1420` has it run a stored script; day of month and
day of week of a schedule are both required, and a schedule such as the 29th of
February is not found a year ahead and never runs again; `upsertContactCache`
overwrites what it knew with blanks when a query fails; a quoted message with
an invalid sender is dropped by one parser and quoted without a sender by the other;
`next_before` is not in the RFC 3339 that the parameter `before` is documented
with and parsed as, so that a client which passes it back as it is (the page
does not) gets the first page again.

## Not modelled, and why

* whatsmeow and the WhatsApp server: external. Their behaviour is what `handler`
  and the senders must cope with: any event at any time, errors with or
  without effect.
* PocketBase: a save is atomic and may fail; a record's save writes the fields
  that changed.
* The contents of messages and files, formatting, logging, HTTP details.
* Spoofed messages and media: sequential calls of the client, each a single
  request of `Sending`'s kind, without state of their own.
* The contact cache: rows that are overwritten one by one with what WhatsApp
  answers; nobody relies on two of them agreeing.
* Read-only queries (statistics, overviews, network graph, search), migrations
  and the frontend but for the conversation's paging: they read, or write what
  nobody reads back.
* The JavaScript sandbox: what a script does is an outcome; what it sends goes
  through `Sending`, what it saves through `EventPipeline`.
* Partly modelled: of the configuration, the tracker's flag (the recovery flags
  are a choice in `EventPipeline`); of the connection, not the rows of
  `conntrack.go`; of the audit log, one wrapped route; of the chat commands, those
  that change webhooks; of `UpdateGroupParticipants`, not the errors of single
  participants that come with a successful answer, which the route passes on with
  its 200.

## Plan

The properties the runs check are proved as far as the provers reach. What could
be added: the rows of `conntrack.go` beside the connection, the other routes the
audit log wraps, and proofs about `RttClassifier` that say when the median of the
windows moves the threshold.
