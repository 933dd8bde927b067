# njk_go: a TLA+ development

njk_go is a chat bot for QQ groups. NapCat (the QQ client, outside this
repository) opens reverse WebSocket connections to the bot, sends it events
(group messages, notices) and answers to the requests the bot writes back. The
bot keeps every group message in PostgreSQL, answers commands, calls AI and
image services, and stores its own messages under the ids NapCat gives them.
Nothing in the program is a single thread of control: **every event and every
answer from NapCat is handled by a goroutine of its own**, all of them share one
in-memory queue, one database and one set of connections, and there is no
distributed or database transaction around a handler. That is where its bugs
can hide and what this development is about.

All paths below are relative to `src/`.

## 1. The system

| component | code | state it keeps | operations | what makes it hard |
|---|---|---|---|---|
| WebSocket transport | `internal/transport/ws/server.go` | one socket, reader and write mutex per connection | handshake, read loop, `ReadText`, `writeFrame`, dispatch with `go` | events and receipts leave the read loop unordered; a disconnect cancels the context of every handler still running |
| NapCat protocol | `internal/napcat` | none | parse an inbound JSON into notice, group message, receipt or other | none |
| Group message handler | `internal/handler/napcat` | none | `HandleGroupMessage`, `HandleNotice`, `HandleActionResponse`, `executeActions`, the send functions | several requests per action, errors logged and passed over |
| Outbound queue | `internal/service/outbound.go`, `service.go` | `pendingQueue.items`, global | `Push`, `Pop`, `RecordPending`, `CompleteActionResult`, `saveSelfMessage` | requests carry no echo, so the order of the queue is the only link to the receipt |
| Message intake | `internal/service/save_message.go`, `save_image.go`, `save_face.go` | tables user, group, message, at_user, image, img_whitelist, face, emoji_like | `SaveIncomingMessageAndCheckImages`, `SaveAndCheckDuplicate`, `EnsureEmojiWhitelist`, `HandleGroupMsgEmojiLikeNotice` | a handler is a chain of single statements that other handlers interleave with |
| Store | `internal/client/pgstore` | the database | statements, two transactions, queries | keys refuse rows in the middle of a handler |
| Commands | `internal/service/commands.go`, `prompts.go`, small `command_*.go` | compiled patterns | first match wins, execute | none, mostly request and reply |
| AI commands | `command_ai.go`, `ai_fallback.go`, `internal/client/ai` | `lastAI` per group | history, completion with fallbacks, retries of the random reply | long waits between reading and setting state |
| Image commands | `command_symmetric.go`, `command_qtan.go`, `internal/client/imagestore` | files | four workers, mirroring, animation | ordered results of concurrent workers, files of one name |
| BBH | `command_bbh.go`, `internal/client/bbh` | a remote list of paragraphs | read, append, AI continuation | the predecessor read may be stale when the paragraph is added |
| Memory | `memory.go`, `memory_queue.go` | per-group queues, tables of facts and impressions | enqueue, flush, summarise, store | off in this build: `memoryEnabled = false` (`memory.go:21`) |
| Memory backfill | `memory_factory.go`, `cmd/memory-factory` | a JSON state file with a cursor and a status per group | load, pick active groups, process a batch, advance, mark done | crash between processing and saving; several goroutines write one file; rows that appear behind the cursor |
| Configuration, start-up, scripts, generated `internal/dal` | `internal/config`, `cmd`, `scripts`, `internal/dal` | none | read once, generated | none |

How they interact: the read loop of a connection parses a payload and starts
one goroutine. A group message goroutine stores the message (intake), checks
its images, runs a command or a random reply, and then writes the requests its
actions call for to the connection it came from, recording each message in the
global queue. A receipt goroutine pops the queue and, if the entry popped asks
for it, stores the bot's own message, through the same tables as intake. A
reaction notice writes a placeholder row for the message it names. The memory
factory is a second program: it reads the message table while the bot fills it,
and keeps its place in a file between its runs.

What has to be true of each part:

- *Outbound*: a recorded text is handed to one receipt at most and stored at most
  once; the queue and the receipts stay in step, or it is known when they do
  not; a row of the bot's is keyed by an id NapCat has issued.
- *Intake*: what is stored of a message is a prefix of row, mentions and images;
  a row is never overwritten; of two messages with the same picture one is
  reported; a report names another message that does show the picture;
  stickers are not reported; a message that arrived is stored.
- *Transport and handlers*: frames of several writers are never mixed; a handler sends
  what it planned, in order, and expects receipts for just that; everything that
  arrives is dealt with, even after a failed write.
- *AI commands*: the fallback chain ends; a refused content is not sent again; a
  continuation goes on from the last answer and takes pictures from the messages it
  shows; the bot repeats somebody only if it cannot help it.
- *Image commands*: at most so many at once, results in the order of the inputs,
  no place in the pool lost, whole files only; an animation shows what the source
  showed, at its speed, and loops without a gap.
- *Small commands*: sums, ranges and escapes are exact at the boundaries; a report misses nothing
  that was there when it was asked for; what is sent is what was typed.
- *BBH*: a paragraph is added once, after everything its writer had read.
- *Memory*: an item leaves the queue once; a fact is active once; a person keeps an
  impression and its versions count up.
- *Backfill*: the cursor in the file never goes back and passes nothing that was not
  processed; a group is done when nothing is left; a restart repeats at most one
  batch; everything is processed in the end.

The hazards, each at its line, are in `PROJECT.json`.

## 2. What is modelled

### Outbound (`Outbound.tla`)

One module for the whole path request -> queue -> receipt -> row.

| model | code |
|---|---|
| `conn[c]`: new, up, lost, closed | the life of `handleWebSocket`; *lost* is a peer gone that the read loop has not noticed |
| `job[h]`: script and position | a handler goroutine in `executeActions`; its script is the list of requests its actions call for |
| `written` | the order in which `WriteText` calls succeeded (history; only the properties and NapCat's promises read it) |
| `pending` | `pendingQueue.items` |
| `receipt[s]` | NapCat's answer to a send, the goroutine handling it, and what it popped |
| `archive[m]` | the rows of the bot's own messages, by message id |
| `Dispatch` | the `go` statements of the read loop |
| `WriteOk`, `WriteErr`, `Record`, `Advance` | `sendGroupText` and the functions of `send.go`: write, then record; on an error log and go on with the next |
| `IgnoreReceipt`, `PopNothing`, `Pop` | `HandleActionResponse` and `CompleteActionResult` up to `Pop` |
| `SaveSelf`, `SaveSelfErr` | `saveSelfMessage` |
| `Connect`, `Lose`, `Disconnect`, `Crash` | a connection opened, lost, closed with its context cancelled; the process killed and restarted |
| `Answer` | NapCat (external): what `HandleActionResponse` relies on |

Data is abstracted to identities: a send `<<h, k>>` is the k-th request of
handler h, and the id NapCat gives the message it delivers is written as the
send itself. `archive[m] = s` then says that the row with the id of message m
holds the text of s, and *right* is `archive[m] = m`. The text that is stored is
the one after `NormalizeOutboundText` and `EscapeCQAnimatedSummary`, not "the
original text" that the comment at `internal/handler/napcat/handler.go:167` announces;
the model does not look inside texts, so this does not show in a run.

What the environment may do is a constant, `Env`, a set of event names:
failed receipts, lost connections, receipts handled before the request is
recorded, overlapping handlers, reordered receipts, refused writes, crashes.
One specification thus serves the hostile and the quiet instance, and the
proofs hold for every `Env`.

`ReplyArchive.tla` is the abstract specification: a table of texts under issued
ids, each written once, no text twice. `Outbound` implements it (`ArchiveSpec`),
with the requested texts, the issued ids and the archive as refinement mapping.
Note what it does *not* promise: that the text is the right one. The code does
not keep that promise, see the findings.

`RequestLog.tla` is the other side of it, what `executeActions` promises to those who wait for
receipts: the k-th request of a handler is written after its earlier ones and never twice, and a receipt
is expected for it once, only after it was written, until the process dies. Two modules
implement it, each with its own state (`LogSpec` in both):

| `RequestLog` | in `Outbound` | in `GroupMessage` |
|---|---|---|
| `sent` | the requests in `written` | the requests whose payload is on the wire |
| `noting` | those whose handler is between write and `RecordPending` | those whose payload is written and whose handler has not yet gone on to record them |
| `expected` | what is in the queue, or was popped from it, of the handlers of this process | the handlers' `recorded` |

So what `Outbound` assumes of a handler in one step (`WriteOk`) is what `GroupMessage` shows of a
handler whose header and payload are two writes that compete with other writers.

### Intake (`Intake.tla`)

Every store call of a handler is one step, because every one is a statement or
a transaction of its own (`internal/client/pgstore/pgstore.go`). The position of
a message's goroutine is `pc`, with `idx` the image and `atLeft` the mentions it
still has to handle.

| model | code |
|---|---|
| `event[m]` | the content of the event, chosen at the start from `Contents`: sender, time, mentions, images, or a message of the bot's own |
| `Start` | `HandleGroupMessage` or a receipt reaches its store calls |
| `UpsertUser` | `UpsertUser` and `UpsertGroup` (there is one group, so the second has no effect to model) |
| `EnsureEmojiWhitelist`, `AddWhitelistHash`, `SegmentsRead` | the loop over the segments: look for a similar image, whitelist the sticker's own hash |
| `SaveMessage`, `SaveMessageRefused` | the plain INSERT, refused by the primary key or by the sender's foreign key |
| `SaveAtUser`, `SaveAtUserRefused`, `MentionsSaved` | the loop over the mentions; an unknown user ends the handler |
| `SaveImage`, `IsHashWhitelisted`, `GroupImageCandidates`, `ImagesDone` | `SaveAndCheckDuplicate`, image by image |
| `EnsureNoticeMessage`, `SaveEmojiLike` | `HandleGroupMsgEmojiLikeNotice` |
| `Fault`, `EnsureNoticeMessageErr` | a statement or download failing, passed over or ending the handler as in the code |

The variable `overlap`, fixed from the start as `event` is, says whether goroutines may run at
once. When they do not, messages are handled whole and in the order they were sent; what is claimed
for that case alone has it as a premise.

A picture is its hash; `Near` says which hashes are at a Hamming distance of at
most `duplicateImageThreshold`. It is reflexive and symmetric but deliberately
not transitive. Mentions are stored in any order, a superset of the code's.
Names, cards and texts are left out; so is the memory hook at
`internal/service/save_message.go:107`, which does nothing in this build.

### Memory backfill (`MemoryBackfill.tla`)

The factory's process, its state in memory and in the file, and one goroutine per
group. The other side of the message table, the bot, is reduced to rows appearing.

| model | code |
|---|---|
| `clock`, `rows`, `slow` | the messages sent, those in the table, and those whose row came later than the message: the bot stores a message after parsing, downloading and other calls |
| `mem`, `disk` | `memoryBackfillStateStore.state` and `state.json` |
| `proc`, `todo` | how far `RunMemoryBackfill` has come |
| `worker[g]` | the goroutine of a group and the rows of its batch |
| `attempted`, `produced` | history: what went through `processMemoryBatch`, and what it worked for |
| `Persist` | `persistLocked`: a temporary file and a rename, so the file is old or new, never half of each; memory changes in any case |
| `NewStateStore`, `PrepareGroup`, `Launch`, `MarkTaskDone`, `PrepareFails` | `RunMemoryBackfill` from loading the file to marking the task done |
| `MarkGroupRunning`, `ReadBatch`, `ReadBatchErr`, `ProcessMemoryBatch`, `AdvanceGroup`, `MarkGroupDone` | a goroutine's ticks |
| `Crash` | the process dies; only the file survives |

The position of a message in the order (time, message id) of the query is its number,
and the number of messages sent is the time. A message whose id sorts before that of
another of the same second is, to the factory, a message stored late, and is covered
by `slow`. The switch `memoryEnabled`, which is off in this build
(`internal/service/memory.go:21`), is taken as on: with it off the program returns at once. What
is left out is the minute between two ticks, the count of processed messages, the last error
and the archive copy of a finished state, which nothing reads. What the
production of a chunk stores is in `MemoryStore`.

`BackfillConsumer.tla` is the abstract specification: a consumer of growing logs that
commits positions. A commit goes forward and covers only what has been consumed.
`MemoryBackfill` implements it for the messages stored in time (`ConsumerSpec`), with the
file's cursor as the commit, through crashes, failing writes and queries. For messages stored
late it does not hold: the cursor may have passed their time, and then no run ever reads
them.

### A connection and its handlers (`WsConn.tla`, `GroupMessage.tla`)

`WsConn` is one connection: the loop of `handleWebSocket` and everybody who calls
`writeFrame`. `GroupMessage` extends it by what the goroutines of the texts do, so the
composition is one specification and handlers, pongs and the close frame compete for one
mutex.

| model | code |
|---|---|
| `reader`, `cancelled`, `socket` | where `handleWebSocket` is; `connCtx`; the TCP connection, which does not recover once it has failed |
| `fragmented` | what the peer has sent of a message in parts (external: it keeps to the protocol) |
| `delivered` | the payloads `ReadText` has returned; the n-th belongs to goroutine n |
| `calls[w]`, `lock`, `wire` | a goroutine in `writeFrame`, `writeMu`, and the pieces on the wire: header and payload are two writes, and either may fail |
| `ReadText`, `ReadPing`, `ReadOther`, `ReadContinuation`, `ReadClose`, `ReadErr` | the switch over opcodes |
| `Start` | `HandleEvent`, `HandleGroupMessage` and `HandleNotice` up to the first thing stored or sent |
| `Store`, `Execute` | `SaveIncomingMessageAndCheckImages` and the replies about repeated pictures; the command or the reply that is made now and then |
| `Send`, `Awake`, `Aborted`, `Returned` | `executeActions`: the wait before a reaction, the write, and `RecordPending` after a write that succeeded |

A text frame without FIN comes out of `ReadText` as a whole message; being half a JSON
value it is an error for the parser (`Part`). Taking the mutex and writing the header are one
step, because nothing can be seen between the two. What a receipt does is `Outbound`; what
`Store` does inside is `Intake`.

### The commands (`AiCommands`, `BbhAppend`, `ImagePool`, `QTanAnimation`, `QTanPalette`, `SmallCommands`; composed in `CommandsMC`)

The families of commands share no state with each other, so `CommandsMC` puts all of
them together and every behaviour follows one. The variables of the others rest. `CommandsMC` extends
five of the components, so the run checks the very definitions the theorems
state (`AicPicturesMatch`, `ParagraphsSound`, `PicturesSound`, `AnimationSound` and so on), and instantiates the
sixth, `SmallCommands`; a step of the composition is a step of one component or leaves its variables alone.

`AiCommands`: two goroutines with a command each, the message and image tables that others fill
meanwhile, and `lastAI` of the group. Every query is a step, every call of the model is a step that
answers, refuses or fails (a timeout is a failure). `RecentMessages` is the last n rows by time and
rows appear in any order. `.aic` asks four times: for the text, again, for as many of the most recent
messages, and for their images (`QuerySince` to `QueryImagesSince`). `Crash` forgets `lastAI`.
The memory context that could be added to a prompt is empty in this build.

`BbhAppend`: a book between two boundary paragraphs. A command reads it, may wait for the model, and
appends after the one before the end *as read*. The site (external) puts a paragraph behind a
predecessor that is still there; its own users write and remove paragraphs. `Authors` are the goroutines with a
command, named by the paragraph they would add; paragraphs in `Old` were there before.

`ImagePool`: the command's loop takes a place (`Spawn`), each worker downloads and makes the picture
(`Create`), writes it (`Encode`), puts its URL (`Put`) and gives the place back in any
case (`Release`); the command waits (`Wait`), collects the results row by row (`CompactStringsInOrder`) and
answers with pictures or a hint (`AnswerPictures`). Files of the same name meet on disk: `os.Create` empties
the file, and two who have it open leave it `"mixed"`.

`QTanAnimation`: one behaviour makes one picture: options, sizes, duration, the composition of the
source's frames by their disposal, and the frames of the result. The loops of `qtanGCD` and
`qtanBaseSize` take a step for each round (`GCD` on `pair`, `Trim` on `base`), so that what they compute is
a matter of their invariants. The canvas is divided into parts that
each show a frame, three in the run. The curve over floats that gives the height is any of `Heights`; the clamping
is exact. `QTanPalette`: the median cut, one split a step, and the nearest colour.

`SmallCommands`: dice, face ids, ranges of ids, faces and reactions of recent messages, JSON, report, send,
picture files, generated pictures, what `sendGroupText` makes of a text, and the pixel that mirroring takes. A text is a
sequence of its pieces; an int wraps at `MaxInt`; in the run that is 7, and a day has four parts. Three commands ask the
database more than once, and rows may be stored in between; any statement may fail, and the command with it (`QueryErr`):

| model | code |
|---|---|
| `CountMessages`, `NameGroup`, `RankDays`, `RankNights`, `RankAtted` | the five statements of `ReportStats` (`pgstore.go:454-519`), which no transaction holds together, and what `formatReport` makes of an empty result |
| `table`, `MessageStored`, `MentionStored` | the rows of the group, and what the handlers of other messages add to them while the report is made |
| `seen` | history: the rows there were at the first of the five |
| `GetFaceID`, `GetLikes` | the two queries of `RecentFaceIDRows`; `later` of the last messages are stored between them |
| `Prompt`, `GenerateImage` | `RecentMessages`, then `RecentMessageImages` and the call of the picture service, which fails or not; `later` as above |
| `Send`, `SendText` / `JSON` / `SendJSON` | an answer that `sendGroupText` normalises and escapes / one with `PreserveText`, which it leaves as it is / a segment that does not go through it |

### Memory pipeline (`MemoryStore.tla`)

Switched off in this build (`memoryEnabled`, `internal/service/memory.go:21`); the module says what it does
when on.

| model | code |
|---|---|
| `queued`, `arrived` | the buckets of `pendingMemoryQueue` and what has been enqueued |
| `worker[w]` | the goroutine of a message that filled its bucket, or the ticker, in `processMemoryBatch` |
| `facts`, `impressions` | the two tables, in the order of their ids |
| `taken`, `lost`, `forgotten`, `raced` | history, for the properties |
| `Enqueue`, `FlushExpired` | the two critical sections of the queue |
| `BeginBatch`, `Extract`, `Embed`, `EmbedErr` | aggregation, extraction and embedding |
| `MemoryFactExistsByHash` to `SaveMemoryFact` | `saveFactMemory`, a statement each; `Refused` is the partial unique index |
| `MemoryImpressionExistsByHash` to `SaveMemoryImpression` | `saveImpressionMemory`: version, nearest, deactivate, insert, without a transaction |
| `StatementErr`, `Crash` | a statement fails and the candidate is given up; the process dies |

A text stands for its hash, `Alike` for the similarity limits. It is not transitive, so two
impressions that are alike can both be active; nothing in the code claims otherwise.

## 3. What is checked

All runs are finite by construction: `MaxActions` bounds the requests of one
handler of `Outbound`, every handler handles one event, every connection is opened once, every
message arrives once, `MaxClock` bounds the messages the factory finds, `MaxTexts` and `MaxReads`
the frames a peer sends, `MaxDuplicates` the repeated pictures of one message, and `MaxCrashes` the
restarts of the memory pipeline. Deadlock
checking is off where the system may really stop: when every event is handled nothing is left to
do. It is on in the backfill runs, where the factory can always be run again.

| run | instance | result |
|---|---|---|
| `outbound_hostile` | 2 handlers (a reaction then a reply, or one unsaved message), 2 connections, every environment event; symmetric in handlers and connections; 0.3 million states | `TypeOK`, `OwnedOnce`, `BacklogLaw`, `ArchiveSpec` and `LogSpec` hold |
| `outbound_quiet` | 2 handlers, one connection, all orders of replies, unsaved messages and reactions; no environment event; fair | `ReceiptMatchesSend` and `RepliesArchived` hold |
| `outbound_failed` | receipts may fail, nothing else | `ReceiptMatchesSend` is violated |
| `intake_crowd` | 2 messages out of 4 contents (pictures, stickers, mentions of known, new and unknown users, the bot's own), 2 reactions, everything concurrent, any call may fail | `TypeOK`, `StoredInOrder`, `ReportsAreGenuine`, `RowsNeverChange` hold |
| `intake_pictures` | 3 messages with pictures and stickers, out of 4 contents in every interleaving or out of 7 one after the other, no faults | `GivesUpOnlyWhen`, `SomeoneReports`, `StickersNotReported`, `ReportsFirst` hold |
| `intake_notice` | as `intake_crowd` without faults | `EventsStored` is violated |
| `backfill_hostile` | 2 groups, 3 messages, batches of 2 in chunks of 1, every environment event; 0.3 million states | `TypeOK`, `DoneMeansCaughtUp` and `ConsumerSpec` hold |
| `backfill_live` | the same, productions may fail and the process may die at any point; fair | `RepeatsOneBatch` and `EverythingAttempted` hold |
| `backfill_swallowed` | productions may fail, nothing else | `FailedBatchKept` is violated |
| `server` | one connection, 2 frames of any kind, 2 goroutines, 5 payloads and a fragment, a command that answers with two reactions, any write may fail; fair; 0.16 million states | `TypeOK`, `RepliesSound`, `LogSpec` and `Finishes` hold |
| `commands` | per family: two AI commands of four kinds over 2 messages with pictures; two `.bbh` commands and a reader of the site over 3 books; two image commands over 4 rows with 2 places; animations of up to 4 frames with every disposal and 7 settings, heights below, within and above the canvas; palettes of 5 colours; every small command over all its bounded inputs: reports of five messages in three days, any of them in the table, with up to two rows stored between the statements; texts of up to six parts, whose codes hold others, follow each other or do not end; fair; 0.25 million states | `TypeOK`, `AicPicturesMatch`, `AicContinuesTheLastAi`, `RepeatsOnlyAfterAllTries`, `RefusedIsNotRetried`, `ParagraphsSound`, `PicturesSound`, `AnimationSound`, `AnswersExact`, `CommandsEnd` hold |
| `memory` | one group, 3 messages of 2 users, batches of 2, 3 texts and 3 answers of the model, up to two batches at once, any call may fail, one crash; fair | `TypeOK`, `ItemsKept`, `OneActiveFact`, `ImpressionsKept`, `VersionsGrow`, `ItemsLeave` hold |

Why the bounds are enough: the hazards of the queue need two requests, two
receipts and one event between them, and a second connection or a second
process life for the late ones; `outbound_quiet` has two handlers that both record two
entries, so four receipts in every order of kinds. The hazards of intake are between two messages, or between a message
and a notice; the third message of `intake_pictures` is there because similarity is
not transitive. The hazards of the backfill need a batch that is full, one that is short
and one that is empty, a batch of two chunks so that a crash falls between them, and two
groups whose goroutines share the file: three messages and a limit of two give all of
them. Mixed frames need two writers and a header without its payload; a third frame adds
another million states and nothing new. The AI commands need two commands that overlap
and a message between two of their queries; a larger instance (three messages, the third with the
picture of the first; 0.57 million states) was checked as well and holds. A pool of two places with three
workers has one that waits. A memory batch of one and one of two, of two users, give an attributed and an
unattributed impression, a fact twice, and a third text that is like the second only.

Each of the properties fails in its run when the code is changed
the way a plausible bug would change it (the mutants in `PROJECT.json`; their
bodies stand in the modules directly above the operator they replace). A property of
several parts has several mutants.

`BacklogLaw` deserves a word: whenever nothing runs, the length of the queue is
*exactly* the number of messages never acknowledged plus the number of receipts
that came before their request was recorded. It is the quantitative form of "a
failed receipt shifts every later one", and it holds in every environment.

`StickersNotReported` and `ReportsFirst` are about events that did not overlap: two similar
stickers handled at once can both miss each other's image when they look whether to
whitelist (`internal/service/save_message.go:55`), and one is then reported; a
report names the first message among those stored so far. In the same way `ReceiptMatchesSend`
is claimed for handlers that do not overlap between write and record
(`internal/handler/napcat/handler.go:179`), and `VersionsGrow` for persons of whom no two batches
saved an impression at once. The properties say so in their premises.

Fairness of `Outbound` (used by `outbound_quiet` alone): the steps of a handler, of a
receipt goroutine and of the read loop that notices a broken connection are
weakly fair because the Go scheduler runs every runnable goroutine; NapCat
answers each request it has a connection for, which the code cannot enforce and
the quiet instance assumes. Events need not arrive, connections need not open.
Fairness of `MemoryBackfill` (used by `backfill_live`): the goroutines are scheduled, and
somebody runs the factory again; that it does not die each time is a premise of
`EverythingAttempted`, not of the fairness.
Fairness of the commands and of the memory pipeline: goroutines are scheduled and every
client has a timeout, so a call ends; messages need not come. The ticker of the memory pipeline
never stops. Fairness of `GroupMessage`: the same, and that a write and a statement return. Neither has a
deadline in the code, so this is an assumption about the peer, which reads or fails, and about the database.

### Findings

1. `outbound_failed`: `CompleteActionResult` returns before `Pop` when a receipt
   failed (`internal/service/service.go:103`), so the failed request's entry stays at the
   head. The next reply's receipt takes it, and all later rows hold the
   previous text until the process restarts.
2. `intake_notice`: a reaction handled before the message it names inserts the
   message's primary key; the message itself is then refused and its text, mentions
   and images are never stored. The window is wide: before its INSERT the
   message's goroutine downloads its stickers.
3. `backfill_swallowed`: `processMemoryBatch` reports no error, so the cursor passes a chunk
   whose extraction or embedding failed (`internal/service/memory_factory.go:148`) and no
   run tries it again.

The first contradicts `olddocs/GO_MIGRATION_PLAN.md:28` (sends are associated with
their receipts), the second `:34` (group messages are stored), and the third
`olddocs/MEMORY_BACKFILL_PRODUCER_DESIGN.md:466` (a failed batch does not move the cursor).

Met while reading, and not in the way of any property:

- `.report 0` divides the number of messages by zero days (`internal/service/report.go:25`).
- `.faceid` with the greatest integer as its last id wraps round and never ends
  (`internal/service/command_faceid.go:43`).
- The days of a report are those of the database's time zone, its nights are ranked in the process's;
  `SmallCommands` takes the two as equal.
- The column of an impression's embedding has 768 dimensions, the embeddings are made with 1024
  (`sql/create_njk_tables.sql`, `internal/client/ai/embed.go`).
- After a failed multimodal call only "the latest image" is sent, which is the last of a list
  deduplicated at each URL's *first* appearance (`internal/service/ai_fallback.go:47`).

## 4. What is proved

`Outbound_proofs.tla` holds, for every set of handlers, connections and scripts,
every bound `MaxActions` and every environment `Env` (assumption: `OutboundAssumption`,
which says that the constants have their types):

| theorem | states |
|---|---|
| `TypeCorrect` | `Spec => []TypeOK` |
| `Invariance` | `Spec => []IInv` |
| `OwnedOnceAlways` | `Spec => []OwnedOnce` |
| `PendingWasWrittenAlways` | `Spec => []PendingWasWritten` |
| `Refinement` | `Spec => ArchiveSpec` |
| `BacklogLawAlways` | `Spec => []BacklogLaw` |
| `ReceiptMatchesSendAlways` | `Orderly => (Spec => []ReceiptMatchesSend)` |
| `LogRefinement` | `Spec => LogSpec` |

`OwnedOnce` is not inductive: that `Record` does not queue a send a second time
depends on where the handlers are. The inductive invariant `IInv` adds
`WrittenSound` (a written request
belongs to a handler that has started, and a handler about to record has written
its current request), `PendingSound` (an entry was written, its handler is past it,
and it is marked for saving exactly when it is a reply) and `ReceiptSound` (the same
of what a receipt has popped, which only a delivered receipt does; what is being
saved is a reply whose row is still free).
`IInv` was model-checked on the hostile instance before it was proved; the proofs go action
by action. The refinement uses the invariant in one place: `SaveSelf` files a text that
was requested, is not in the table and goes under an id that is issued and free.

`BacklogLaw` counts, so its invariant says where everything is: `LawInv` adds to `IInv` that each
message written and not lost to a crash is in the queue or with the receipt that popped it (`Accounted`), that no
entry of the queue belongs to a dead handler (`EntriesLive`), what an answered request's receipt has done
(`AnswerSound`), and that what is written has been passed by its handler (`WrittenPast`, `ConnSound`). When nothing
runs, the messages of running handlers are then counted in two ways, queued or popped, acknowledged or not, and the
law is the difference (`LawHolds`).

`ReceiptMatchesSend` is what the first finding refutes, so it needs a hypothesis. `Orderly` allows a failing
database and crashes and excludes failed receipts, lost connections, receipts handled before the record,
overlapping handlers and reordered receipts (`Env \subseteq {"store", "crash"}`). It is as weak as it can be: TLC
finds the property violated with any single one of the five added. The heart of the proof is
`PopsItsOwn`: an older entry at the head would belong to an earlier request that is still to be
answered, and such a receipt is handled first. For that `OrderInv` keeps that the queue is in the order
of writing (`Ordered`), that only the last request written may be unrecorded (`LastRecording`), and that an
entry's own receipt has not been handled (`Unanswered`).

`LogRefinement` takes `LawInv`: `WriteOk` is a `Write` because what a handler has written it is past
(`WrittenPast`), `Record` is a `Record`, and popping an entry leaves what is expected as it is, because the entry goes
from the queue to a receipt (`PopOwned`). A crash forgets both, as `RequestLog` allows. `PendingWasWritten` is the
invariant this replaced as a checked property; it remains a theorem, of which the refinement is the stronger form.

`MemoryBackfill_proofs.tla` holds for every set of groups, every `Limit`, `Chunk` and
`MaxClock`, and every environment `Env` (assumptions: `BackfillAssumption`, the types of the
constants, `Limit` and `Chunk` not zero; `NoneAssumption`, that no state file is not a state):

| theorem | states |
|---|---|
| `TypeCorrect` | `Spec => []TypeOK` |
| `Invariance` | `Spec => []IInv` |
| `DoneMeansCaughtUpAlways` | `Spec => []DoneMeansCaughtUp` |
| `RepeatsOneBatchAlways` | `Spec => []RepeatsOneBatch` |
| `Refinement` | `Spec => ConsumerSpec` |

Here even the types need the invariant: `AdvanceGroup` moves the cursor to `Last(batch)`,
which is a message number only because the batch is not empty. `IInv` says that nothing is
stored before it is sent (`TableSound`), that a state's cursors lie in the past and pass nothing
punctual that was not processed (`StateSound`, of memory and of the file), that the file is not
ahead of memory (`FileSound`), what the worker table looks like in each phase of the
process (`ProcSound`), and of each goroutine that its batch is the front of the unread rows
and is all of them if it is short (`BatchSound`, `WorkerSound`). `DoneMeansCaughtUp` follows from
`DoneSound`, the same for the groups the current run has looked at. The refinement is then
short: a step that leaves table and history alone is a `Commit`, and `StateSound` of the new
file is its condition. `RepeatsOneBatch` needs `RepeatSound` on top: without late rows and lost
writes, what was processed beyond the cursor of the file lies in the next full batch.

All of it rests on five lemmas about `Oldest`, the `ORDER BY ... LIMIT` of the query:
`OldestPrefix` (it takes from the front), `OldestShort` (fewer than asked for is all),
`OldestSize` (never more than asked for), `OldestGrows` (rows added behind change nothing in
front) and `LastExists` for the greatest element. They are proved from the least-element
principle and the library's facts about cardinality, without induction over data.
Like the first, both `IInv` and `RepeatSound` were model-checked before they were proved.

`MemoryStore_proofs.tla` holds for every number of groups, messages, users and texts, every set of
answers, every relation of likeness and any number of batches at once (`MemoryAssumption`, the types of the
constants):

| theorem | states |
|---|---|
| `TypeCorrect` | `Spec => []TypeOK` |
| `ItemsAreKept` | `Spec => []ItemsKept` |
| `FactsAreUnique` | `Spec => []OneActiveFact` |
| `ImpressionsAreKept` | `Spec => []ImpressionsKept` |
| `VersionsAreOrdered` | `Spec => []VersionsGrow` |

Types need `JobsOK`: a worker at a statement has a candidate, of the type the statement is about, and a
row number it means to deactivate is one of the table's. `ItemsKept` follows from `Accounted`, which
counts each message where it is. `ImpressionsKept` needs `AllHeld`: a worker about to insert holds the
person's place, and whoever deactivated a row is that worker. `VersionsGrow` needs `VersionsInv`: as long
as a person has not been raced, what the one worker saving for that person has read of the table is
still true (`AllFresh`), and the rows are ordered (`Ordered`).

`GroupMessage_proofs.tla` holds for every number of texts, frames and requests (`ConnAssumption`,
`GroupMessageAssumption`, the types of the constants, and that half a JSON value is a parse error):

| theorem | states |
|---|---|
| `TypeCorrect` | `Spec => []TypeOK`; with it that whoever is between header and payload holds the mutex, and nobody else |
| `FramesAlwaysWhole` | `Spec => []FramesWhole` |
| `RecordedWasWrittenAlways` | `Spec => []RecordedWasWritten`: nothing is in the queue of pending requests that is not on the wire |
| `OnlyWhatMayBeAlways` | `Spec => []OnlyWhatMayBe` |
| `RepliesSoundAlways` | `Spec => []RepliesSound` |
| `LogRefinement` | `Spec => LogSpec` |

`TypeOK` is inductive with `CallsOK` (who does not wait for a call has made none, so making
one cannot drop the mutex). `FramesWhole` is inductive with `HeldByLast`: while writes succeed, the last
piece is whole or is the header of the goroutine that holds the mutex; a write that fails gives the mutex
back but leaves the connection broken, so nothing follows. `RecordedWasWritten` is what `PendingWasWritten` of
`Outbound` says of its own queue. The plans need `PlansInv`, per goroutine: where in its plan it is
(`PlanSound`), that the requests on the wire are those it has passed and maybe the current one
(`EndsSound`), increasing (`InOrder`), with none left out but what was given up (`NoGaps`); that what it has passed
is on the wire, given up, or the connection is broken (`PassedSent`); and that exactly the replies among
them are recorded (`RecordsOf`). `LogRefinement` follows from the same invariant: the abstract `Write`
is the write of the payload (`PayloadLogged`), the abstract `Record` the step after it (`ReturnedLogged`), and everything
the reader, the pongs and the close frame do is a stutter.

`Intake_proofs.tla` holds for every set of messages, contents, notices, users and hashes and every relation of
nearness that is reflexive and symmetric (`IntakeAssumption`), with and without faults, and covers everything
the runs check of `Intake`:

| theorem | states |
|---|---|
| `TypeCorrect` | `Spec => []TypeOK` |
| `RowsStay` | `Spec => RowsNeverChange` |
| `StoredInOrderAlways` | `Spec => []StoredInOrder` |
| `ReportsAreGenuineAlways` | `Spec => []ReportsAreGenuine` |
| `SomeoneReportsAlways` | `Spec => []SomeoneReports` |
| `GivesUpOnlyWhenAlways` | `Spec => []GivesUpOnlyWhen` |
| `ReportsFirstAlways` | `Spec => []ReportsFirst` |
| `StickersNotReportedAlways` | `~Faults => (Spec => []StickersNotReported)` |

Two lemmas say what a step may do: a goroutine adds mentions and images of its own message only, when it is at
them, and disturbs no other's place (`MessageEffect`); a notice adds rows only (`NoticeEffect`). Then each
property has its strengthening. `StoredInOrder` needs to know what is stored when a goroutine is at its mentions or images
(`PlaceOK`). The reports need that an image is stored before it is checked (`ChecksOK`): the image checked second
finds the first. `GivesUpOnlyWhen` needs what holds before the INSERT (`StartOK`). `ReportsFirst` needs that without overlap
goroutines start in the order of their times (`TurnsOK`), so an image stored after a report is of a later
message. `StickersNotReported` needs that a sticker looked at is whitelisted or has nothing
alike, until its check (`SettledOK`); with faults it is false, because a failed lookup skips the whitelisting.

`AiCommands_proofs.tla` holds for every number of messages and goroutines, every table of pictures, every history
length and number of candidates (`AiAssumption`, the types of the constants):

| theorem | states |
|---|---|
| `Invariance`, `TypeCorrect` | `AiSpec => []IInv`, `AiSpec => []AiTypeOK` |
| `AicPicturesMatchAlways` | `AiSpec => []AicPicturesMatch` |
| `AicContinuesTheLastAiAlways` | `AiSpec => []AicContinuesTheLastAi` |
| `RepeatsOnlyAfterAllTriesAlways` | `AiSpec => []RepeatsOnlyAfterAllTries` |
| `RefusedIsNotRetriedAlways` | `AiSpec => RefusedIsNotRetried` |

The invariant says of a command at each stage what it has found (`TextFound`, `AicSound`) and how many
requests it may have made: three for each candidate that failed and one for each stage of the current
(`Budget`). `AicPicturesMatch` rests on `AicSound`: as long as the table is still the one `.aic` read its text from,
the messages since the start, the second time they are asked for, and as many of the most recent are one set. That
last step is the lemma `RecentAreSince`: the latest n messages, n being the number of those since the start,
are those since the start. `AicContinuesTheLastAi` is inductive with `AfterEnded`.

`BbhAppend_proofs.tla` holds for every set of authors, of readers' paragraphs and of books and ranges
(`BbhAssumption`: a paragraph is known by its identity, and a book has both boundaries or is not there):

| theorem | states |
|---|---|
| `Invariance`, `TypeCorrect` | `BbhSpec => []IInv`, `BbhSpec => []BbhTypeOK` |
| `ParagraphsSoundAlways` | `BbhSpec => []ParagraphsSound` |

What a writer read is stale by the time it adds, and the book may have lost the predecessor it named. What does
not go stale is the order: two paragraphs of an old reading that are both still on the site are there in the
order in which they were read (`Reading`, by `InsertKeeps` and `RemoveKeeps`), because nothing that was removed comes
back (`Settled`). So a paragraph put behind the last one read is behind them all. `BookSound` keeps the
paragraphs distinct and the boundaries in place; positions are handled through
lemmas about `InsertAt`, `RemoveAt` and `SelectInSeq` of the community module.

`Commands_proofs.tla` is about the other four components of the commands. `ImagePool`, for every number of
commands, rows and places (`PoolAssumption`: a query finds at most the rows there are, and there is a place):

| theorem | states |
|---|---|
| `Invariance`, `TypeCorrect` | `PoolSpec => []IInv`, `PoolSpec => []PoolTypeOK` |
| `PicturesSoundAlways` | `PoolSpec => []PicturesSound` |

`PlacesSound` (the places taken are the workers at work) is what makes `places` stay within the bound; that
a place is free when the command answers follows with `LoopSound` (no worker is left when results are
collected). `PutSound` says that a result is its own row's and was put by a worker that came through,
`Collected` that the answer so far is the results of the rows passed, in their order. A file may be
emptied by another command at any time, so `FilesSound` says that it is the command's own, in the state its worker left
it, or that another command of the family has opened it (`Met`), which stays true; `OpenSound` links the
files that are open to the workers at their encoding. `IInv` was model-checked first.

`QTanAnimation`, for every set of pictures, options, heights and canvas parts, every limit and
every padding (`QTanAssumption`: a frame lasts some time, as the code sees to whatever the file says, and a picture of
one pixel fits the limit at the greatest scale; with the constants of the code it does by a
wide margin):

| theorem | states |
|---|---|
| `QTanInvariance`, `QTanTypeCorrect` | `QTanSpec => []QTanInv`, `QTanSpec => []QTanTypeOK` |
| `AnimationSoundAlways` | `QTanSpec => []AnimationSound` |

`EndsOnTheBeat` is the arithmetic: that the duration is the *least* common multiple of the source's loop
and the beat. `Euclid` keeps, round by round, that both numbers of `pair` combine from multiples of the two and that who divides
both divides the two, so what is left at the end is the greatest common divisor, and the multiple made from it
is the first (`FirstCommon`, `CommonPeriod`). `KeepsItsSpeed` needs
that frame k starts when the ones before it have ended (`Composited`), and that what the binary search
finds is there although frames may have been left out: the time asked for lies before the end of the frames kept.
`FramesAsSeen` is inductive with `Canvas`, the same of the canvas after disposal.
`Clock` and `Shrunk` are the only definitions that need an argument that they exist: the clock is a
recursive function on a finite range, shown to exist by induction over a *set* of numbers (`ClockExists`), and
the rounded square root is the least of the numbers that are large enough.

`QTanPalette`, for every set of colours and weights and every size of the palette (`PaletteAssumption`: three
bytes make a colour, every colour that is counted occurs, and the palette has an entry):

| theorem | states |
|---|---|
| `PaletteInvariance`, `PaletteTypeCorrect` | `PaletteSpec => []PaletteInv`, `PaletteSpec => []PaletteTypeOK` |
| `PaletteFilledAlways` | `PaletteSpec => []PaletteFilled` |

That a box has its colours in the order of a channel is a choice of the model's, and by induction over finite *sets* there
is always such an order to choose. Along it the weights are summed up; the sums of a channel are at most 255 times the sum
of the weights, so a mean is a byte. A split leaves something on both sides and takes
nothing from the cover (`PaletteFilled` says both that the boxes cover the picture and that no two meet). When no box can
be split any more every box has one colour, and there are as many boxes as colours (`EachItsBox`): so a palette with room
left has every colour.

`SmallCommands`, for every set of tasks, every width of an int and every limit (`SmallAssumption`: the types of the tasks,
and limits below the greatest int):

| theorem | states |
|---|---|
| `SmallInvariance`, `SmallTypeCorrect` | `SmallSpec => []SmallInv`, `SmallSpec => []SmallTypeOK` |
| `SmallAnswersExact` | `SmallSpec => [](DiceAddUp /\ FacesAsAsked /\ ReportIsWhole /\ SentAsTyped /\ MirrorIsSymmetric)` |

- `DiceAddUp`: `sum` adds in ints that wrap. As long as the greatest total of such a throw is an int, no partial sum leaves
  the ints (`SumIs`), and the two sums are one function (`SameSums`).
- `FacesAsAsked` needs the state of the loop in the invariant (`Turning`): the ids so far are those from the first to before the
  loop variable. The guard computes the length of the range in an int too; for a range of positive ids it
  cannot wrap, and neither can the loop variable unless the range ends at the greatest int.
- `ReportIsWhole` relates a report to two states of the table: it misses nothing that was there at its first
  statement (`seen`) and tells of nothing that is not there when it is given, although each part of it was read at another
  time. Its invariant says so of the parts there are so far (`ReportSoFar`): each statement establishes its part from the
  table it reads (`TopsCorrect`, `NightsCorrect`), and a row stored later only widens the bound above
  (`TopsLater`, `NightsLater`). That the days are whole needs that a report begins at five o'clock, where a day
  begins: the rows counted are those of the days it is about (`CountedIs`). A day that is ranked has its night, because the
  nights are read after the days: every message the days counted is there still (`TopsAreThere`). Within a day the later
  message is the one later after five (`LaterInDay`), which is why the ranking of the nights by that offset agrees
  with the time.
- `SentAsTyped`: what OneBot's spelling of a text and the replacements make of it is followed from the end of the
  text to its start (`AllDown`), piece by piece: after the brackets have been put back, a text still has all
  its ampersands spelled out (`TypedAgain`). The order of the replacements is where the proof would fail: an
  ampersand that comes back first could meet a `#91;` that was typed. What `sendGroupText` then makes of a text is
  in the statement: `.send` sends that, `.sendjson` just what was typed, and `.json` what is stored.
- `MirrorIsSymmetric` is a matter of each axis by itself (`AlongIs`).

The ranges and functions over texts that are recursive are shown to exist like the clock, by induction over a set
of places (`JoinExists`, `JoinUnique`).

Only model-checked:

- Of `AnswersExact` what is left: `RangesAreTheIDs`, `ReactionsFollow`, `RowsOfOneMessage`, `PicturesOfTheLast` and
  `CodesStayWhole` (every code of a text whole and escaped inside, every other piece as it was, a second pass without
  effect). They sort, fold
  and search sequences with the operators of the community modules (`SortSeq`, `FoldLeft`, `SelectInSeq`), whose
  value for every sequence would take inductions over data that the provers cannot do. The other parts of it are
  theorems of their components. So is each part of the composed `TypeOK` of the run `commands`.
- Everything about liveness and fairness: `RepliesArchived`, `EverythingAttempted`, `Finishes`,
  `CommandsEnd`, `ItemsLeave`.

## 5. What is not modelled, and what is left

Not modelled at all: the generated database layer, configuration, start-up and scripts. None keeps state
that interleaves. Of the parts that are modelled, the following is left out:

- *Transport*: lengths and masks of frames, the handshake's text, the endpoint that serves images.
- *Dispatch*: the regular expressions, prompts and help texts.
- *AI and HTTP clients*: the JSON of requests and responses; what a call can come back with is in the modules
  of its callers.
- *Images*: pixels other than which one mirroring takes, scaling, and the curve of a bouncing picture's
  height.
- *Small commands*: layout and wording; `.help` and the model names.
- *BBH*: the list of plazas and its previews.
- *Memory*: reading it back (`BuildMemoryContext` and the vector search behind it), switched off with the rest.
- *Store*: the SQL of joins and vector searches; what their results are is in the operators.

What is left to do, most valuable first:

1. The composition of intake and outbound: the bot's own message and a reaction to it.
2. `Outbound` with the handlers of `GroupMessage` in place of its own; `RequestLog` is the interface.
3. Proofs about the sorted and folded sequences of `SmallCommands`: ranges, rows and codes.
