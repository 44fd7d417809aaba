# Qwen2API_Go: specifications, checks and proofs

Qwen2API_Go is a proxy: it offers the APIs of OpenAI and Anthropic to clients
and answers their requests with the web service Qwen Chat, for which it keeps a
pool of accounts. This directory holds TLA+ models of its stateful parts, the
TLC runs that check them, and theorems that TLAPS proves about them. Everything
is translated from the Go code under `internal/` and `cmd/`; paths and line
numbers below refer to it. `PROJECT.json` maps every definition to its lines.

    tlc -config AccountPool_directory.cfg MCAccountPool.tla     one run
    tlapm AccountPoolProofs.tla                                 one proof module

A model `X.tla` comes with `MCX.tla` (values for TLC), `X_<question>.cfg` (one
file per run) and, where it is proved about, `XProofs.tla`.


## 1. The system

| component | state | operations | interacts with |
|---|---|---|---|
| Account pool, `account/service.go` | the slice of accounts, round-robin index, last use and failures per e-mail, `initialized` | `Initialize` (a goroutine beside the server), add, delete, refresh one or all, three ways to take a session, `RecordFailure`, `ResetFailure` | stores, upstream sign-in, chat execution, admin |
| Account stores, `storage/accounts.go`, `redis.go` | `data.json`, Redis keys or the environment | load, save, delete, save all | pool; shares the file with the next |
| Conversation store, `storage/conversations.go`, and sessions, `openai/conversation_sessions.go` | context hash -> account and chat, for 24 hours | get (and clean up), save, cache with aliases, delete with aliases | chat execution, OpenAI handler, admin viewer |
| Chat execution, `openai/chat_execution.go` | locals of a request | mapped chat, failover loop, guest retry, save mapping, record usage | pool, sessions, tracker, upstream |
| Chat tracker and cleaner, `storage/chat_tracker.go`, `cleanup/service.go` | records per chat; mode; a pass in progress | hourly pass in mode 0, 1 or 2 | tracker, pool, upstream, settings |
| OpenAI handler, `openai/handler.go` | locals of a request, default-account listing | chat (streamed or not), models, images, videos | chat execution, tool calls, metrics |
| Anthropic handler, `openai/anthropic.go` | the open content block of a stream | messages, token count | chat execution, tool calls |
| Tool calls, `toolcall/`, `toolargs/` | `StreamState`: pending text, captured text | inject prompt, parse calls, parse a stream chunk by chunk | both handlers |
| Assets and upload, `openai/assets.go`, `upload.go` | none across requests | fetch, upload, poll until parsed | upstream |
| Upstream client, `qwen/client.go`, `upstream.go` | HTTP client, proxy settings | sign-in, list models, new chat, completions, list and delete chats, error classification | everyone above |
| Guest cookies and fingerprints, `qwen/guest.go`, `fingerprint.go`, `ssxmod/manager.go` | cached cookies and their time, `guestMu` | get, refresh | upstream client |
| Configuration, `config/` | runtime settings; the environment; the `.env` file | load, snapshot, one setter per setting, rewrite `.env`, reload | admin, cleaner, client |
| Admin handler, `admin/handler.go` | batch tasks | accounts, settings, prompts, sessions | pool, configuration, sessions |
| Authentication, `auth/` | the key ring | validate, add, remove | server |
| Metrics, `metrics/stats.go` | totals and a ring of minutes | record, snapshot | handlers |
| Prompts, server, logging | templates; routes; a log buffer | | |
| Web frontend, `public/` | in the browser | calls the admin API | outside the program |

How they work together. `main` builds the two stores, the pool, the tracker,
the handlers and the cleaner, starts `Initialize` and the cleaner as goroutines
and serves HTTP; every request is a goroutine. A chat request hashes its
messages but the last, looks up which upstream chat that hash is mapped to,
takes that chat's account, and sends the tail; without a mapping, or when the
chat fails, it takes accounts one after the other and opens a chat of its own.
When the answer begins, the hash is mapped; when it has been delivered, the
hash of the conversation *with* the answer is mapped too, which the client's
next request will compute.

What is hard about it:

* **Interleaving.** Every call into the pool, the sessions or the tracker takes
  and releases a lock; what was true in one call need not be in the next.
  `AddAccount` releases the lock for a sign-in, `Initialize` works on a slice
  that it shares with the pool, `RefreshAllAccounts` walks a copy.
* **Two mutexes, one file.** Both file stores read, modify and write
  `data.json`.
* **Partial failure.** Sign-in, save, delete, send, stream: each can fail after
  the step before it took effect, and some only for this caller.
* **Stale state.** Mappings, lists of the cleaner, `maxAttempts` and the
  cool-down are read at one moment and used at another.
* **Ordering of a protocol nobody wrote down.** The hash computed after an
  answer has to be the hash the next request computes before its last message.
* **Crashes** between any two writes; only Redis or the file survives.
* **Retries of what may have been done.** A guest's request is sent again with
  new cookies, an image is asked for again, a chat is opened anew; who failed and
  who fetched new cookies meanwhile are different requests.
* **Three places for one setting.** The runtime, `.env` and the environment each
  hold all settings, and saves, reloads, hand edits and starts copy them about.

What makes each part correct is stated in section 3; everything in the code
that is hard to test, modelled or not, is in the `hazards` of `PROJECT.json`.


## 2. The modules

| module | models |
|---|---|
| `Rotation` | abstract: what the pool promises a request |
| `AccountPool` | the pool over an account store; implements `Rotation` |
| `ChatExecution` | `executeChatRequest` over `Rotation`, mappings, tracker, upstream |
| `Continuity` | what upstream chats hold, context hashes, incremental tails |
| `DataFile` | the file under the two file stores, access by access |
| `ChatCleanup` | the cleaner's pass over tracker, pool and upstream |
| `ToolCalls` | operators: tool calls in a whole text, and the stream parser |
| `MessageStream` | what `handleStream` and `handleAnthropicStream` write, over `ToolCalls` |
| `StreamInspection` | operators: the look at the beginning of an upstream answer |
| `UpstreamClient` | one `Client` under many requests: cookies, models, retries, over `StreamInspection` |
| `MediaRequest` | images, videos and uploads, over `Rotation` |
| `Settings` | settings, `.env`, environment and keyring under administrators and restarts |

    Rotation  <-- implemented by --  AccountPool     over an atomic store,
       ^                                             which DataFile opens up
       |  INSTANCE
       +-- ChatExecution   mappings whose meaning is in Continuity,
       |                   tracker whose consumer is ChatCleanup
       +-- MediaRequest    requests for images and videos, and uploads

    UpstreamClient    what one call of ChatExecution, MediaRequest or
       |  EXTENDS     ChatCleanup to the upstream service is
    StreamInspection

    MessageStream     the answer that ChatExecution ends with,
       |  EXTENDS     on its way to the client
    ToolCalls

    Settings          what the administrator sets, the cleaner's mode included

### AccountPool

`accounts`, `initialized`, `currentIndex`, `lastUsed`, `failures` are the fields
of `Service`. Every method that holds `s.mu` throughout is one action.
`AddAccount` is three: the check under the read lock, the sign-in that fails, and
`AddAccountWithToken`. `Initialize` is five (`BootLoad` ... `BootSave`); between
publishing its slice and filtering it, the slice is shared with `s.accounts`, so
an in-place rebuild by an add or a delete writes through it. `array`, `capacity`
and `shared` model this, as far as Go's `append` makes it visible. A delete in
between leaves the last account in the array twice, and
`filterPersistentAccounts` keeps both, so that the slice, the store and the next
process list it twice. Until `initialized` is set, and for ever if the first
load of the store fails, the pool gives no sessions, whatever was added to it.

Time: `lastUsed[k]` ranks the uses, `recent` holds the keys used less than five
minutes ago; `MinutesPass` takes the oldest out. Failure counts saturate at the
threshold. A token is fresh or expired. `Mailbox` folds the case of an address:
the pool and the file store compare folded, Redis and the counters do not.
`store` says how often each address is in the store: the file and the variable
`ACCOUNTS` may hold one twice (the latter at most `MaxNamed` times), Redis cannot.
The store is loaded in any order. A write of the store succeeds, is refused
(read-only `env`), or fails and leaves
the store as it was; the file's finer behaviour is in `DataFile`.

### Rotation

The pool as a set, whether it is `ready` (`s.initialized`), the accounts that cool
down, and the account each request holds. It hides the slice, the round robin,
stores, the steps of the start-up and time, and says that a pool is empty (before
start-up), the guest alone, or real accounts; that nobody is handed out before
`Initialize` has succeeded, not even from a pool that was filled before; that
only a failure of a holder makes an account cool down; and which account may be
handed out. `ChatExecution` is checked against exactly these promises.

### ChatExecution

`pc[r]` is the point a request has reached in `executeChatRequest`:

    idle -> resolving -> looking -> mapped -> sending -> saving -> recording -> serving
                 \           \________\         ^
                  \____________________> choosing -> creating

`limit`, `attempted`, `mapping`, `chat`, `tail`, `refreshed` are the locals
`maxAttempts`, `attempted`, `mapped`, `chatID`, `incremental` and
`allowGuestRefresh`. The upstream service may fail any call in any of the ways
the code tells apart: retryable, explained, "chat not exist", or a transport
error. A pool that is not `ready` refuses a session, whoever asks for one: the
request for the mapped account goes on without it, and the loop over the accounts
gives up. Mappings and the tracker are atomic maps; a mapping may disappear at any
step (expiry, the admin page, a failed save), which over-approximates
`cleanupExpired`. A crash loses the requests and the pool, and whatever store
is not persistent.

### Continuity

A dialogue's client keeps a transcript and resends it. Messages are model values
with a role; a context hash is the sequence it is computed from (no collisions).
`Sent` is what goes upstream: everything into a new chat, the tail
(`selectIncrementalTailMessages`) into a mapped one; `content[c]` is what chat
`c` then holds. The clients retry, break off, edit and regenerate; two dialogues
may have the same messages. A request may fail without an answer (`Fail`,
`Break`), or its stream may break: `handleStream` never asks its scanner for an
error, so it delivers, caches and maps what it has as if it were the answer
(`CutShort`). A request that fails before its stream begins may have been taken by
the chat all the same, since a reply can be lost and an error event can come late:
then its messages are in the chat, with or without an answer (`LeavesBehind`). An
error that names the chat takes out every mapping of the hash (`WithoutAliases`).
A chat takes any number of requests at once, each of
which appends its messages and its answer in one step; this is how the model
abstracts the upstream service. Model, chat type and tools are fixed in a run:
they only make hashes differ more.

### DataFile

A call of either store is `checking` (Stat), `reading`, `truncating`, `writing`;
calls of one store exclude each other, calls of two stores interleave. The file
is a pair of sets, or is missing, empty (truncated), or garbled: a text written
from offset 0 over a longer one that the other store wrote meanwhile. A crash
may come between any two accesses, a write may fail after the truncation.

### ChatCleanup

A pass of mode 1 (list the tracker, delete chat, delete record) and of mode 2
(accounts, pages of `ListChats`, chats), every call a step, beside requests that
open, reuse and record chats, an owner who opens chats in a browser, the
administrator and crashes. Times are compared with one cutoff only, so a chat or
a record is old or not. The tracker is in memory or in Redis (`redis`); only with
Redis can the deletion of a record fail, which the code does not look at
(`UsageStays`, `DropGuestFails`). Deleting a chat succeeds only if the chat is
there: one that its owner deleted (`DeleteInBrowser`), or that was deleted while an
error was reported, is refused each time, and its record stays. A page is computed from the chats that exist when it is
asked for, which is how deletions shift the pages: a chat's page follows from its
`Rank` among them. The listing order is fixed. The names of the specification
itself are `CleanupInit`, `CleanupNext`, `CleanupSpec`, so that `StorageProofs` can
extend this module and `DataFile`.

### ToolCalls and MessageStream

A text is a sequence of pieces: words, and tags split where a cut makes a
difference to the parser (`"<"`, `"ml_tool_calls"`, `">"`). A call with its name
and its parameters is one piece, because nothing looks into it before it is
closed. `ToolCalls` gives the regular expressions of `toolcall.go` as sets of
positions: what `RemoveMarkup` hides, what `ParseCalls` finds, what starts a
capture, and from it `ProcessStreamChunk` and `FinalizeStream`. Whitespace, the
old spellings of the tags and the sentences of `stripToolPromptLeakage` are
left out.

`MessageStream` sends an answer in deltas of any length, thoughts before it and
an empty delta after it (also when the answer is empty), and lets the stream break
anywhere. `events` is what
the client has been sent; `block` and `nextIndex` are the fields of
`anthropicState`. The handlers are compared with what `readCompletedChat` makes
of the same answer in one piece. `Orderly` is the precondition of that: an
answer has at most one tool block, complete, as the prompt
`openai.toolcall.instructions` (`prompts.go:68`) demands, and, for Anthropic, no
delta that is not part of the answer (see the findings). Complete means that
the name of a wrapper is written in its tag only, that a closing tag has something
to close, that a wrapper in which a tag is closed is closed itself, and that it
begins with a call. The last is needed because
`shouldFallbackMalformedCapture` gives a wrapper up that begins with prose: the
calls behind that prose are then read as bare ones if the answer comes in pieces,
and as wrapped ones if it comes whole. Answers of that kind are in the run, and only
the properties without `Orderly` speak of them.

### StreamInspection and UpstreamClient

`StreamInspection` is `InspectUpstreamStream`: the body is read line by line and
kept back until an event decides. An event is told by what the code finds in it
(nothing to show, the opening of a tool call, text, an error, a word of the human
verification), and a body ends whole, in an event that is never closed, or with
a read error.

In `UpstreamClient`, `guestAuth`, `guestMu` and `models` are the fields of
`Client`; `pc[c]` is where a caller is:

    idle -> lookup -> cookie -> lock -> fetch -> send -> store -> done -> idle
                        ^                         |
                        +------- refresh ---------+

`phase` is `doOnce` for the first time, `cloneRequestWithRefreshedGuestCookie`, and
`doOnce` for the second. The clone builds the request anew, so it asks for cookies
twice: by force, and then as the first request did. Which cookies are kept is told
by `after`: the callers whose failure came before they were fetched. That is all
the code could be wrong about: cookies have no other content here. A fetch cannot
fail, since made-up cookies take the place of those it does not get.

A list of models is the number of the service's list; 0 is an empty one, which
is stored and never served.

### MediaRequest

`generateAssetWithSession` is followed call by call: account, chat, message
(twice after a retryable error), the chat's detail five times for a link, five
times for task ids, and `pollVideo`. `made` counts what real accounts paid for
in the name of a request, also when the call that asked for it failed: an answer
with an error may have been acted upon, since an internal error counts as
retryable, and the error is taken from any event of a body. `resent` remembers that
a real account's message was sent again. `made` stops at 3, one more than there
can be. A guest's
failure starts the function again with the account the pool then has. Task ids
are the task's or somebody else's; `late` is `pollVideo`'s deadline. Uploads share
the module because they share the pool: they tell it what became of their account,
and media requests do not.

### Settings

`file`, `env`, `runtime` and `keys` are `.env`, the environment, `config.Runtime`
and the keyring. A handler is `snapshot`, `read`, `truncate`, `write`, `set`; a reload
is `ReloadDotEnv`, `LoadConfig`, `ApplySnapshot`; none of it is under a lock. The
settings are three: a scalar that must not be zero, the control prompt, which has
two lines in `.env`, and another prompt, which may be too long for `ParseDotEnv`'s
scanner. All other lines of `.env` are one, `API_KEY`, because the program does not
own it and does not start without it, unless it is in the outer environment.
`outer` names the variables that were set before the process looked at `.env`. A
prompt handler replaces all overrides by the copy it took before its save, an older
one than the snapshot.

An administrator may change, put in or take out any line with an editor, at any
moment, in the middle of a save too. What loads a file only sets the variables
whose lines are there (`Taken`): after its line was taken out, a variable keeps what
it had until the process ends. `API_KEY` is a list and may name a key twice.

`synced` and `hurt` are history. `synced`: the last to touch the file and the runtime
was a save or a reload that met no other request and no edit. `hurt`: a save
overlapped another one, was cut off in its write by a failure or a crash, or
somebody took `API_KEY` out of the file by hand.


## 3. What is checked

Passing runs (TLC, complete state space):

| run | bounds | properties |
|---|---|---|
| `pool_directory` | 2 addresses, each up to twice in `ACCOUNTS`, 2 adders, no request, all three stores, 1 crash | `TypeOK`, `GuestFallback`, `StoreAgrees`, `StaysDistinct` |
| `pool_rotation` | 2 addresses, one in two spellings, 1 request, cool-down after 2 failures | `HandsOutRested`, `LeastRecentServes`, `ImplementsRotation` |
| `execution_failover` | 2 accounts and the guest, 1 request, 1 hash, 1 chat | `TypeOK`, `TriesEveryone`, `RequestsEnd` |
| `execution_mapping` | 1 account and the guest, 2 requests, 2 hashes, 2 chats | `OwnChat`, `TailNeedsHistory`, `RealSavesAnswer` |
| `stream_cuts` | every answer of at most 3 parts and 9 pieces, and 2 with prose in a wrapper, each cut and broken off everywhere, both APIs, with and without tools | `TypeOK`, `AgreesWithWhole`, `NothingTakenBack`, `NothingInvented`, `BlocksNest`, `IndexNamesOneCall` |
| `continuity_linear` | 2 dialogues, 2 words (one a tool result), an answer whole or cut short, 2 chats, transcripts of 4 messages, chats of 5 | `TypeOK`, `LinearChatsAgree`, `MappingIsHistory` |
| `file_sequential` | 2 accounts, 2 sessions, 2 faults | `TypeOK`, `SequentialCallsKeep` |
| `cleanup_records` | 2 chats of an account, 1 of the guest, pages of 1, modes 1 and 2, trackers in memory and in Redis | `CleanupTypeOK`, `ForgetsOnlyGone` |
| `cleanup_pages` | 2 chats of one account, pages of 1, modes 1 and 2, tracker in memory | `EventuallyCleaned`, `EventuallyDeleted` |
| `upstream_calls` | 2 callers, one also of chats, answers of at most 4 events, 2 changes of the list of models | `NoStampede`, `RetryIsFresh`, `RefreshIsCurrent`, `FirstEventDecides`, `CallsEnd` |
| `media_requests` | 2 accounts and the guest, an image or a video request beside an upload of 2 files, 5 looks | `PaysTwiceOnlyIfResent`, `GivesUpOnlyLate`, `RequestsReturn` |
| `settings_saved` | 2 administrators, 4 requests, edits, reloads and stops together, 4 outer environments (one names `API_KEY`), 3 keys, one of them twice in `API_KEY` | `FileFollowsRuntime`, `RestartKeepsSettings`, `KeepsApiKey`, `DeletedKeyIsOut` |

What they show:

* **The pool never loses its fallback** (`GuestFallback`): initialized, it is not
  empty, and holds the guest exactly when it has no real account, through racing
  adders, rolled-back saves and the start-up goroutine. **No mailbox is listed
  twice** by any call (`StaysDistinct`), because `AddAccountWithToken` looks
  again. **The store holds each of the pool's accounts once and nothing
  else** (`StoreAgrees`) as long as no write failed, no call overlapped `Initialize`
  and the process did not load an account twice; the code loses changes in the
  first two cases, and in the third a deletion takes one entry from the pool and
  both from the store. The history variable `clean` excuses them.
* **Rotation**: a request gets an account of the pool, one in cool-down only if
  all are (`HandsOutRested`), and the least recently used one, provided all have
  been used (`LeastRecentServes`; an unused account is passed over by the scan
  unless it is last). The pool **implements** `Rotation`.
* **A request ends** (`RequestsEnd`), and in an initialized pool it gives up only
  when no rested account is left untried (`TriesEveryone`), although the pool
  changes under the loop.
* **A mapping or a tracker record never names somebody else's chat**
  (`OwnChat`), tails are never sent into an empty chat (`TailNeedsHistory`), and
  what is mapped for a real account is the chat that answered
  (`RealSavesAnswer`).
* **Cuts do not matter**: however the answer was cut, the client has the text
  and the calls of the whole (`AgreesWithWhole`), and what it saw on the way was
  the beginning of that text (`NothingTakenBack`). Both need `Orderly`: of a second
  tool block in the same delta the parser loses or repeats parts, and of a call
  in a wrapper that is never closed it makes nothing where `ParseCalls` finds a
  call. For any answer at all, nothing is written twice, out of order or before it
  was received, thoughts and empty deltas included (`NothingInvented`), and Anthropic's blocks are numbered, opened and closed in
  order with exactly one end (`BlocksNest`). OpenAI's indexes name one call each
  (`IndexNamesOneCall`) for orderly answers only: they begin anew in every delta.
* **A chat that was never sent one hash twice, that kept nothing of a failed
  request, and whose answers were delivered whole, holds the client's transcript**
  (`LinearChatsAgree`), and a mapping leads to a chat that begins with the mapped
  messages (`MappingIsHistory`). The excuse names all there is: retries, edits and
  twin dialogues send one hash twice, a lost reply leaves a question behind, broken
  streams cut answers short, and nothing else makes a chat and a transcript differ.
* **File calls that do not overlap lose nothing** (`SequentialCallsKeep`).
* **The cleaner forgets a real account's chat only when it is gone**
  (`ForgetsOnlyGone`), through crashes, ignored errors and both kinds of tracker. A
  chat that stays old, listed (`EventuallyCleaned`) or recorded
  (`EventuallyDeleted`), does go in the end, although a pass skips chats. That the
  record of a chat goes too is not promised by the code, and not by a property.
* **Guests do not stampede** (`NoStampede`): of callers who find no cookies together
  one fetches, and while there are good cookies only a caller whose own first attempt
  failed does. Such a caller fetches even when another one has meanwhile brought
  new cookies; the property allows it because the code does it. **A retry never carries the cookies
  that failed it** (`RetryIsFresh`), whoever fetched them, and nobody waits for ever
  (`CallsEnd`). Who asks for a new list of models gets one (`RefreshIsCurrent`).
* **The first event that counts decides** (`FirstEventDecides`): the reading of a
  body line by line agrees with a definition over the body as a whole.
* **A real account pays for one asset per request, and for a second one only where a
  retryable error made the code send the message again** (`PaysTwiceOnlyIfResent`):
  no other failure, no look at the chat and no task id makes it pay twice, and there
  is no third time. A video is given up when the time is over or all its tasks failed
  (`GivesUpOnlyLate`), and every request and upload ends (`RequestsReturn`).
* **A save or a reload brings all settings together** (`FileFollowsRuntime`), whatever
  edits, failures and crashes came before, if it met no other request and no edit: what
  the lines of `.env` say is in force. The next start finds it
  (`RestartKeepsSettings`), if `.env` can be read, those settings excepted which the
  outer environment names. A line that was taken out says nothing. `API_KEY` is lost
  only by overlapping, failing or interrupted writes, or by hand (`KeepsApiKey`). A
  deleted key is out (`DeletedKeyIsOut`), unless `API_KEY` names it twice.

Some properties one would like to have do not hold, and the models show it. The
properties above excuse these cases by name:

| what happens | where |
|---|---|
| two dialogues with the same system message are answered in one chat | `Continuity`, such chats are `forked` |
| a question whose reply was lost stays in the chat, and is asked again behind itself | `Continuity`, `LeavesBehind` |
| overlapping calls of the two file stores undo each other's saves | `DataFile`, `alone` |
| mode 1 deletes a chat while a request is being answered in it | `ChatCleanup`, between `ListUsages` and `DeleteTracked` |
| records of chats that are gone already stay, and are tried every hour | `ChatCleanup`, `DeleteFails` |
| a delete during the start-up saves an account twice, and a later delete leaves one of the two in the pool | `AccountPool`, `clean` |
| after a failed start-up, accounts that are added are stored and listed but never used | `Rotation`, `ready` |
| a message answered with a retryable error is sent again, and paid for twice | `MediaRequest`, `resent` |
| a line taken out of `.env` stays in force after a reload | `Settings`, `Taken` |
| with `API_KEY` outside and a prompt of more than 64 KB saved, a restart takes back every setting | `Settings`, `EnvAtStart` |
| a key that `API_KEY` names twice survives its deletion | `Settings`, `NamedTwice` |

All of them are in `findings` in `PROJECT.json`, which quotes the texts that say
otherwise and adds what was met on the way:
a guest's mapping that keeps naming the failed chat, Redis keys that do not fold
case, parallel tool results that open a new chat, mode 2 skipping chats, a start
while sign-in is down that deletes accounts with expired tokens from the store,
Anthropic streams that write thoughts and `<nil>` as text, saves of settings that
undo each other or lose `API_KEY`, image edits that send neither prompt nor image,
answers taken for a human verification because of a word in them, and two places where
a conversation with tool calls is hashed differently from one request to the next
(`toolcall.go:696` writes arguments in the order of a Go map, `handler.go:1311`
hashes the calls of a non-streamed answer unconverted). `Continuity` leaves the
last two out: there, a transcript is hashed the same each time.

### Bounds

Two adders, two accounts, two requests, two chats are the fewest with which
every race in the code has its two sides; the code treats accounts, requests,
hashes and chats uniformly, and never compares more than two of them at a time.
Two failures instead of three start a cool-down: the code only compares with the
threshold. Transcripts of four messages and chats of five are two exchanges, the
second of them also with two messages or begun twice. One crash shows what a second process finds;
two faults in `DataFile` are a damaged file and one more. Pages of one chat make
a page shift with every deletion. Two callers are one that fetches cookies and one
that waits, four events of an answer two that decide nothing before two that
might, two lists of models an old one and a new one. Four acts of an administrator
are two that overlap and two more: a bad value by hand, a reload, a save and a
restart. An address that is named twice shows all that a list with repetitions can.
`MaxNamed`, `MaxRestarts`, `MaxFaults`, `MaxLength`, `MaxContent`, `MaxActs`,
`MaxLists`, `MaxEvents`, `Files`, `Looks` and the number of `Chats` are the only
bounds in guards and choices. The answers
of `stream_cuts` are put together from prose, half a tag, the opening tag alone,
a wrapper with one and with two calls and a bare call; two more answers have prose
inside a wrapper, before its calls and between them. The parser keeps no more
than one capture, so three parts are one that leaves a state, one that meets it
and one after it. Symmetry is used over sets
whose members no definition tells apart, and in no run with a temporal property
other than a step's. `continuity_linear` has a view (`MCView`): of a chat that is
excused it keeps only the length, since no property and no guard reads more of such
a chat, and it never ceases to be one.

`StaysDistinct`, `TriesEveryone` and the like are action properties: TLC checks
them on every step. Deadlock is checked in every run but `stream_cuts` and
`media_requests`, where handlers return and nothing is left to do, and
`settings_saved`, where a process without `API_KEY` cannot be started any more.

### Fairness

`ChatExecution`: `WF(Step(r))` for every request: a goroutine runs on, and the
HTTP client's time limits end every call it waits for. The pool, the mappings
and the process owe nothing. `NewChat` takes a chat from a bounded set; when it
is used up the call fails, which the code has to cope with anyhow.

`ChatCleanup`: `WF(Clean)`, the pass goes on and begins anew every hour; `SF` of
`DeleteTracked`, `DeleteListed` and `ListChats(n)`, an upstream call that is made
for ever succeeds some time, if the chat is there and its account has a session.
Nothing is assumed of the deletion of a chat that is gone, nor of the tracker's
own deletions. Both properties ask that the mode and the account
stay and that crashes end (`<>[][~Restart]_cleanupVars`): a process that crashes before
every deletion cleans nothing. They say that every old chat goes or is used
again, not when.

`UpstreamClient`: `WF(Step(c))`, every request has a time limit; `SF` of
`ReadCookies` and `LockCookies`, since Go's `RWMutex` hands itself over in turn,
so that whoever waits for it gets it although others come in between.

`MediaRequest`: `WF(Step(r))` as for chats, and `WF(TwoMinutesPass(r))`: the
deadline of `pollVideo` comes. The task owes nothing, and may run for ever.


## 4. What is proved

TLAPS proves, for every value of the constants that meets the modules'
assumptions (finitely many e-mails, distinct special values, positive limits):

* `AccountPoolProofs`. The inductive invariant is `TypeOK /\ Shape`. `Shape` adds
  to `GuestFallback` that `Initialize` collects real accounts only and that its
  slice is shared in `published` only; without that, an add that writes through
  the slice could not be followed. It says nothing of duplicates, since a store may
  bring some along. From it: `TypeCorrect`, `GuestFallbackHolds`,
  `NeverListedTwice` (growing after the second look, shrinking and rolling back
  all keep the mailboxes of a pool distinct that has no duplicates), `RestedFirst`, and `ImplementsPromise`: initial
  states map to initial states of `Rotation` and every step to a step of
  `Rotation` or a stutter, by a case split over the actions.
  `LeastRecentServesHolds` is about the scan itself, whose order is by last use and
  then by position: among accounts that were all used it has a first, and that is
  the one handed out.
  `StoreAgreesHolds` needs to know what `Initialize` has in hand (`Agreement`):
  what it still has to check and what it keeps are different accounts, each there
  once, what it published is what it saves, and what is saved counts each account of
  the pool once, unless a call came in between or the store named an account twice.
  Accounts are counted throughout, so that duplicates show. It is about
  addresses that are written in one way (`OneSpelling`): the pool folds the case
  of an address, the Redis store deletes by exact spelling, and a store that
  holds one mailbox in two spellings does lose the agreement; that is one of the
  findings, not something the code prevents.
* `ContinuityProofs`. `LinearChatsAgree` is not inductive. What a mapping, a
  running request and a served one know of a chat has to be carried along
  (`Known`): everything that leads to a chat was either already sent into it as
  a hash, or *is* its content. So a request that finds the chat either sends a
  hash a second time, and the chat is excused, or appends its tail to exactly
  the messages it hashed. That such a tail has one message, unless the chat was
  sent the hash before, follows from the roles: contents end in an answer. A
  broken stream, and a failed request that left its messages, put the chat among the
  excused ones; a failed request that left nothing changes no chat.
  The proof covers transcripts of any length and any number of clients.
* `StorageProofs`, about `DataFile` and `ChatCleanup`. The file's invariant follows one
  call through its accesses (`Alone`): what it holds in `data` is what the calls
  before it left, with its own change, and the file is whole until the truncation.
  `ForgetsOnlyGoneHolds` is about a step that looks at the tracker only, so the
  invariant says that what the cleaner has deleted and has still to remove from the
  tracker stays gone (`Deleted`): no chat is created twice. `CleanupTypeCorrect`
  needs that only chats of this program are in use (`Recorded`), and that the pages
  end: a chat on page `n` has a rank above `n - 1` (`PagesEnd`).
* `ChatExecutionProofs`. `OwnChat` is about two stores only; what keeps it is what
  every request has in hand when it writes to them. `Locals(r)` says for each `pc`
  whose `chat`, `mapping` and `account` are: a mapping in use is a chat of the
  account that is held (`Mapped`), and is the chat in use unless the account is the
  guest, who opens another one after a refresh. Chats never change their owner and
  never lose their exchange (`Growing`), so what one request knows survives the
  steps of all others (`Bystander`), and each action is about one request. From it:
  `OwnChatHolds`, `TailNeedsHistoryHolds`, `RealSavesAnswerHolds`, `TypeCorrect`. Of the
  pool they use what `Rotation` promises. `TriesEveryoneHolds` is about pools that are
  `ready` when the loop gives up, and counts: the accounts tried are at most `limit` and those of the pool together with them too, so an
  account that is rested and was not tried would be one more than the attempts
  that are used up.
* `UpstreamClientProofs`. That a retry is fresh is not inductive: it may be served
  from cookies somebody else fetched. The invariant follows the order of failures
  and fetches through the lock: `Exclusive` (who fetches holds `guestMu`),
  `FetchIsFresh` (who fetches by force failed before), `KeptIsFresh` (what is kept
  was fetched after the failure of everyone in the second phase) and `Needed`.
  Every caller is treated alike, for any set of callers. `NoStampedeHolds` follows
  from `Exclusive` and from what the two looks at the cookies leave: without force
  nobody reaches the fetch while there are good ones, and only the phase
  `refresh` has force.
  `FirstEventDecidesHolds` is about reading: `InspectUpstreamStream` looks at a body
  event by event, keeps back what does not decide, and searches what it kept as a
  whole. By induction over the events, the verdict is open up to the first event that
  counts, is what that event says after it, and stays so to the end. `RefreshIsCurrentHolds` follows the number of the service's list through
  the callers (`ListsInOrder`): the service's list only becomes newer, and a caller
  that asks for a new one has none but the service's.
* `MediaRequestProofs`. The invariant says for each `pc` what may have been paid for
  (`Bill`) and what tasks are left (`Polled`). Any message may have been acted upon,
  whatever its answer; from it `PaysTwiceOnlyIfResentHolds` (before the first message
  a real account paid for nothing, before the second for one asset at most, and who
  sends a second message is `resent`) and `GivesUpOnlyLateHolds` (all candidates
  before the counter are the failed task).
* `SettingsProofs`. `KeepsApiKeyHolds`: as long as nothing is `hurt`, at most one save
  is under way, and it holds the key while the file does not; for any
  number of administrators, values and acts. `FileFollowsRuntimeHolds` and
  `RestartKeepsSettingsHolds` come from a second invariant, `Following`: for each
  point of a save or a reload that met nobody, what it has read and what it is going
  to write (`Keeps`), and that the lines and the settings agree in every setting of
  which the lines say something (`Together`). A reload does not make the environment
  equal to the file, it only takes in the lines that are there (`TookIn`), and that
  is enough for what `Says` asks. The lemmas say that a text rewritten by
  `SaveDotEnvValues` loads what was saved, whatever it held before.
  `DeletedKeyIsOutHolds` needs that the ring never names a key twice that `API_KEY`
  does not (`Ring`); of such a key `RemoveFirst` takes out the only entry.
* `MessageStreamProofs`, for any set of answers, any cut and any break.
  `TypeOKHolds` follows the parser: it captures only from a marker on, and otherwise
  holds back one piece at most. `BlocksNestHolds` says of the Anthropic writer what
  it has written (`Nested`: starts less stops are 1 or 0, as its `block` says) and
  which index it will use; each of its operations keeps that, for any number of
  calls in one chunk. `IndexNamesOneCallHolds` is not inductive, since a chunk numbers
  its calls from the start whatever was written before. The invariant (`Numbered`)
  says where in the answer the parser is: what it holds is the rest of what was
  sent, from a place `q` on, and either all calls lie before `q`, or all closing tags
  do, or no call was written and every wrapper lies behind `q`. A capture that is
  complete is the only tool block, so all calls are past it (`CaptureSpends`); one
  that is given up began a wrapper in which nothing is closed (`FallbackIsBarren`).

  `AgreesWithWholeHolds` and `NothingTakenBackHolds` rest on `Telling`: of an orderly
  answer the client has heard exactly the text and the calls up to a place `q`, the
  parser holds the rest of what was sent, and `q` splits no markup (`Clear`). The
  argument has three parts. About a text: what `RemoveMarkup` hides and what
  `ParseCalls` finds are sets of positions, and those of a part are those of the
  whole, moved, as long as no cut goes through markup (`KeptOfPart` and what follows
  it); an orderly text is `Tidy`, and a tidy one hides a wrapper, a call by itself, a
  tag that nothing follows, or nothing (`TidyShapes`). About the parser: from a clear place every
  outcome of `Scanned`, `Captured` and `FinalizeStream` goes on to a clear place and
  shows what is between (`Shown`). About the writers: `Said` is a fold over all
  events, and one more event adds its saying at the end (`Adds`, `HeardMore`,
  `HeardBoth`), so that what either handler writes for a chunk adds the chunk's text
  and calls.

  `NothingInventedHolds` asks nothing of the answer. Its invariant (`Faithful`) says
  that what was said, followed by what the parser holds, is within what was received,
  that is, embedded by an increasing map of positions (`Within`). Each branch of
  the parser only takes away (`Keeps`). That the property's left-to-right matching
  finds every embedding is the lemma that ties `Within` to `IsSubsequence`.

The lemmas about sequences (`IsPrefix`, `RemoveAt`, `RemoveFirst`, `Cut`, `AtIs`) are
proved in the modules that use them; facts about finite sets and lengths come from
the TLAPS library (`FiniteSetTheorems`, `SequenceTheorems`). Where a proof goes by
induction (the loop over calls in `WithCalls`, the first event that decides) or
needs a first position (`RemoveFirst`), it takes the smallest number with a
property: that a set of numbers has one follows from two
first-order theorems of `WellFoundedInduction`.

Every safety property of the runs is a theorem. Only model-checked is liveness, which
is beyond this prover, as is `ENABLED`: `RequestsEnd`, `EventuallyCleaned`,
`EventuallyDeleted`, `CallsEnd`, `RequestsReturn`.


## 5. What is not modelled, and the plan

Left out for good: prompt texts, message normalisation and argument
normalisation (data transformations without state), HTML and JSON layout,
logging, the frontend, fingerprint generation, Redis key scanning, the words by
which errors, links and task ids are found in a payload, and the timers
themselves (a timer is an action that may happen).

Done so far: the pool with its promise, chat execution, continuity, the shared
file, the cleaner, the streams of text answers with their tool calls, the upstream
client with the guest's cookies, images, videos and uploads, and the settings with
the keyring. Planned, most important first:

1. The batch tasks of the admin handler (`admin/handler.go:743-996`): waves of
   sign-ins over a list that was compared with the pool before they began.
2. The steps of one upload (`qwen/client.go`): a token, the storage, and polling until
   the file is parsed.
3. `Metrics`: the ring of minutes. Nothing but the dashboard reads it.
