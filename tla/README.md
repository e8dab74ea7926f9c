# orca-lit: models, checks and proofs

orca-lit is a small Discord library in C: a bot connects to Discord's gateway
over WebSockets, receives events, runs the user's callbacks in its event loop or
on worker threads, and sends requests to the REST API under Discord's rate
limits. This directory models the parts in which order, time, retries and
threads decide what happens, checks them with TLC, and proves what holds of them
for every size with TLAPS.

`PROJECT.json` lists the components, the runs, the mutants (changes of the
model, each as a bug in the code would make it, that a property must notice),
the lines of code behind every definition, the findings, the hazards and the
theorems. Line numbers below are of the files under `src/`.

## 1. The system

| component | files | state | operations | talks to |
|---|---|---|---|---|
| worker threads | `threadpool.c` | ring buffer, `shutdown`, `started`, one mutex and one condition variable | `threadpool_create`, `_add`, `_destroy`, worker loop | called by `work.c`; tasks call `threadpool_add` |
| runtime | `work.c`, `common.c` | once-only flags, the pool | `orca_global_init`, `work_run`, `work_global_cleanup` | creates and destroys the pool |
| connection | `websockets.c` | `status`, `action`, handle, lock | `ws_start`, `ws_end`, `ws_close`, `ws_easy_run`, callbacks | libcurl, curl-websocket below; gateway above |
| framing | `curl-websocket.c` | receive state, send buffer, `closed` | frame parser, `cws_send`, `cws_close` | libcurl, callbacks to websockets |
| gateway session | `discord-gateway.c` | `session` (status, retry, id), `timer` (heartbeat, acknowledgements) | start, perform, end, shutdown, reconnect, one handler per opcode | connection, worker threads, user's callbacks |
| main loop | `discord-adapter.c` `discord_run` | none | the loop over gateway and adapter | both |
| asynchronous requests | `discord-adapter.c` | contexts, waiting, busy and idle queues, heap of timers | enqueue, perform, stop all | buckets, user agent, user's callbacks |
| rate-limit buckets | `discord-adapter-ratelimit.c` | buckets, routes, global timeout | get, build, null filter | header fields of answers |
| blocking requests | `discord-adapter.c` `_discord_adapter_run_sync` | bucket lock | one call with retries and sleeps | buckets, user agent |
| user agent | `user-agent.c` | idle and busy handles; of a handle its URL, options, header fields, buffers | start, set up, perform, extract the answer, stop | libcurl |
| JSON trees | `json-parser.c` | items, the place of a walk in them | parse, append, walk, write, clone, look up | users |
| JSON tokens and formats | `jsmn.h`, `json-actor.c`, `json-scanf.c`, `json-string.c` | tokens while a call lasts | tokenize, inject, query, extract, scan, escape | all handlers and requests |
| lists | `ntl.c` | blocks of memory | grow, copy, write, read, free | JSON, users |
| queue, heap and hash table | `queue.h`, `heap-inl.h`, `uthash.h` | links, buckets | insert, remove, move, sort, find | adapter, user agent |
| logging, digests, utilities | `cee-utils.c`, `logconf.c`, `log.c`, `sha1.c`, `hmac.c` | log files | pure or I/O | everyone |

One thread runs `discord_run`. The pool's threads run user callbacks when the
user's scheduler says so, and they call back into the gateway
(`discord_gateway_shutdown`, `_reconnect`). `ws->lock` guards the connection;
the session has no lock (discord-gateway.c:909, "TODO: MT-Unsafe section").

What is hard, and what each component has to get right:

* Worker threads: lost wake-ups, a ring that wraps, a counter written outside
  the mutex, freeing memory a worker still uses, draining while tasks submit
  tasks. Right means: tasks run once, in order, all of them on a graceful
  shutdown, and the pool is freed once and after its last user.
* Connection and gateway: closes asked for by the server, the user, the
  heartbeat and the network at once, from two threads; a server that falls
  silent; a limit on retries; handlers that run after a shutdown was asked for.
  Right means: a connection goes through its cycle, a close ends, reconnects are
  bounded, a dead server is left, a fatal code ends the run.
* Asynchronous requests and buckets: a context moves between queues of
  different buckets, a heap and a pool for reuse; answers arrive in any order;
  retries wait for timers. Right means: no context is lost or linked twice, no
  bucket is frozen for good, attempts are bounded, callbacks are made once,
  every request ends.
* Blocking requests and the user agent: threads share handles that remember what
  they were used for, and a lock is held over retries and sleeps. Right means:
  each request sends what it was asked for, gets its own answer, keeps to the
  window its bucket knows, and returns.
* Framing: frames and chunks do not end at the same places, control frames come
  between the fragments of a message, and both sides may close at once. Right
  means: messages arrive whole, in order and at once, everything illegal closes
  the connection, and what is sent is what was written.
* Structures of pointers: stale links, a heap whose last node comes from another
  subtree, buckets that double while an item is added. Right means: they
  implement lists, a set of timers and a table.
* JSON and lists: everything is done twice, first to count and then to write;
  arguments have no names; a walk keeps its place in the tree. Right means: both
  passes agree, what comes back is what went in, what is missing or null is told
  from what is there, and only a document that does not suit stops the program.

## 2. Modules

| module | models | instance of it |
|---|---|---|
| `ThreadPool` | `threadpool.c`, statement by statement where threads interleave | `MCThreadPool` |
| `TaskPool` | abstract: a bounded queue that closes; `ThreadPool` implements it | |
| `ThreadPoolProofs` | theorems about `ThreadPool`: types, order, how it begins and ends, and that it implements `TaskPool` | |
| `WebSockets` | `websockets.c` and what it sees of `curl-websocket.c` and libcurl | checked inside `Gateway` |
| `Gateway` | `discord-gateway.c`, `discord_run`, workers and the server; extends `WebSockets` | `MCGateway` |
| `GatewayProofs` | theorems about `WebSockets` and `Gateway`, and that `Gateway` implements `Session` | |
| `Session` | abstract: what `discord_run` promises; `Gateway` implements it | |
| `Requests` | the asynchronous half of `discord-adapter.c` and `discord-adapter-ratelimit.c` | `MCRequests` |
| `RequestsProofs` | theorems about `Requests`, for every number of routes and requests | |
| `UserAgent` | the handles of `user-agent.c`, shared by threads | inside `SyncRequests` |
| `SyncRequests` | `_discord_adapter_run_sync` in several threads, with buckets and locks; extends `UserAgent` | `MCSyncRequests` |
| `SyncRequestsProofs` | theorems about `SyncRequests` and `UserAgent` | |
| `QueueLemmas` | what the queues' operators do to the elements of a sequence, and parts of sequences; the proof modules of the adapter, of the queue, of the connection and of the frames rest on it | |
| `CwsFrames` | `curl-websocket.c`: frames over chunks, both directions | `MCConnections` |
| `CwsProofs` | that frames arrive as they were sent, in both directions, however they are cut | |
| `Connection` | `user-agent.c`: one handle over a series of requests and answers | `MCConnections` |
| `ConnectionProofs` | that requests which use one handle after another are apart | |
| `Queue`, `Heap`, `HashTable` | `queue.h`, `heap-inl.h`, `uthash.h`, link by link | `MCStructures` |
| `QueueProofs` | that `Queue` implements `Lists` | |
| `Lists`, `Timers` | abstract: lists of elements, a set of timers; `Queue` and `Heap` implement them, `Requests` relies on them | |
| `JsonText` | documents, texts as series of marks, and how they correspond | |
| `JsonTree` | `json-parser.c` | `MCJson` |
| `Jsmn` | `jsmn.h`, both passes | `MCJson`, also inside `JsonActor` |
| `JsonActor` | `json-actor.c`: formats, injection, queries, extraction; extends `Jsmn` | `MCJson` |
| `JsonScanf` | `json-scanf.c` | `MCJson` |
| `JsonString` | `json-string.c`, byte by byte | `MCJson` |
| `Ntl` | `ntl.c`, with the blocks it allocates | `MCJson` |

### ThreadPool

`pc[t]` is the statement a thread is at, `lock` the holder of the mutex; head,
tail, count, queue, shutdown, started and thread_count are the fields of
`struct threadpool_t`. A critical section is entered by `Acquire` and ends in
the action that releases it; what the code does outside one has actions of its
own: `started++` in the creator is a read (`CountRead`) and a write
(`CountWrite`), a worker's last unlock (`ExitUnlock`) is a step after
`ExitCount`. `pthread_cond_wait` may wake spuriously. `pthread_create` may fail
for any thread, which runs `threadpool_destroy` from inside
`threadpool_create`. Ghost variables record the tasks that were accepted, taken,
finished and refused. The callers' contract (no call on a pool that is being
freed) is in the module's head: `work.c` keeps it.

### WebSockets and Gateway

`status`, `action`, `handle` are `ws->status`, `ws->action` and `ws->ehandle`;
`running` says that libcurl runs the transfer, `accepted` that the upgrade was
answered, `closed` is curl-websocket's flag that a CLOSE frame was written,
after which it dispatches no data. Actions are atomic because `ws->lock` is
held; the two writes of `action` without it (in `ws_start`, and in
`cws_on_close_cb`) are actions of their own: `WsReset` and the first half of a
close.

`main` is the place of the main thread in `discord_run`: start (REST call for
the gateway's URL), reset and connect (`ws_start`), loop (`ws_easy_run`),
perform, after, adapter, end. `session` and `timer` are the fields of
`struct discord_gateway` that decide anything. `CloseReceived` and `CloseDone`
are the two halves of `on_close_cb`, between which a worker may write; other
handlers of the main thread write each session field once and are one action. A
callback on a worker thread is three steps: `WorkerTakes` (with the store to
`retry.enable`), `WorkerStatus`, `WorkerCloses`.

Time: `now`, `hbeat_tstamp` and `identify_tstamp` occur only in differences, so
the model keeps ages, in ticks of 5 ms, no further than the largest limit they
are compared with. `Start` always lets a tick pass: it waits for a REST answer
and TLS.

The server answers IDENTIFY and RESUME, sends one HELLO per connection,
acknowledges no more heartbeats than it got, RESUMED only where there is a
session id, and else does what it likes, silence and dropped connections
included. `max_concurrency` is 1.

`discord_shutdown` and `discord_reconnect` are declared in `discord.h` and not
defined in this repository; the functions a callback reaches are
`discord_gateway_shutdown` and `_reconnect` in `discord-internal.h`, which
`echo_bot.c` includes.

### Requests

`cxt[c]` is a `struct discord_context`, `bucket[b]` a `struct discord_bucket`
(1 is `b_null`, 2 `b_miss`, the others are made by answers), `timeouts` the heap,
`idleq` the idle queue, `wait` the global timeout. `discord_adapter_perform` is
`Perform`, `CheckTimeouts` for each timer that is due, `TimeoutsChecked`,
`CheckPending` (all buckets; each touches only its own contexts, so their order
does not matter), then for each transfer that has ended `Read` and
`CheckAction`, and `Performed`. The user's callback runs between the last two,
and may enqueue. `StopAll` is `discord_adapter_stop_all` at the end of
`discord_run`, after which the client may run again and reuse the contexts.

Queues are sequences (what `queue.h` promises) and the heap is a set of which
the minimum is taken. `Only` is the part of a queue that `null_filter` or a
`QUEUE_REMOVE` leaves, a recursive function, so that the module can be proved about. Timestamps are distances from now, down to one tick past:
the code compares them with now or with each other only. They change between
two calls of `discord_adapter_perform`, as the event loop's timestamp does.
`conns` counts the handles of the user agent that are marked as running.
`log` is history: what was sent, called back, and how each request ended.

An answer is any combination of a kind (ok, refused, server error, 429, global
429, libcurl's read error, another error of libcurl) with the header fields the
code reads. Nothing is assumed of a server that counts. `x-ratelimit-reset` with
`date` is treated like `x-ratelimit-reset-after`: both end in a timestamp.

The entry point: `discord_adapter_run` enqueues when `async_enable` is set, and
`discord_adapter_async_next`, which sets it, is declared (discord-internal.h:187)
but not defined here; the code behind it is complete and is what is modelled.

### UserAgent and SyncRequests

`th[t]` is what `_discord_adapter_run_sync` has on its stack in thread `t`: its
place, bucket, handle, attempt, what it saw of the window. `lock[b]` is the
bucket's `pthread_mutex_t`, held from `Lock` to `Unlock` over sleeps and retries;
`routes` and the buckets are shared and guarded by `global->lock`, which the code
takes twice (to look and to add): `Match` and `Create` are two actions. `idle`,
`busy` and `conn` are the queues of `struct user_agent` and its handles. `lag` is
how late the event loop's timestamp is. Where a thread holds no lock any other
may step in. A local variable that is not read any more is reset, so that TLC does
not tell states apart that behave alike.

`promise` and `raced` are history. The first answers of a route are written to a
bucket whose lock is not taken; where two threads write to one bucket, an answer
that comes late may shorten a window that was already announced
(discord-adapter-ratelimit.c:265), and `raced` says for which buckets. For all
others `promise` is what the last answer that left nothing said of the end of the
window. What `WindowRespected` claims is therefore about the last such answer, not
about the longest: with windows of one length only the two are the same, and the
instance has two lengths because the proof does not go through for the longest.

### CwsFrames

`wire` is what the server has sent and libcurl has not delivered, `chunk` the
bytes of one call of `_cws_receive_data`, `head` and `needed` the header of a
frame as far as it has come, `current` and `fragments` the two buffers that
`_cws_process_frame` exchanges. `out` is the send buffer, `taken` what libcurl has
taken from it, `paused` the state of the transfer. `expected` is history: what the
frames of the server mean, by RFC 6455. A byte is a symbol (a length, an opcode, a
byte of a payload with the byte of the key that masks it); the server chooses
frames, legal or not, and libcurl chooses where chunks end. `Octets` are what
payloads consist of; the module names only those of the close codes that the
library writes itself. `FrameAt` belongs to the properties: what a server reads of
a frame.

### Connection

One handle of `user-agent.c` through a series of requests: `option` is what libcurl
was told and keeps, `fields` the `curl_slist` of the header with the memory of each
node, `url` and `rcvd` buffers with their allocated size, `info` what the caller
gets. An answer is a series of lines and chunks which may break off. `Texts` are the
pieces that texts consist of; the empty one as the field of a line means that the
line has no colon.

### Queue, Heap, HashTable

Each macro or function writes the links in the order of the code, so that an
intermediate link that is read again is read as written. `Queue` offers the series
of macros that the adapter uses. `AbstractLists` and `AbstractTimers` are the
refinement mappings. `HashTable` has `InitialLog`, `Thresh` and `MaxLog` for the
library's 5, 10 and "as many as memory has".

### JSON, strings, lists

A document is a value (`JsonText`), its text a sequence of marks. `JsonTree` keeps
`items`, the records of `struct json_item_s`, and the walk's place in them
(`last_accessed_branch`); calls are single actions, a walk is one action per
`json_iter_next`. `Jsmn` is one action per character class of `jsmn_parse`, in both
passes. `JsonActor` goes from a format's text to its tree, takes the arguments from
the call, writes, tokenizes what it wrote, and extracts. A format and a call are
chosen by the instance; what was given and what is switched on are free. The
numbers of bytes are numbers of marks, except in `JsonString`, where every byte is
there. `Ntl` has blocks of elements with a null terminator, and forgets none.

## 3. Runs

Runs that pass:

| run | asks | instance |
|---|---|---|
| `pool_safety` | FIFO through a wrapping ring, no lost wake-up, exact `started`, drained and freed | 3 workers, ring of 2, 2 callers of whom both may destroy, 4 tasks, every thread creation may fail |
| `pool_live` | no use after free, accepted tasks run, destroy returns, implements `TaskPool` | 2 workers, ring of 2, 3 tasks, one caller destroys |
| `gateway_safety` | the assertions on handle and status, ready means online, bounded reconnects, cycle of `status`, a requested close ends, implements `Session` | callbacks in the main thread and one worker, all closes, `discord_run` again |
| `gateway_live` | a dead server is left, a fatal code ends the run | callbacks in the main thread |
| `requests_safety` | one place per context, a timer per frozen bucket, bounded attempts, order of first sends, whole batches, what is over stays over | 3 requests on 2 routes, limits, one stop |
| `requests_live` | every request ends | 2 requests, local and global limits, read errors, failures |
| `blocking_safety` | handles and answers are one's own, a route has one bucket, the window is kept | 2 threads, 3 calls, 2 content types, limits and failing transfers, a late timestamp |
| `blocking_live` | every call returns | 2 threads, 2 calls, global limits, failing transfers |
| `connections_safety` | what is sent arrives, what is written is read, requests on one handle are apart | up to 3 frames of 15 kinds, in chunks of 3 and 20 bytes, one message of the user and every control frame in return; up to 3 requests with every method, longer and shorter URLs, fields and bodies, answers that break off |
| `structures_safety` | `Queue` implements `Lists`, `Heap` implements `Timers`, the table keeps its items | 2 lists and 3 elements; 6 nodes and 3 times; 5 items, 2 of one key, chains that overflow twice |
| `json_safety` | trees, tokens, injection, extraction, scanning, strings and lists | the documents, formats and strings of `MCJson`; all series of up to 4 marks; strings of up to 3 characters; 3 blocks |

A property that is a conjunction names its parts, each with a comment and, where
`PROJECT.json` says so, with a mutant of its own.

`pool_safety` does not check for deadlock: a second `threadpool_destroy` may
leave the mutex locked, and everything stops (see below). `pool_live`,
with one destroyer, does. `NoUseAfterFree` is asked where one thread destroys:
two that do so at once break the callers' contract. The sequential instances,
and the blocking requests after their last call, simply stop.

`FatalCloseEnds` and `DeadServerIsLeft` are asked without workers: a callback on
a worker that reconnects in the very moment of a close overrules its code.

A run that finds what a comment denies (a finding in `PROJECT.json`, with the
quote): in `gateway_shutdown` a RECONNECT read in the turn of a callback's shutdown
undoes it.

Other disagreements have a configuration in which TLC refutes them, and are not
among the listed runs (one with two properties needs `-continue`):

| configuration | property | what happens |
|---|---|---|
| `MCThreadPool_again.cfg` | `EveryTaskRuns` | a second `threadpool_destroy` returns with the mutex held; pending tasks never run (threadpool.h:91-93, threadpool.c:213) |
| `MCGateway_worker.cfg` | `FlagMeansClosing` | a shutdown between two connections is forgotten by `ws_start`, its flag is not: the next connection stays open and silent (discord-internal.h:387, websockets.c:779) |
| `MCGateway_reconnect.cfg` | `FreshSessionStays` | a heartbeat the last connection left without acknowledgement closes the next one |
| `MCGateway_reconnect.cfg` | `IdentifyRate` | the window of the identify limit is 5 ms, not 5 s |
| `MCGateway_worker.cfg` | `EventsAreQueued` | more events than the pool's queue holds abort the program |
| `MCRequests_global.cfg` | `GlobalLocksAll` | the global limit holds back only buckets that know their window ("lock all buckets", discord-adapter-ratelimit.c:279) |
| `MCRequests_frozen.cfg` | `TimedOutIsSkipped` | the first of two timers thaws a bucket for both (discord-adapter.c:633 and 687) |
| `MCRequests_global.cfg` | `OneBucketPerHash` | two routes of one hash get two buckets |
| `MCRequests_retry.cfg` | `HandlesReturned` | a retried request leaves its first handle running |
| `MCRequests_retry.cfg` | `FailIsFinal` | `fail` is called for attempts that are retried |
| `MCSyncRequests_once.cfg` | `OneAtATime` | requests of a route run at once: the first holds the lock of `b_null`, the next one that of the bucket it made (discord-internal.h:226) |
| `MCConnections_redirect.cfg` | `RedirectsFollowed` | libcurl is told to follow redirects (websockets.c:463), but the header lines of the redirect reach curl-websocket.c first, which takes them for a refused upgrade |
| `MCJson_disagree.cfg` | `ClonesAreParsed` | "a perfect clone" (json-parser.c:873): strings with quotes are written without escapes and do not parse; the number 0 stops the program |
| `MCJson_disagree.cfg` | `NoTokenBeyond` | json_scanf compares the token after the last one when a key is missing from the last object |

Smaller ones, which the modules follow without a property against them:

* `discord_gateway_end` returns the opposite of what its header says; a second
  `discord_run` starts with the retries of the first; close code 4009 says "resume"
  and clears the flag; a request in a context that was stopped gives up early.
* json-actor.c: composites inside the arrays of a format stop the parser although
  its grammar (lines 19 and 29) has them; the flag for a nullable function cannot be
  written; an index in an access path counts tokens, which is wrong after
  composites; strings from a format are not unescaped; a size in a format (`4s`) cuts
  the escaped text, and in a query that size and the one of `.*s` cut the encoded
  text, so that a string with a character that is encoded loses its end (1430, 1436,
  1448); a member whose path has several keys is parsed and stops the program when it
  is injected (1612-1618, with a @todo); an unknown "@map" loops for ever; the type
  of an array is not checked.
* json-scanf.c: the same index; `:d:E` is counted once and read twice; a blank at the
  end of a format stops the program; so does a string longer than its size.
* discord-adapter.c: `timer_less_than` is `<=` (435) where heap-inl.h:45 asks for
  "non-zero if a < b", so that equal timers change places on every walk, and of two
  set for the same time either may fire first. The heap stays one, and `Requests`
  takes equal timers in any order.
* json-parser.c: a filtered text has commas for branches that were left out (1267);
  an ancestor can be appended to its descendant; a walk begun inside an abandoned
  one leaves its subtree.
* json-string.c: half a surrogate pair at the end of a string is dropped; invalid
  UTF-8 is refused in strings with escapes and accepted in others.
* ntl.c: `ntl_dup` and `ntl_to_buf` of NULL do not treat it as an empty list
  (ntl.h); `ntl_realloc` to fewer elements copies over the terminator; the partition
  of an empty array is not freed; `ntl_to_abuf` leaves no room for a NUL.
* user-agent.c: an answer with more header lines than `UA_MAX_HEADER_PAIRS` stops the
  program after the last was written.

### Bounds, and why they are enough

* `ThreadPool`: a ring of 2 wraps with 3 tasks; with 3 workers one can sleep,
  one run and one be between signal and lock, the situation a lost wake-up
  needs. `MaxThreads` and `MaxQueue` are the code's. All its safety
  properties are proved for every size.
* `Gateway`: RetryLimit 2 or 3 instead of 5 lets a limit be missed by one;
  Interval 0 or 1 tick and FiveSeconds 1 tick are the least that separate
  "over" from "not yet". `MaxAcks` bounds acknowledgements ahead of heartbeats.
  One worker suffices for each write of a callback between any two steps of the
  main thread; the queue of 1 or 2 events can fill.
* `Requests`: two requests meet in `b_null` and in a bucket; the third is what a
  batch of two needs. RetryLimit 1 instead of 3 keeps first attempt, last retry
  and exhaustion. Waits of 1 tick (2 where two timers must differ).
* `SyncRequests`: the second thread meets the first at every lock; the third call
  is one on a handle and a bucket that two others have used. One retry. Windows of
  one and two ticks: a later one may end sooner. Threads and content types are
  model values that nothing tells apart, hence the symmetry. `RequestIsOwn` and
  `LimitsKept` are proved for every size.
* `CwsFrames`: a message of two fragments with a control frame between them takes
  three frames; payloads of 0 to 2 bytes, each form of an extended length
  with small limits, and chunks of 3 bytes put the ends of frames, headers and
  payloads inside a chunk, at its end and after it. `ReceivedAsSent` and
  `WrittenAsAsked` are proved for every size.
* `Connection`: three requests are what a longer, a shorter and again a longer text
  need. `RequestsAreApart` is proved for every size.
* Structures: six nodes are the fewest of which the last one has to rise after a
  removal (its parent must not be on the removed node's path); five items overflow
  two chains.
* JSON: documents have composites of the same and of the other kind in each other,
  empty ones, and every kind of scalar where a format expects another.

### Fairness, and why the code justifies it

* `ThreadPool`: weak fairness of each thread's steps, strong for getting the
  mutex (a pthread mutex lets no thread wait for ever while it is released again
  and again), none for calls: nobody has to submit or destroy.
* `Gateway`: the main thread runs on, a worker finishes a call it has begun,
  time passes whenever the loop turns, libcurl's progress callback ends each
  turn, and a transfer that `cws_close` has given a timeout of 15 s ends. Nothing
  is assumed of the server or the user.
* `Requests`: the loop turns, time passes between turns again and again, and
  libcurl ends each transfer with some result. Nothing is assumed of the results.
* `SyncRequests`: each thread runs on, time passes, libcurl ends each transfer, and
  the lock of a bucket that is released again and again is granted at last
  (strong fairness of `Lock`, as for the pool's mutex). Nobody has to call.

## 4. Proofs

`ThreadPoolProofs`, for every number of threads, ring size, set of callers and
tasks, from `SizesAssumption` (the limits `threadpool_create` checks) and
`NamesAssumption` (names of callers, workers and placeholders are distinct):

* `TypeCorrect`: `Spec => []TypeOK`. `TypeOK` alone is not inductive: that `Take`
  takes a task and not a placeholder needs which slots are filled, and that a
  join index stays in range needs the place of the destroyer. `TypeInv` adds what
  each place in the code implies.
* `FifoCorrect`: `Spec => []FirstInFirstOut`. The history of accepted tasks is the
  history of taken tasks followed by the contents of the ring, and `tail` is
  `head + count` modulo the size. `RingInv` states it index by index, which an
  SMT solver can handle; the lemmas on `%` (range, uniqueness, distinctness within
  a window shorter than the ring) are what both cases, accept and take, rest on.

The second half of `ThreadPoolProofs`. `EndInv` is what `TypeInv` and
`RingInv` need in addition:

* `ControlInv`: the thread that the places in the code say is in the mutex has it
  (`MutexInv`); which workers exist at each place of `threadpool_create`
  (`PlaceInv`); that one destroyer sets `shutdown`, that nobody outside submits
  from then on, that no worker sleeps then, and that a worker which leaves after a
  graceful shutdown leaves an empty ring (`CloseInv`); and that what is joined has
  ended (`JoinInv`).
* `WakeupCorrect` (`NoLostWakeup`): by itself inductive only together with
  `ControlInv`, since a worker that goes to sleep must have seen `count = 0` under
  the same hold of the mutex. A signal may wake nobody only if nobody sleeps.
* `DestroyCorrect` (`DestroyFrees`): `started` is the number of workers that have
  not left, except between `CountRead` and `CountWrite`, where the creator holds a
  stale copy; `StartedInv` says that nobody changes `started` meanwhile, because no
  worker leaves before the pool is closed. It is a cardinality, so each step that
  moves a worker needs the library's facts on adding and removing an element.
* `DrainCorrect` (`GracefulDrains`): a taken task is done or in a worker's hands
  (`TakenInv`); freed means all joined, all joined means none in hand, and an empty
  ring means all accepted are taken.
* `FreeCorrect` (`NoUseAfterFree`) has a hypothesis: one thread at most destroys.
  The code's only callers of `threadpool_destroy` are `work_global_cleanup` and
  `threadpool_create` itself, and `pool_live` has the instance; with two at once
  the second may still be on its way to the mutex.
* `PoolRefines`, `Spec => Abstract!Spec`, is the safety part of
  `ImplementsTaskPool`. Every action is shown to be one of `TaskPool` or to change
  nothing it sees. The steps need the names of attempts to be apart (`NamesInv`),
  for `TaskPool` keeps sets where the code has a ring and a multiset of workers.

`GatewayProofs`, for every retry limit, number of workers, queue size, set of
close codes and use of the callbacks, from `GatewayAssumption`:

* `HandleCorrect` (`HandleMatchesStatus`) and `CycleCorrect` (`StatusCycle`) are
  facts of `WebSockets` alone: `WsStep` proves them of each step it offers, and
  `GwStepIsWsStep` that the gateway, the loop and the workers only take such
  steps. The invariant `WsInv` is inductive as it stands.
* `RetriesCorrect` (`ReconnectsBounded`): `opens` is history, `attempt` is what the
  code counts, and they change at different places: a connection is opened in
  `ws_start`, the attempt counted in `discord_gateway_end`. `Retries` says, by
  where the main thread is, that `opens` is at most `attempt`, with one to come
  after `ws_start`, and that `attempt` is below the limit from
  `discord_gateway_start` on.
* `ReadyCorrect` (`ReadyMeansOnline`): inductive together with `WsInv`, which says
  that READY and RESUMED can only be read from an accepted connection. Most steps
  change flags only: `SameStep` covers them all, and `CalledSame`,
  `ClosedSame`, `HeartbeatSame` show that the handlers are such steps.

* `GwTypeCorrect` (`GwTypeOK`): ranges as well as types. That the acknowledgements a
  session waits for, with those on their way, stay bounded needs `BeatInv`: a
  session is ready only while its server is there, and a heartbeat is given up at
  most once per connection, after which the session is closing.
* `SessionRefines`, `GwSpec => Abstract!Spec`, the safety part of
  `ImplementsSession`. `PlaceInv` says where the main thread is while no
  connection is there, and that a connection which is disconnecting dispatches
  nothing once its callback has run: between them they decide the phase that
  `Session` sees.

`SyncRequestsProofs`, for every number of threads, routes, content types and handles,
every kind and order of answers and every retry limit, from `SyncAssumption`:

* `RequestsAreOwn` (`RequestIsOwn`): every handle ever made is in one queue once
  (`QueueInv`), the busy ones are those threads use, each its own (`UseInv`), and
  what a handle has received is nothing before the transfer and one answer after it
  (`AnswerInv`), which includes the handles that nobody uses.
* `LimitsAreKept` (`LimitsKept`). `RouteOnce` rests on the lock of `b_null`
  (`LockInv`): only its holder creates, so a route that `Match` did not find is
  still unknown in `Create`. That there is room for the bucket of a new route
  counts the requests that may still add one (`MadeInv`). `WindowRespected` needs
  `WindowInv`, which follows an answer from its arrival to the sleep of the next
  request: what it said is no longer than what is written, however old the
  timestamp was, because the timestamp is updated in between; what is written is
  what the bucket says unless another thread writes to it too; and the first of
  the two writes never frees a bucket that is still held.
* `HasMin` of `QueueLemmas`, that a nonempty set of numbers has a least one, is from the library's
  fact that `<` on numbers is well-founded. It is a fact about a relation, not an
  operator, and therefore a way to some inductions that the library's other theorems
  do not give.

`RequestsProofs`, for every number of routes, requests, retries and stops, every
kind and order of answers and any headers, from `RequestsAssumption`: the sets it
names are finite or numbers, and there is a route at all (`Routes # {}`, for a
context that was never used still has the route of its initial state).
`RequestInv` is inductive, and TLC checked it on the instances of both runs before
it was proved. Its parts:

* `TypeInv`, and `MadeInv`, that buckets are only made for routes that had none,
  without which there is no room for the bucket of a new route.
* `QueueInv` and `PlaceInv`: no queue links a context twice, and each context is in
  one of the idle queue, the heap and the two queues of its own bucket.
  `NothingIsLost` counts occurrences; the proof works with sets of elements, and
  `TimesIs` turns one into the other. The hard step is `CheckAction`, which may
  open a bucket and move the contexts of a route to it, while the answered one
  stays in `b_null`, leaves its queue and is put back at its head or in the heap.
* `FrozenHasTimer` is inductive only because a request of a batch that retries later
  enters the heap in the step that freezes its bucket, and because a timer's
  bucket cannot change: `null_filter` moves what waits in `b_null`, not what is timed.
* `ConnInv` (a handle is running for each busy request), so that the count never
  becomes negative; it is an inequality, since a retry leaves a handle running.
* `LogInv`: each live request has a context of its own, whose attempts bound how
  often it was sent. Contexts are reused, so this needs that no two live contexts
  name one request.
* `DoneInv`: between `done` and the end of a request there is only the user's
  callback, which may enqueue but not read another answer.

From it: `NoneIsLost` (`NothingIsLost`), `BoundsAreKept` (`InBounds`) and two action
properties. `BatchesStayWhole` (`BatchesAreWhole`): only `CheckPending` adds to a busy
queue, to an empty one, and a prefix of distinct contexts is as large as it is
long. `OverStaysOver` (`OverIsOver`): what is over has no live context, and the
steps that change a request's history go through one.

`OrderIsKept` (`SentInOrder`) has two hypotheses: nobody passes `high_p`, which asks
for another order, and no answer sets a global limit. `MCRequests_safety.cfg` is such
an instance. `OrderInv` is inductive relative to `RequestInv`, and TLC checked it there:

* without global limits no batch is timed out before it is sent (`wait = Past`), so a
  request that was never sent waits in the queue of its route's bucket (`Homes`);
* each queue has the unsent requests of one route in the order of their calls
  (`InTurn`). `CheckPending` takes a prefix of it, a retry enters at the head but was
  sent before, and `_discord_bucket_null_filter` moves a route's requests, in their
  order, to a bucket in which none of its unsent requests waits yet, because until
  then all of them had their home in `b_null`;
* each live request has a context, and the context its request's route (`Owned`,
  `RoutesKept`), so that "no earlier request waits" means "no earlier one is unsent".

`QueueProofs`, for every set of heads and of nodes that have nothing in common
(`QueueAssumption`): `QueueImplements` (`ImplementsLists`), with the names of the
nodes that the links give, `AbstractLists!Spec /\ [](TwoWays /\ Apart)`.

* `Holds(m, ls)` says that the links `m` hold the lists `ls`: from each head `next`
  leads through its list and back, `prev` through it in the other direction, no node is in two
  lists, and a node that is in none and points to itself does so both ways. The
  invariant `LinksInv` is that there are such lists. It says nothing of the stale
  links a macro leaves behind, which is why no macro may follow one.
* Each macro changes the links of a few nodes. The lemmas on segments (`Segment...`)
  say that a stretch of a list whose links are not touched stays one, and that
  two that meet are one; `TailJoins`, `HeadJoins`, `ElementLeaves` and `ListSplit` put
  them together to the list after the macro, `ListAdded` for `QUEUE_ADD`, where a whole
  list moves.
* The lists are not stored: `Lists` sees what a walk along `next` finds. `WalkIs`
  shows that a walk finds the list that the links hold, and that it ends.

`ConnectionProofs`, for every set of texts, requests and answers: `RequestsApart`
(`RequestsAreApart`). `ConnectionAssumption` only gives the types of requests and
answers; a field may come several times, be the one that the handle starts with, or
the empty text, which stands for a line without a colon. `HandleInv` was checked by
TLC on the instances of both runs before it was proved. Its parts:

* `FieldsInv` and `UrlInv`: each name is in the request's header once, and every node
  and the URL have memory for what is in them. A buffer is `Sound` if it has room for
  what was written and a NUL, also where a longer answer left more behind.
* `MomentInv` says, by where the handle is, what holds of it: that the field of the
  request is in the header (`HasField`) and, once set up, that what libcurl would send
  is what was asked (`SentIsAsked`); that the buffers and pairs are empty until the
  answer begins; and that while it comes (`Came`) the lines and chunks still to come
  are the rest of the answer, and the stored ones the beginning.
* `Shows` relates the places in a pair to the text: each pair cuts its field and its
  value out of the header buffer. `LineShown` is the step: places count from the
  beginning of the buffer, and earlier ones still mean the same, because a buffer is
  only appended to.
* The code searches the pairs, which leave out lines without a colon; the property
  speaks of the lines of the answer. `FirstKept` shows that the first
  line with a field is the first pair with it, by an induction over the number
  of lines (`SetInduction`).

`CwsProofs`, for every set of frames of a server, legal and not, every set of
messages of the user, sizes of chunks, and limits of the forms of a length:
`WhatIsSentIsReceived` (`ReceivedAsSent`) and `WhatIsWrittenIsRead`
(`WrittenAsAsked`). `CwsAssumption` gives the types of frames and messages; the length
of a payload that is not announced by 126 or 127 is below 126, in both directions, and
libcurl reads and writes at least one byte at a time. `MaxFrames` and `MaxSends` bound TLC's
instance only: nothing is assumed of them.

* `RecvInv` relates the parser to the server by the server's history. A state of it
  (`States`) is what a receiver should know between two frames, with the bytes that
  come after it; a frame leads from one state to the next (`Step`), and from a state
  of the past some series of frames leads to the present (`Leads`). The invariant says
  that there is such a state with which the user's messages agree (`Agree`), and
  that the bytes in `head`, `chunk` and `wire` are what is left of the state's: between frames, in
  an extended length or in a payload (`Between`, `InLength`, `InPayload`). A chunk
  that ends anywhere keeps the place, the end of a header moves it into the payload,
  and a dispatch moves it to the next state.
* The server goes on while earlier frames are still on their way. `LeadsGrows` shows
  that the chain of states grows by one frame, and each of its states by the bytes.
* While we have not closed, the user has got what the state says, and the
  fragments are the message that is being assembled; afterwards only a beginning of
  it. A frame that is not legal closes at one of three places: in its header,
  at the end of the header, or in the dispatch. `RecvHeaderBytes` and
  `DispatchRight` show that between them they leave out no case of `LegalAt`. That a
  legal frame never closes is not part of the property.
* `BufferInv`: the exchange of the buffers leaves each with room for what is
  announced and a NUL.
* `SendInv` gives each message that was written its place in what libcurl has taken
  and what still waits (`Placed`). A write adds a place at the end (`PlacedGrows`), a
  piece that is taken changes none, and a server that starts to read at a place
  finds the message and the next place (`ReadBack`). That a PING is answered with
  its own payload needs the types of `RecvInv`.

`QueueLemmas` states what appending, taking the head, removing, joining and
flattening do to the elements of a sequence and to its having none twice.
`Only` and `FlattenSeq` are recursive functions; that they exist and what they
contain is proved by an induction over sets of numbers (`SetInduction`), which
rests on `HasMin`.

Two things the proofs changed. The end of the window in `SyncRequests` was at first
claimed for the longest announcement; the invariant was not inductive, and TLC
with two lengths of windows had a behaviour against it (see section 2). And the
phase that `Gateway` shows to `Session` is a chain of conditions in the order that
decides, where several hold at once.

Only model-checked: all liveness and with it the fairness in the refinements of
`TaskPool` and `Session` (liveness and ENABLED are beyond the prover), and
`EveryRequestEnds`; the heap with its refinement of `Timers`, whose walks
to a node are folds over the bits of its number, and the hash table.
The modules about JSON and strings compute with recursive operators over data, which
the prover cannot instantiate; they stay with TLC.

## 5. What is not modelled

* Logging, `cee-utils.c`, digests and vendored headers other than `jsmn.h`,
  `queue.h`, `heap-inl.h` and `uthash.h`: no modelled decision depends on them.
* `json-struct.c`, which generates C code and is not part of a running client;
  `json-printf.c` and the boxed functions, older or shorter forms of
  `json-actor.c`.
* In `JsonScanf`, formats that are no formats: keys longer than `KEY_MAX`, paths
  deeper than `N_PATH_MAX`, brackets that are missing (json-scanf.c:502-525, 568, 584)
  stop the program by an assertion, which only the author of the format can meet.
* Failures of `malloc`, which mostly stop the program or lead to states that have no
  description; getters and setters of single fields; number formats.
* `ws_init`/`ws_cleanup`, `ua_cleanup`, multipart bodies, presence,
  `discord_adapter_cleanup`, and `discord_cleanup` while workers still run (a hazard
  in the list).
* The base64 and SHA-1 of the upgrade's key: the answer is right or wrong.

Each component's note in `PROJECT.json` says which of its operations are missing.

## 6. Plan

In order:

1. `RateLimit`: a server that counts its windows, composed with `Requests`, for
   the question whether a client that is alone in its buckets is ever answered
   429, and for late answers of a batch.
2. `Runtime`: `orca_global_init`, `work_global_init`, and cleanup against workers.

