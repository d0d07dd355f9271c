# TLA+ verification of posthog-c

posthog-c is an analytics SDK in C. A host program captures events from any
thread; one sender thread batches and posts them, keeps what it cannot deliver
in a spill file, and fetches feature flags. A second backend, for wasm, hands
every call to the posthog-js client of the page. This directory models the parts
where threads, callbacks, failures and restarts meet, and the algorithms they rest
on, checks them with TLC and proves the central properties with TLAPS.

## The system

| Part | State | Operations | Talks to |
|---|---|---|---|
| Event ring (`ph_queue.c`) | slots, head, count, dropped, wake latch | begin/end push, pop batch, wait, wake | producers under its mutex, the sender through its condition variable |
| Core API (`ph_core.c`) | identity, groups, super properties, token bucket, sequence number | init, capture, identify, alias, reset, group, register, shutdown | ring, flags, sender |
| Sender (`ph_native.c`) | batch in hand, retry count, hold, drain generation, counters | drain, replay, split, post, retry, spill, settle, park, flush, stop | ring, transport, spill file, limiter, flags, crash record |
| Spill file (`ph_native.c`) | lines, each a serialized batch, and perhaps a torn tail | append with roll-back, atomic rewrite, cap, replay | sender, the next run of the program |
| Backpressure (`ph_ratelimit.c`) | one monotonic deadline | arm, note response, blocked | sender only |
| Feature flags (`ph_flags.c`) | context generation, cache, queued and in-flight job, ticket history | context change, reload (blocking, asynchronous), fetch, ingest, resolve, abort | identity operations, sender thread, readers, host callbacks |
| Crash record (`ph_crash.c`) | `ph-crash.bin`, its temporary, handler flag | handler, install, uninstall, replay, hand-off | the next run of the program, the sender |
| Exceptions, properties, scrubbing (`ph_exception.c`, `ph_props.c`, `ph_util.c`) | packed blob of one event | set, pack, merge, deny, before_send | core, sender |
| HTTP client (`ph_http.c`, `ph_tls.c`) | one connection and its deadline | connect, send, read until complete, decode chunks | sender |
| Time (`ph_time.c`) | wall and monotonic reading of the epoch | correct, stamp | core, sender, serializer |
| JSON (`ph_json.c`, `ph_jsonval.c`, `ph_serialize.c`) | a growing buffer; a tree of heap blocks | write strings, serialize an event, parse a response | sender, flags, exceptions |
| Ids, gzip, threads | none, or wrappers over the platform | | all |
| Wasm backend (`ph_wasm.c`, `wasm/`) | bound host descriptor, super properties, callbacks | init, shutdown, capture and the rest of the API, forwarded to posthog-js | the page, host callbacks inside a call |

What is hard: producers race the sender on the ring and its wake latch; clocks
are read outside the locks that protect what they are compared with; a batch can
fail at any of a dozen points and must then be delivered, durable or counted,
once; a flush or a shutdown can begin in the middle of anything; a flag fetch
started for one identity ends under another; the process can die between any two
system calls of the crash handler or of the spill file; the wall clock is set
while events wait; a callback may try to shut the client down from inside a call.
`PROJECT.json` lists these hazards at their
lines, with the property that would catch each.

## Modules

| Module | Models | Proofs |
|---|---|---|
| `BoundedFifo` | operators of a bounded drop-oldest sequence | |
| `DropOldestQueue` | what the ring promises: atomic push and pop | |
| `PhQueue` | `ph_queue.c`, its producers in `ph__submit_event`, the sender's sleep | `BufferProofs` |
| `Sender` | the sender thread, spill file, flush and shutdown of `ph_native.c` | `SenderProofs`, `SenderDeliveryProofs` |
| `TokenBucket` | `rate_limit_admit` and the clock reading in `ph__submit_event` | `ClientProofs` |
| `FlagReload` | `ph_flags.c` and its callers in core, sender and callbacks | `FlagReloadProofs` |
| `ReportBox` | what the crash record promises: one report, kept until handed off | |
| `CrashRecord` | the POSIX handler, replay, hand-off, install and uninstall of `ph_crash.c` | `BufferProofs` |
| `HttpFraming` | where a response ends: head, content length and both chunk decoders of `ph_http.c` | `HttpExchangeProofs` |
| `HttpExchange` | one request: `do_http` and its readers, and `do_tls` of the Linux build | `HttpExchangeProofs` |
| `SpillFile` | the spill file call by call: `offline_spill`, `offline_enforce_cap`, `offline_replay`, `write_atomic`, under kills and power losses | `SpillFileProofs` |
| `WallEpoch` | the epoch of timestamps, its correction by the sender, the stamp of an event | `ClientProofs` |
| `BackoffWindow` | `ph_ratelimit.c`: Retry-After, jitter, cap, the hold | `ClientProofs` |
| `CivilDate` | `days_from_civil` beside a calendar | `ClientProofs` |
| `EventShape` | the properties of one event from the call to the JSON, on both backends | `EventShapeProofs` |
| `WasmShim` | the lifecycle of `ph_wasm.c` with calls from inside callbacks | `ClientProofs` |
| `JsonReader` | `ph_jv_parse` over tokens, with its heap blocks | |
| `JsonScalars` | `ph_json_str`, `parse_string_raw`, `parse_number` byte by byte | |
| `MC...` | roots for TLC, with the `.cfg` files | |

`MCPhQueue`, `MCSender`, `MCFlagReload`, `MCTokenBucket` and `MCCrashRecord` are one
module each. Three roots hold several modules that share no state, each behaviour
being one of one of them: `MCFiles` (`CrashRecord`, `SpillFile`), `MCCapture`
(`TokenBucket`, `WallEpoch`, `EventShape`, `WasmShim`) and `MCResponse`
(`HttpExchange`, `BackoffWindow`, `CivilDate`, `JsonReader`, `JsonScalars`). The
variable `file` or `part` says which.

`PROJECT.json` maps each definition to its lines. The correspondence in words:

* **PhQueue.** `slots`, `head`, `size` and `dropped` are the fields of
  `ph_queue`; `lock` is its mutex, held by a producer from `BeginPush` to
  `EndPush` because the caller fills the slot in place. `Measure` is the size a
  producer reads after it released the mutex and `ProducerWake` the wake that
  reading justifies. `woken` is the latch; `signalled` is the condition variable.
* **Sender.** Events are numbered in the order the ring accepts them. A batch,
  a split run or a spill record is the set of its events. The counters are the
  sets of the events they counted, so that "lost" and "counted twice" can be
  said. `pc` follows `sender_main` and what it calls. Each clock reading is a
  step of its own: `hold` (a window is open) may lapse and `expired` (the
  shutdown deadline) may become true between any two. A POST is answered with
  one of five classes, the ones the code tells apart. `offline` says whether
  `offline_path` is set; it is chosen in `Init` and never changes.
* **TokenBucket.** Time is integer ticks and tokens are counted in ticks, so the
  floating-point refill becomes exact; rounding of `double` is left out.
* **FlagReload.** `context` is `flags_context_gen`, `refetch` and `inflight` are
  the two jobs, `history` the fixed records. Each action is a critical section
  of `g_ph.lock`, or the code between two of them. A fetched answer is a partial
  function from keys to values, or a failure. The shape of the JSON is left out.
* **CrashRecord.** A record is the number of its crash, or `Torn`. `path` and
  `tmp` are inodes because publication is a hard link. A run of the program goes
  from `down` through `Start`, replay, `Install` and perhaps a fault to `down`.
* **HttpFraming, HttpExchange.** A response is a sequence of tokens: a header line
  is one token, a byte of the body is one of the classes the decoders tell apart.
  The completeness tests and the decoders are functions of the bytes received so
  far. What a server may answer is stated apart from them, by the grammar of
  RFC 9112 (`Message`, `Payloads`): a head, and a body whose framing the head
  announces; nothing follows a complete body, because the request asks for the
  connection to be closed. `good` is derived from it. `pc` follows
  the call from `getaddrinfo` to the close of the socket. Time is counted in
  ticks, several to a millisecond, because the code rounds what is left of the
  deadline up to milliseconds; a blocking call takes any time its timeout allows.
  The timeout is always positive in the callers, so the branches for "no
  deadline" are left out. So is the wait of `SSL_shutdown`.

* **SpillFile.** Batches are numbered as they are spilled; a line has its number and
  length, or is `Garbage` when bytes of two records share it. `cache` is the file
  every process sees, `inode` what the file may fall back to after a power loss,
  `behind` what the name may denote until the directory is synced. `pc` goes from
  call to call; a write may be short, each flush, sync, rename and removal may
  fail, and `Kill` and `PowerLoss` may come between any two. The C library is taken
  to discard its buffer after a failed flush, as glibc and musl do. `Sender`
  treats a spill and a replay as single steps; this module is what is below them.
* **WallEpoch.** `epochWall` and `epochMono` are the pair a capture copies. Each
  clock is read in a step of its own and `SetWall` may come anywhere. `sound` says
  that the pair holds a correction made since the clock was last set, with neither
  end saturated. `Top` is `UINT64_MAX`.
* **BackoffWindow, CivilDate.** Nanoseconds, with small units; `until` is the
  deadline of the limiter and `asked` what the last header meant. `CivilDate` walks
  a calendar day by day and compares `DaysFromCivil` with it.
* **EventShape.** A property is a key, the length of its packed entry and who gave
  it its value (call, super property, hook, SDK). `slot` is the ring slot, `wire`
  the posted event, `asked` what held when it was captured. One event is followed
  at a time; admission is in `TokenBucket`, the ring in `PhQueue`, the effect of
  identity changes on flags in `FlagReload`.
* **WasmShim.** `stack` holds the API calls in progress, innermost first, because
  `before_send` and `on_log` run inside a call and may call again. `bound` is the
  host descriptor and `handed` what was given to which host.
* **JsonReader, JsonScalars.** Recursive operators over tokens and over byte
  classes. Allocations are numbered, `failing` is the one that fails. The reference
  is the language itself: its texts up to the bound, the well-formed characters of
  UTF-8, the grammar of a number.

## Runs

| Run | Checks | States |
|---|---|---|
| `queue` | `RefinesDropOldestQueue`, `WakeIsServed`, `ThresholdIsServed` | 58 thousand |
| `sender_delivery` | `NoSilentLoss`, `CountedOnce`, `BacklogInOrder`, `LiveHoldHonoured` | 1.5 million |
| `sender_crash` | `CrashRecordKept` under I/O faults | 1.2 million |
| `sender_shutdown` | `FlushSettles`, `ShutdownSettles`, `ShutdownTerminates`, `FlushReturns` | 632 thousand |
| `token_bucket` (`MCCapture`) | `WindowBound`, `DropsOnlyWhenNeeded`; `StampsAccurate`; `ShapeTypeOK`, `DeniedNeverSent`, `PreservedSurvive`, `StampedOnce`, `CapturedContext`, `BackendsAgree`; `HandedInSession` | 2.3 million |
| `flags` | `SuccessIsFresh`, `CacheIsCurrent`, `ExposedOnce` | 1.9 million |
| `flag_liveness` | `ReloadReturns`, `EveryContextIsFetched` | 281 thousand |
| `crash_record` (`MCFiles`) | `RefinesReportBox`; `SpilledStays`, `UnderCap` | 1.3 million |
| `http` (`MCResponse`) | `TypeOK`, `DeadlineKept`, `FetchedIsWhole`, `FetchVerdict`, `NoticeFaithful`; `HoldAsAsked`; `CalendarAgrees`; `ReadsJson`, `NoBlockLost`; `ScalarsAgree` | 532 thousand |
| `sender_lapse` | violates `ShutdownSettles` | |
| `token_bucket_race` | violates `WindowBound` | |
| `crash_record_link` | violates `FirstReportKept` | |

The type invariants of the other modules, and `PublishedIsWhole`, `LinesInOrder`, `TicketsAreServed`, `OutcomeSticks` and
`SocketsReturned` are proved for every value of the constants, and the runs do not
repeat them.

Bounds and why they are enough:

* `queue`: three slots wrap around and overflow with three pushes by each of two
  producers; a batch of two leaves a remainder.
* `sender_delivery`: six events, two of them from an earlier run, a ring and a
  batch of three, one event per body: splits recurse, two events are too large
  on their own, the ring overflows, one retry, all answers, vetoes, and a cap that
  may evict any prefix of the file. `Configs` has both cases, so the run also
  covers a client without a file, which then starts with no old events.
* `sender_crash`: the crash report, one older record and two captures, with
  every file operation allowed to fail, the directory sync included.
* `sender_shutdown`: with and without a file; one flush, one old record and two
  captures, or three captures; the window never ends during shutdown, the harder
  case for termination.
* `token_bucket`. Limit: two events per three ticks, so a refill is never a whole
  event; nine calls exceed the burst several times over. Stamps: a clock of seven
  values, set twice, four ticks and a threshold of one, so that a correction can be
  needed, refused, stale and saturated. Shape: six configurations (deny lists, each
  kind of hook, each profile policy), six property lists with keys given twice,
  keys the SDK owns, stamps or forces, and lists that do not fit a slot of seven;
  four calls change identity and context around the event. Wasm: two sessions and
  a call made from a callback of another.
* `flags`: two contexts, three tickets and a history of two: records are reused
  while others are pending; two keys and room for one. `flag_liveness` has three
  contexts, so that a retry is itself superseded.
* `crash_record`: four crashes: one published, one refused by the full box, one
  after the hand-off, and one more. The spill file takes three batches of two
  sizes, two of which fill it, with two kills or power losses.
* `http`: two addresses, a deadline of one and a half milliseconds, so that
  rounding shows, and a resolver that may exceed it. Thirty-one responses: bodies
  one below, at and above the caller's buffer, with a length, chunked (leading
  zero, extension, trailer, data that look like framing) or ended by the close,
  and four malformed ones; each arrives in every cut. The hold: seconds of three
  milliseconds, headers below, at and above the cap, dates in the past and the
  future. The calendar: 1896 to 2104, so both a century that is a leap year and two
  that are not. Every text of nine tokens or fewer with nesting past the
  limit, each allocation failing in turn; every string of four bytes, the longest
  character of UTF-8, and every number of six.

Fairness. `queue`: a call that has begun is finished and the sender thread runs;
nothing is assumed of the interval timer. `sender_shutdown`: the sender thread
runs and every POST returns, because the transport has a deadline; a window ends
(`HoldLapses`), though not during shutdown; a flush that finds the sender idle
over and over sees it once, because it polls every 100 ms and an idle sender
sleeps a whole interval. `flag_liveness`: sender and waiters run, a fetch has a
timeout, a shutdown completes. Captures and context changes are never fair, and
are bounded.

## Disagreements found

Three runs show the code doing what a comment or the public header denies:

* `sender_lapse`. The final drain leaves its loop because a window is open and
  tests the window again (`ph_native.c:855`) with a new clock reading. If the
  window ends in between, the queued events are neither persisted nor counted.
* `token_bucket_race`. A capture reads the clock before it takes the lock. A late
  reader stores its older time in `rl_last_mono` (`ph_core.c:300`), and the next
  call refills the same span again.
* `crash_record_link`. If a run ends between `link` and `unlink`
  (`ph_crash.c:485`), the record keeps two names, and the `O_TRUNC` open of the
  next crash empties the report that was still to be handed off.

Seven more properties are stated in the modules and are not satisfied. No run
keeps them; adding one to a configuration shows the trace:

* `HoldHonoured` (`Sender`): when the answer to a replayed batch opens a window
  the drain still posts one live batch (`ph_native.c:841-849`, against the
  comment at 836). `LiveHoldHonoured` is what holds.
* `FlushFullCycle` (`Sender`, one flusher): a flush that begins in the middle of
  a drain is satisfied by its end (against the comment at 1019). `FlushSettles`
  is what holds.
* `DeliveryInOrder` (`Sender`): after a transient failure of the replay, newer
  events from memory are delivered first (against the comment at 828).
  `BacklogInOrder` is what holds.
* `ExposureAttributed` (`FlagReload`): an identify between `resolve` and
  `emit_ff_called` stamps the exposure with the new identity.
* `ReloadHasOutcome` (`FlagReload`, history of eight): newer tickets can reuse
  the record of a superseded one before its waiter looks, and the blocking
  reload returns without retrying.
* `WholeDeadline` (`HttpExchange`): `posthog.h:196` calls `request_timeout_ms` a
  "whole-request deadline". The TLS client sets the socket timeout once per
  library call, which may wait for the socket several times, and after the
  deadline still allows each address a millisecond (`ph_tls.c:228`, `246-255`).
  `DeadlineKept` is what holds, for plain requests.
* `CloseMeansEof` (`HttpExchange`): "Close-delimited bodies are complete only at
  EOF" (`ph_http.c:701`), but `do_tls` decodes what it has after an error or the
  deadline too (`ph_tls.c:566-569`), so a body without framing may be a prefix.

Three smaller observations on responses: a send without framing stops at the
first bytes of the body, so how much of a notice it keeps depends on the cuts (the
comment at `ph_http.c:557` says so); a head of exactly `PH_HTTP_HEADER_CAP` is
accepted or not depending on the cuts, hence the bound in `FetchVerdict`; and a
status is taken from a head that was cut off.

What the lower layers add (`SpillFile`, `EventShape`; each is an exception written
into the property that holds, or left out of its antecedent):

* A batch the spill file took can be lost uncounted in four ways, which `excused`
  names. A kill during an append leaves a torn tail, and the next append continues
  it unless a replay comes first, so that the newline hides the tear (`ph_native.c:319`
  calls the size "last clean record boundary"; the comments at 327 and 425 describe
  what must not happen). A replay that reads less than the file, or cannot grow
  `keep`, rewrites the file without the rest. An eviction whose directory sync fails,
  or whose process dies before the count, has removed its lines. A power loss before
  the name is durable brings back an older file.
* The groups and the `$exception_list` of an event are "preserved untouched"
  (`ph_native.c:506`) only while the properties the hook leaves and they fit
  together; otherwise they are dropped, or cut at the end of the slot (563-569).
* A veto of `before_send` on an exception (`ph_exception.c:41`) is not counted,
  although `posthog.h:391` lists "rate-limit/before_send rejection" among what
  `ph_dropped_events` counts.
* The hook of an exception sees the super properties on wasm but not on the native
  build, where they are stamped later. A caller's own scalar `$exception_list`
  is posted beside the real one on the native build, later in the object, and is
  overridden on wasm (`ph_wasm.c:194`). `StampedOnce` is therefore about the names
  `serialize_event` stamps.
* `$groupidentify` on the native build carries `$group_type` and `$group_key` among
  the properties: two of a full list are lost, the hook sees both, and a caller who
  gives them gets duplicates. `BackendsAgree` is therefore about captures and
  `$identify`.

`NoSilentLoss` also fails when the directory sync at the end of `write_atomic`
fails while the cap is being enforced (`ph_native.c:303`): the rename has
happened, the caller sees a failure and does not count the evicted events. The
constant `DirSyncFaults` turns this fault on; the theorem excludes it by name.

## Proofs

All theorems hold for every value of the constants that satisfies the `ASSUME`
of the module: any capacity, number of events, producers, retries and so on.

* **BufferProofs** holds the two places where an event waits for the sender.
  For `PhQueue`, `IInv` adds to `TypeOK` that a producer in the fill phase is
  the lock holder and has room, and that every live slot holds an event. Without
  the second part a pop could return a blank slot and the refinement mapping would
  not be a sequence of events. `RingIsDropOldestQueue` then maps `BeginPush` to
  the abstract push: the wrap-around of head and count is one arithmetic lemma.
  For `CrashRecord`, `RecordIInv` says that the temporary and the published name
  are different files except while being linked, what the handler has prepared
  when it links, and that the report the sender holds is the one on disk. Under
  the assumption that the unlink is not skipped, `RecordIsReportBox` shows that
  the file dance implements `ReportBox`.
* **SenderProofs.** `IInv` is the type invariant, which lists are not empty at
  which control point (`ControlOK`), that a replay in progress never holds a
  record the file does not (`ReplayOK`, so a failed rewrite loses nothing), and
  the accounting itself (`LossOK`). `NothingLostSilently` follows when directory
  syncs do not fail. Three more results need little beside it.
  `WindowsAreHonoured`: `HoldOK` extends the property from the two POST steps to
  every control point between the gate of `drain` and the next look at the
  limiter; without them a window could open at one and be met at the next.
  `ShutdownLeavesNothing`: `FinalOK` says what the final drain knows before each of
  its last tests. It needs `HoldOutlivesStop`, that no window ends between two of
  those tests; without that the statement is false, as the run `sender_lapse`
  shows. `CrashReportHandedOver` is an action property: only three steps remove
  the record, and each has just delivered or spilled the run with the report.
* **SenderDeliveryProofs.** The steps of `Sender` fall into ten ways of moving
  events between ring, hands and file (`StepKinds`); the order proof goes by these
  and not by the actions. `OrderOK` states the order list by list: within the
  file, the runs in hand and the ring, between them, and, while a replay is
  rewriting, between what it keeps and what it has still to try, all of which is
  still in the file. The last part is what makes a failed rewrite harmless.
  `BacklogKeepsOrder` follows for every fault of the file system.
  `OnceOK` says that what is pending and the four counters are disjoint; that no
  list holds an event twice comes from `OrderOK`, so order is needed to count.
  `EachEventCountedOnce` assumes `~IoFaults`: after a rewrite that failed the file
  still holds what was posted. `FlushKeepsPromise` holds with faults; `FlushOK`
  adds that the sender announces itself idle only between two cycles and that no
  call waits for an event that was not captured yet.
* **FlagReloadProofs.** `IInv` says which phase has a job in flight, that a
  pending record is of the present context and is served by the queued or the
  in-flight job, and that a fetch which ended well for the present context has
  loaded it. It gives `CacheStaysCurrent`, `TicketsHaveJobs`, `SuccessMeansFresh`,
  and the action properties `OutcomesAreFinal` and `ExposuresAreKept`. A by-product: `PH_ERR_FULL` is never returned, and the
  branch of `schedule_reload_locked` that discards a stale queued job is dead,
  because a context change has already cleared it.
* **HttpExchangeProofs.** `IInv` joins the two properties with the types of the
  clock and the fact that only TLS has a handshake. `RequestKeepsDeadline` rests
  on one lemma: what is left of the deadline, rounded up to a millisecond, ends
  less than a millisecond after it, whenever the wait begins. `NoSocketIsLost`
  holds for both schemes. Neither depends on what the server answers.
  `ReadsStayInBuffer` has an induction of its own: what a reader has stored is a
  prefix of the answer and fits, however the answer is cut.
  The other four are about what a call returns, for every response that satisfies
  `Message`. They rest on the two decoders, which recurse over position and output
  at once. `WalkExists` and `DownInduction` (a walk that only moves right ends) show
  that such functions exist and unfold, and give facts by induction from the end of
  the body. `ChunksOfWhole`: on any prefix of a chunked body the strict decoder asks
  for more, or overflows the caller, and accepts it with its payload only when all
  has arrived. `ChunksSound`: what it accepts is a chunked body in the sense of the
  grammar. `CopiedOfWhole`: the lenient decoder copies a prefix of the payload, and
  all that fits once it has seen the zero chunk. `DecodedIsWhole`, `DecodedVerdict`,
  `CompleteIsWhole` and `MetaFaithful` lift this to `decode_response_body`, the
  completeness tests and `parse_response_meta`. `CallOK` then ties the control of the
  readers to the bytes: one that goes on does not have enough, and one that
  stopped returns what its reason to stop makes of the bytes in hand. Without the
  first half a full buffer could hide a complete body. `ExchangeTypes`,
  `FetchReturnsWhole`, `VerdictIsOfTheBody` and `NoticeIsOfTheBody` follow.
* **EventShapeProofs.** `Select`, `Size` and `Pack` are passes over a list by a
  recursive function. `ListInduction` (first-order, over a set of lists closed under
  `Append`) gives what they preserve, bound and commute with. `ShapeInv` says where
  every entry of the blob of a call can come from (`Origin`: the call, super
  properties whose key the call left free, groups, the redacted
  `$exception_list`), that the slot is the event of the call followed, whole when
  queued and as the scrub stage leaves it later (`Left`), and that what is posted is
  the serialization of that slot. None of the properties is inductive without this
  link: each speaks of the posted event and of the moment of its capture, with
  any number of calls between. Each then follows from `ShapeInv` by an argument
  about one pass: `DenyListIsFinal` and `ContextIsOfTheCapture` from the origins,
  `ScrubPreserves` because the scrub packs into room that is large enough,
  `StampsStandOnce` because the serializer filters the names it stamps, and
  `BackendsShapeAlike` because selections commute, so the order in which the two
  backends filter does not show. `ShapeAssumption` asks of the property lists only
  that they are lists of scalars no longer than `PH_MAX_PROPS`.
* **SpillFileProofs.** `IInv` adds to `SpilledStays` where each batch that must not
  be lost is at every call: in the file as it was before the append, in the draft
  or among the lines already posted, in what a replay still has to read. Without it
  a rename could drop a line the next step relies on. `Sorted` keeps the order in
  every content a power loss may bring back. `SpilledBatchesStay`, `SpillKeepsOrder`
  and `SpillTypes` follow, for any number and size of batches, any cap, any
  number of crashes. `FileUnderCap` needs what `LineBytes`, a recursive function,
  computes: that it exists and adds up along the lines is shown by induction in
  first-order form (`SetInduction`: a set with 0 that is closed under successor),
  and from it that a suffix of a file weighs no more than the file and that a torn
  record weighs no more than a whole one. `CapOK` then bounds every content the
  file has, had before an unsynced rename or may be rewritten to, and says that the
  record in hand fits on top of what it will be appended to.
* **ClientProofs.** The smaller modules. `CalendarExact`: a year is as long as the
  formula says (centuries by division with remainder), and each next day is one
  more, provided the first day is right; `EpochDay` gives 1970. `HoldsAsAsked`:
  rounding, jitter and cap are bounded by lemmas on division and need no more than
  the property and types. `StampsStayAccurate`: `EpochIInv` bounds how far the
  pair is from the clock by the threshold and the ticks between its two readings,
  and says what a refresh in progress still knows of the clock; without the latter
  its store could not be shown to be current. `HandedStaysInSession`: every call in
  progress belongs to the session in force, because `ph_shutdown` refuses inside
  a callback.
  `TypeCorrect` of `TokenBucket` holds for any threads. For one capturing
  thread `IInv` relates the tokens left to every suffix of admissions (the credit
  spent since any earlier admission is covered) and, from below, to one suffix
  that is tight; `RateIsBounded` uses the first and `ShedsOnlyWhenNeeded` the
  second. With two threads the statement is false, as the run shows.

Only model-checked: every liveness property (`WakeIsServed`, `ThresholdIsServed`,
`ShutdownTerminates`, `FlushReturns`, `ReloadReturns`, `EveryContextIsFetched`), which
is out of the prover's reach; and `ReadsJson`, `NoBlockLost` and `ScalarsAgree`, as the
JSON readers are mutually recursive operators, which the prover does not take. Every
other property a run checks has a theorem.

## Not modelled

* The TLS clients for Windows and macOS, gzip, threads and mutexes, the C++
  wrapper, the examples and the build: they wrap platform libraries or forward calls.
* Text: ISO-8601, UUIDs, number formatting, the values of numbers read, the
  accessors of the JSON tree, the growth of `ph_strbuf`, URLs and request heads.
* Defaults and validation in `ph_init`, and the diagnostic counters.
* What posthog-js and `wasm/posthog-c-host.js` do with a call.
* The Windows exception filter. It publishes by a move that refuses to replace, and
  has no second name.
* In `Sender`, callbacks that capture from the sender thread. An event captured after
  the last pop of the settling loop is freed uncounted (`ph_native.c:640`).
* In `CrashRecord`, two threads that fault within the window between reading and
  setting `g_in_handler`, and the frames inside a record.

## Plan

What remains, in this order:

1. Callbacks that capture, as an action of `Sender`, and a second thread in the
   crash handler.
2. A composition of `PhQueue` and `Sender` through `DropOldestQueue`, and of
   `Sender` and `SpillFile` through what a spill promises.
3. Proofs: the JSON readers, once they are written as recursive functions over
   positions, as the chunk decoders are.

Runs are few on purpose: modules that share no state share a root.
