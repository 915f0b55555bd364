# Verification of the dynamic module examples

TLA+ models of the Go and Rust dynamic modules of this repository, TLC
configurations that check them on small instances, and theorems that TLAPS proves
for instances of any size.

The repository holds two shared libraries that Envoy loads: a Go module with an SDK
of its own (`go/gosdk`), and a Rust module on Envoy's Rust SDK. Envoy owns the
threads. It has a main thread, which creates and destroys filter configurations,
and worker threads; a stream (an HTTP request with its response) belongs to one
worker, which calls the event hooks of the stream's filters one at a time. Streams of
different workers run in parallel. All that is hard in this code follows from there:
memory shared between workers, goroutines and threads that outlive a hook, and
the order in which Envoy calls the hooks.

## Inventory

| Component | State | Operations | Interacts with |
|---|---|---|---|
| Go SDK, memory manager, filters (`go/gosdk/mem.go`, `abi.go`) | 256 lists of pinned filters, a mutex each | pin on creation, unwrap in each hook, unpin on destruction | every worker thread; the garbage collector |
| Go SDK, memory manager, configurations (`mem.go`, `abi.go`) | one list without a lock | pin, unpin, unwrap in `on_http_filter_new` | main thread; workers that create filters; the garbage collector |
| Go SDK, scheduler and continuation | an Envoy object per scheduler | NewScheduler, Commit, Close, ContinueRequest, Scheduled | goroutines, Envoy's event loop |
| Go SDK, header and body access | `bodyReader` | get, set, drain, append, read | Envoy's buffers |
| Go delay filter (`go/delay.go`) | `delayLapsed`, a goroutine per delayed request | RequestHeaders, goroutine, Scheduled, RequestBody, ResponseHeaders | scheduler |
| Go JavaScript filter (`go/javascript.go`) | pool of 24 virtual machines with a mutex each, header maps per stream | start of the machines, hooks, `set*Header` and `get*Header` of scripts, Destroy | goja; other streams on the same machine |
| Go passthrough filter (`go/passthrough.go`) | none | reads, replaces and restores the body | body access |
| Go header_auth filter (`go/header_auth.go`) | `sendOnResponseHeaderPhase` | local replies from two phases | the filter chain |
| Go entry point (`go/main.go`) | none | a switch over the filter's name | - |
| Rust access logger (`rust/src/http_access_logger.rs`) | channel, receiver mutex, worker threads, files | construct, collect headers, send on drop, receive, write | its worker threads, the file system |
| Rust metrics filter (`http_metrics.rs`) | start time, route | record a latency | Envoy's statistics |
| Rust header_mutation, random_auth | configuration | header changes, local reply | the filter chain |
| Rust zero_copy_regex_waf | pattern; a reader over the body's chunks | match a body | body access |
| Rust passthrough (`http_passthrough.rs`), entry point (`lib.rs`) | none | no hook; a match over the filter's name | the filter chain |
| Integration environment (`integration/`) | - | the order of the filters of three listeners | all of the above |

What makes each component correct, and why it is hard to test:

* **Memory manager.** Envoy holds a filter as a bare `uintptr`, which the Go
  garbage collector does not see. A filter lives as long as its list leads to it. So the
  lists must hold exactly the filters that Envoy holds, at every pointer assignment (the
  collector may run at any of them), and nothing else (or filters leak).
* **Access logger.** A message is sent when a filter is dropped, received by one of
  several workers, and written after the receiver's lock is released. It must not be
  lost, doubled or reordered within a file; workers must end when the configuration
  is gone, also when its constructor has failed halfway.
* **Delay filter.** A goroutine outlives the hook that has started it and perhaps the
  stream. Its event must be committed once, through a scheduler that is open, which must be
  closed; a stopped request must be resumed, and only a stopped one.
* **JavaScript filter.** Streams of different workers share a virtual machine that
  is not safe for concurrent use. A script that throws must not keep it. Headers are
  copied before the wait for the machine.
* **Body access and passthrough.** Readers point into Envoy's memory and are
  invalid after a change. What is taken from a body must be put back, however
  it was cut into slices, and every read must come to an end.
* **header_auth, random_auth, metrics, header_mutation.** What is refused must not reach the
  upstream, and whoever stops a request must answer it. A response may come from the upstream, from
  another filter or from Envoy, and end with its headers, its body or trailers: a latency must be
  recorded once, at its end; a refusal of the response must hold for each.
* **Filter configurations.** Their list has no lock, which is right only because Envoy creates and
  destroys configurations on one thread; workers create filters from them at the same time. A pool of virtual
  machines must be handed out whole or not at all.
* **zero_copy_regex_waf.** The regular expression must see the whole body, although a filter before
  has rewritten it and the buffer's slices and the reads have boundaries of their own.

The list of hazards, line by line, with the properties that cover them, is in
`PROJECT.json`.

## Modules

| Module | Models | Composes or extends |
|---|---|---|
| `PinnedObjects` | what both lists of the memory manager promise: free, fresh, pinned, released | - |
| `MemoryManager` | the filters of `mem.go` and the hooks of `abi.go`, one pointer assignment per step | refines `PinnedObjects` |
| `ConfigLifecycle` | the configurations of `mem.go`, `abi.go`, `main.go` and of `javascript.go` with its pool | refines `PinnedObjects` |
| `LogService` | what the access logger promises for each message | - |
| `AccessLogger` | `http_access_logger.rs`: constructor, filters, channel, workers, files | refines `LogService` |
| `DelayFilter` | `delay.go` on the SDK's scheduler and Envoy's filter protocol | - |
| `JavaScriptFilter` | `javascript.go`: mutexes, hooks, script calls, on the header calls of `abi.go` | - |
| `BodyRewrite` | the body hooks of `passthrough.go` on `bodyReader` and the body calls of `abi.go` | - |
| `BodyChain` | `http_zero_copy_regex_waf.rs` behind the passthrough filter | extends `BodyRewrite` |
| `FilterChain` | the header hooks of `header_auth.go`, `passthrough.go`, `http_random_auth.rs`, `http_metrics.rs`, `http_header_mutation.rs` and `http_passthrough.rs` in a chain | composes the six |
| `MC...` | an instance of each for TLC | extends the module |
| `...Proofs` | theorems | extends the module |

An operator whose comment begins with "Mutation of" is a plausible bug of the definition
that it names. No specification uses it; it shows that a property would notice.

### MemoryManager

`live` is the heap, `next` and `prev` the links, `httpFilterLists` and
`httpFilterListsMuxes` the arrays of `memoryManager`, `pc` and `item` the position and the
local variable of each thread, `held` the addresses that Envoy has. The actions
`PinLock`, `PinNext`, `PinPrev`, `PinHead`, `PinUnlock` are the statements of
`pinHttpFilter`, and likewise for `unpinHttpFilter`; `FilterNew`, `HookCall` and
`FilterDestroy` are the exported functions. `Collect` is the garbage collector: it takes any
cell that the global variable and the local variables do not lead to, defined by
closure under the links, without recursion. `ShardOf` stands for the hash of the address and
is any function. Envoy calls the hooks of a filter and destroys it on the thread that has
created it, so a filter is used by one thread, while its neighbours in the list belong to
others.

### ConfigLifecycle

`httpFilterConfigs`, `next`, `prev` are the list and its links, `pc` and `item` the position and the
local variable of the main thread, `held` the addresses that Envoy has. `ConfigNew` is the exported function up to
the choice by name. For the JavaScript filter `BuildStep` and `BuildFails` follow
`newJavaScriptFilterConfig`: `vms` is the slice of machines, `vm` the one in hand, a machine is what
`newJavaScriptVM` has done with it. Then `PinItem`, `PinPrev`, `PinHead` are the statements of
`pinHttpFilterConfig`, `UnpinPrev` and `UnpinNext` those of `unpinHttpFilterConfig`. Worker threads are within
`on_http_filter_new`: `creating` is the configuration that they have unwrapped, `given` the machine
that the new filter has. The rule of `gosdk.go:9-10`, "only called by the main thread", is
in the shape of the model (one `pc`), and so is that Envoy keeps a configuration while a filter is being created from it
(guard of `ConfigDestroy`). Both are Envoy's part. The name of a filter that the module does not know makes
it panic, which ends the process and is left out.

### AccessLogger

`config`, `spawned` follow the constructor, which may fail at any file; `filter`,
`owner`, `headers` the filters; `channel`, `rx_lock`, `worker`, `message` the channel and
the worker loops; `disk`, `offset` the files with the position of each descriptor, since the
files are created and not opened for appending. A message is named after its filter, and
what its text says is left out. `Send` is the body of `Drop::drop`, and `DropFields` comes after it:
only then is the sender gone that the filter holds. A write may fail at any time.

### DelayFilter

`stream`, `decoding`, `upstream`, `response` are Envoy's side of a stream: has
it been stopped, what did the next filter receive, what did the response say. `goroutine`,
`scheduler`, `events` are the goroutine, its scheduler and the events that the worker thread has
still to run; `delayLapsed` is the field of the filter. `continuing` is the
stream that is within `continue_decoding`. Envoy's part is modelled from how `delay.go`
and the SDK use it: a body hook that returns Continue takes stopped headers along, an event of
a destroyed stream is dropped, and a later filter may answer the request.
`LapseReported` holds for every request: a response tells of a delay whenever Scheduled has let the request go on, and one that tells
of it answers a request whose goroutine has slept. A body may have carried such a request past before (`EveryRequestDelayed`, which
`delay_body` refutes), and its response then tells of a delay that there was none of; the property says so.

### JavaScriptFilter

`envoy` and `mirror` are the two copies of the headers, Envoy's and the maps of the
filter, both with a list of values for each name: `GetHeaders` copies all values, `SetEnvoyHeader`
replaces them by one in Envoy, and a script's get sees the first. `mux` are the mutexes of the machines; `pc`,
`serving`, `phase` the hook that each thread is in. `Enter` copies the headers, `Lock` waits for the
machine, `SetHeader` is a call of the script, `Return` the end of the script with the deferred unlock,
normal or by an exception. `Destroy` drops the maps.
`respelt` is a history variable: the headers that a script has set by a name with capital
letters. Envoy's names are in lower case and the map's are as the script spells them. So a
script that sets `X-Foo` and reads `x-foo` sees its old value, and one that reads `X-Foo` sees
nothing of an `x-foo` that has arrived. `ReadsCurrent` says exactly that: which reads give what Envoy
has, and which give what the script itself has set and nothing else. No document of the repository
promises more for reads by other spellings.

### BodyRewrite

`slices` is Envoy's buffer: its bytes, and the places where its slices end. What is added becomes slices in any way
(`Added`), and may also extend the last one. No slice is empty, so a slice is told by the place where it begins: `index`, and
`vec_idx` of `BodyChain`, are such places and not numbers of slices, and `End` is where the slice ends. With this view a read is a part of a
sequence, and what has been read can be compared with the body without concatenating slices.
`Steps` is the sequence of calls of the hook, `pc` the current one. `Read` is
`bodyReader.Read`, called by `io.ReadAll` with any room; `valid` is a history variable that
tells whether the reader was taken after the last change of the body. The hooks for the
request's and the response's bodies are the same code, and the model is of either.

Each of the calls on the body may return false, without an effect: a history variable, `failed`, says that one has.
`GetRequestBody` then has no reader and the hook panics; what `DrainRequestBody` and `AppendRequestBody` return the hook
does not look at, but it reads the body back at the end. `BodyPreserved` says that this reading catches every failure
(the mutant `StepsUnchecked` leaves it out), `PanicsExplained` that nothing else makes the checks panic. A body without a byte is
a case of its own: `GetRequestBody` takes the address of `chunks[0]` without looking whether there is a chunk (`out_of_range`), and
`PanicsExplained` names it as such.

### BodyChain

The regex filter reads the buffer when the passthrough filter has returned. `vec_idx` and `buf_idx` are the
fields of its `BodyReader`, `room` and `buf` the slice that a read has been given and what is in it, `read` what has
come to the regular expression so far. That the filter cannot get the body (`expect`) is a choice. `CopyLoop` is one round of the reader's loop, `ReadCall` and
`ReadReturn` what comes before and after. The matcher is taken to read until it gets `Ok(0)`; `Matches` is
the expression, a parameter. A body without a frame that ends it is released by the trailers, for which the
filter has no hook (`unread`). `VerdictOnBody` is about the bodies on which the filter decides; that it decides on every body,
as its comment says, is `MatchRefused`, which the run `body_trailers` refutes.

### FilterChain

One stream in a chain of filters. `decode` and `encode` are the positions of the headers of request and
response, `reply` the status of the response on its way, `client` what the client has received.
`SendLocalReply` starts a response from the end of the chain, so that it passes all filters, also
those that have not seen the request; a local reply to a response that is on its way
(`ReplaceResponse`) goes to the client directly, without the headers of the response before it. Both are Envoy's part.
`auth` is the list of values of the header that header_auth reads, which may be empty; the filter looks at the first.
The passthrough filter of Go reads headers and adds one to the response, that of Rust has no hook (`PassOn`). `sendOnResponseHeaderPhase`,
`start_time` and `route_name` are the fields of the filters, `recorded` the values in the histogram of
the metrics filter, and `panicked` says that header_mutation did not find the address of an
upstream. `body` tells what a response has ended with: its headers or a last part of its body (`ended`), or `trailers`. Headers are names, of which header_mutation sets and removes some; times are left out.

## Runs

| Run | Instance | Shows |
|---|---|---|
| `mm` | 2 threads, 3 filters in 1 shard | no interleaving corrupts a list, frees a held filter or leaks one; every call returns; the lists implement `PinnedObjects` |
| `config` | 1 worker, 3 configurations, pools of 2 machines | no configuration is freed too early, lost or leaked; a machine that a filter gets is ready; the list implements `PinnedObjects` |
| `al` | 2 filters, 2 workers, a configuration without workers | exactly once, in order; workers exit; `LogService` is implemented |
| `al_reload` | 2 configurations, one directory | violates `SeparateFiles` |
| `delay` | 2 streams, with and without a body | delay observed and reported, scheduler used and freed, requests resumed |
| `delay_body` | the same | violates `EveryRequestDelayed` |
| `delay_cgo` | the same | violates `NoCallback` |
| `js` | 2 threads, 2 streams, 1 machine, 1 header in 2 spellings with lists of values | scripts apart, reads as `ReadsCurrent` says, hooks return |
| `body` | up to 3 frames of up to 3 bytes, also empty ones, reads of 1 to 3 bytes, any call on the body may fail | the body is preserved, every panic has a stated cause, the verdict is on the body that was sent, both hooks return |
| `body_trailers` | the same | violates `MatchRefused` |
| `chain` | 6 chains of two to four filters, 2 header names | refusals hold, one latency at the end, removed headers are gone, stopped requests are answered |
| `chain_latency` | the same | violates `LatencyOfRequest` |

Why the bounds are enough to be of interest:

* Memory manager: three items in a list make a first, a middle and a last one, two threads wait for
  each other at one shard, and a cell is reused after collection. Shards share nothing but the
  collector. The theorems cover any number of threads, filters and shards.
* Configurations: again a first, a middle and a last item. One worker is enough, since workers write nothing
  that the main thread or another worker reads. A pool of two machines has one before the last,
  after which a failure leaves a machine behind.
* Access logger: two workers compete for the receiver, and one writes both messages or each
  writes one, in any order. One configuration has no worker (`num_workers` may be 0). Constructors
  fail at each file. The safety theorems hold for any number of each.
* Delay filter: streams share nothing but the worker thread, so two show every interaction;
  a body in one part (`MaxParts = 1`) is enough to resume a stopped request.
* JavaScript filter: with one machine every pair of streams collides. With more than one value a
  header could change and change back, which the comparison of the copies does not depend on.
* Body: frames of up to three bytes are cut in every way, the reads of two filters of one to three bytes meet them
  inside a slice, at its end and across, and the buffer is read again after it
  has been filled in another cut. Failures are chosen call by call, so every set of failing calls occurs. The pattern is one that matches only across frames.
* Filter chain: streams share nothing, so one is enough. The chains are those of the first two listeners of
  `integration/envoy.yaml`, restricted to these filters, and four more in which a filter refuses before or
  after the metrics filter, before header_mutation and between it and passthrough. The header that header_auth reads has
  no value, one, or two in either order. Each of two header names is set,
  and each is removed in one direction, so a name is set and removed, and another is only set.

Deadlock is checked in `mm` and `config`, where Envoy can always create
or destroy a filter or a configuration. The other systems stop when their finitely many streams or filters have ended.

## Fairness

* Memory manager: weak fairness for the statements of a call, since a running goroutine goes
  on; strong fairness for the acquisition, since `sync.Mutex` hands the lock to a goroutine that
  has waited for long (starvation mode); weak fairness for the collector.
* Configurations: weak fairness for the calls on the main thread and on each worker, which go on once Envoy has
  made them, and for the collector.
* Access logger: weak fairness for the constructor, for the drop of a filter's fields and for each
  worker's loop. `std::sync::Mutex` is not fair, and no strong fairness is assumed: workers exit all the
  same, because the lock is released whenever a worker exits or writes.
* Delay filter: weak fairness for the goroutine and for the return from `continue_decoding`; strong
  fairness for the worker thread's turn to a committed event and to the end of an answered
  stream, because that thread serves other streams in between.
* JavaScript filter: strong fairness for the acquisition, as above, and for the end of a script (it
  does not loop for ever; while it sets headers, its end stays enabled).
* Body: weak fairness for the two hooks, which run on the stream's thread until they return.
* Filter chain: weak fairness for the hooks, which Envoy calls until headers have gone through the chain.

Envoy, clients and upstreams owe nothing: no run assumes that a stream is created,
answered or destroyed, with the exception named for answered streams.

## Proofs

All theorems hold for any values of the constants that meet the named assumptions.

* `MemoryManagerProofs`. The properties are not inductive: between two
  assignments of a critical section the links of its shard disagree. `IInv` says how. Its
  main part, `ListOK`, relates `next` and the head to the set of pinned filters, and `prev` to
  `Back`, which is what `prev` will be when the running section ends; `LocalOK` and `Calls` say
  what a thread knows at each statement, and `FreeCells` that collected cells are not linked to. From it follow
  type correctness, `ForwardList`, `BackLinks`, `HandlesAlive`, `NoLeak` and `WritesUnderLock`, and
  that each step is a step of `PinnedObjects` or a stutter (`Refinement`).
* `AccessLoggerProofs`. `IInv` states what a constructor has spawned, who owns a
  message, who holds the lock, and that a worker that has exited leaves nothing to come. It gives
  `TypeOK`, `ExitDrained` and `SendSucceeds`.
* `AccessLoggerFileProofs`. Under `DirsApart` (no two configurations name one directory), `FileInv`
  adds: offsets lie beyond all lines (`Offsets`); a message is in one place, stated place by place
  (`Once`); a channel holds the end of what was sent, and what a worker has in its
  hand was received after the lines of its file (`Ordered`). It gives `ExactlyOnce`, `FileOrder` and
  `LinesStay`, and that each step is one of `LogService` or a stutter (`Refinement`): an accepted message is written once or
  reported, and that is final. Without `DirsApart` workers share files, as `al_reload` shows.
* `DelayFilterProofs`. `IInv` relates goroutine, scheduler, events and headers
  of each stream. It gives all safety properties of the run `delay`.
* `JavaScriptFilterProofs`. `IInv` says that a hook serves a stream of its own
  thread, that a script holds the mutex of its machine (`MutexOK`), that both copies of the headers
  agree from the copying on (`CurrentOK`), that names with capital letters come into the map by the script alone
  (`SpeltOK`), and that the map is empty before (`FreshOK`, without
  which old values could survive the copying). It gives `TypeOK`, `ScriptsApart` and `ReadsCurrent`,
  for lists of values of any length.
* `FilterChainProofs`. `IInv` follows the headers through a chain of any filters in any order:
  what the position of the request says of the filters before it, that a request that was refused or stopped is not
  forwarded (`RequestOK`), what the client can have received (`ClientOK`), what header_auth and header_mutation have
  done to a response that has come past them (`BackOK`), and which hook of the metrics filter has
  recorded (`MetricsOK`). It gives all safety properties of the run `chain`. A filter is in a chain once
  at most (`ChainsAssumption`), so its position is a function of the chain.
* `ConfigLifecycleProofs`. `IInv` is that of the memory manager for one list without a lock: `ListOK` relates the
  links to the pinned configurations, with `Back` for the `prev` that the running statement has still to correct,
  `LocalOK` says what the main thread knows at each statement, `FreeCells` what collected cells are. In addition `BuildOK` says that
  every machine in a pool has been started to its end and that a pool leaves the constructor full or not at all. It gives
  `TypeOK`, `ConfigsAlive` and `MachinesReady`, and that each step is one of `PinnedObjects` or a stutter (`Refinement`).
* `BodyChainProofs`. The hook's calls change the buffer under a reader, so the invariant says what the buffer holds at each call of
  `Steps` (`HookOK`) and, while a reader is in use, that it reads the buffer as it is and that what it has returned is the part of
  the buffer in front of its place (`ReaderOK`); `WafOK` says the same of the reader of the regex filter, including
  what a running read has copied. Each round of either loop moves the place by one part (`NextPart`), so the induction
  over slices is one over steps, and no recursion over the slices is needed; that there is a next end of a slice
  is the well-ordering of the numbers (`LeastElement`). It gives `ChainTypeOK`, `BodyPreserved`, `ReaderValid`, `PanicsExplained` and `VerdictOnBody`
  for frames, slices and reads of any number and size, any matcher and any failing calls. Once a call has failed the buffer may
  hold anything; what is known then is only what the last reading tells, which is enough for `BodyPreserved`. Assumed are rooms of at least one byte for a
  read, which `io.ReadAll` offers, and that the text that the hook appends is not empty.
  `ReadAdvances` and `CopyLoopAdvances` say that no read and no round of a loop copies nothing; with the fairness of the hooks that is why
  `HooksReturn` holds, which TLC checks.

`WritesUnderLock`, `ExitDrained` and `LinesStay` are stated by theorems only; no run repeats them.

Only model-checked are the liveness properties and everything that rests on fairness (`CallsReturn`, `WorkersExit`,
`HooksReturn` and the others of their kind, and the fairness halves of `ImplementsPinning` and `ImplementsLogService`): liveness and
ENABLED are beyond the prover. Every invariant of a passing run is a theorem.

## Findings

* `delay_body`: the delay filter lets the body of a stopped request pass, and
  the body takes the headers along. Requests with a body are not delayed, contrary to what
  `go/delay.go:15` says.
* `delay_cgo`: `continue_decoding` is declared `#cgo nocallback`, but the rest of the filter chain runs within
  it. When a later filter answers the request, the response enters the Go module's exported hook. It
  depends on what Envoy does inside that call, which is modelled as external.
* `al_reload`: configurations with one directory, as during the update of a listener, truncate and overwrite
  each other's files, contrary to "Each worker thread writes to a separate file".
* `body_trailers`: the zero_copy_regex_waf filter decides when the last frame of a body comes. When trailers end the
  request, no frame is the last one, and the trailers release the body without a verdict, contrary to
  `rust/src/http_zero_copy_regex_waf.rs:8` and `:42`. It depends on Envoy calling the hook without `end_of_stream` for a body that
  trailers follow, which is modelled as external.
* `chain_latency`: the metrics filter records in the hook of the request's trailers, which come before the
  end of the response, and has no hook for the response's trailers. A stream with trailers gets a value that is
  too small, or none.

One more thing that the models show has no run of its own: `GetRequestBody` and `GetResponseBody` take the address of `chunks[0]` when
there is no chunk (`go/gosdk/abi.go:584`, `:626`), so the hook panics for a body that ends without a byte. It is the exception in
`PanicsExplained` (`sent = << >>`), and depends on Envoy running the body hook for an empty last frame.

## Not modelled, and the plan

All components that the inventory names are modelled as far as they keep state, and all their invariants are proved. What could
follow is smaller: theorems that say under which hypothesis the property of each violating run holds.

Left out for good:

* The rest of the entry points: a switch without state, whose panic at an unknown name ends the process.
* The conversion of headers and attributes between C and Go, the text of log messages and of access log
  lines, and the two attributes that are only printed.
* Regular expressions and scripts themselves: parameters and nondeterministic choices stand for them. The regex matcher is taken
  to read on until the reader says that the body has ended.
* The parsing of configurations, which happens once and is read only afterwards.
* The end of the process, at which detached worker threads lose what is queued: no code handles it.
* `ContinueResponse` of the SDK, which no filter calls, and a `NewScheduler` that returns nothing.
* The hook of header_mutation after its panic: `panicked` ends what is said of the stream.
