# A verification development for iot-ephemeral-value-store

The server keeps a JSON document per *download key* for a limited time. A
device that knows the *upload key* replaces, merges into or deletes the
document; whoever knows the download key (a hash of the upload key) reads it.
The same operations are offered over HTTP GET and as MCP tools.

## 1. The system

| component | source | state | operations |
|---|---|---|---|
| storage | `storage/storage.go` | the Badger database (key -> bytes with expiry), the breaker flag `degraded`, background goroutines | `Store`, `Delete`, `GetJSON`, `Retrieve`, `CheckHealth`, `ResetDegraded`, `Close`, value log GC |
| data service | `data/data.go` | none of its own; read-modify-write over storage | `GenerateKeyPair`, `Upload`, `Patch`, `Delete`, `DownloadJSON`, `DownloadField` |
| documents | `data/merge.go`, `data/traverse.go`, `httphandler/datahandling.go`, `httphandler/utils.go`, `collectAllPaths` | pure functions on nested maps | escape, timestamp, merge at a path, field lookup, path listing |
| keys | `domain/domain.go`, `httphandler/keyPairHandler.go` | none | random upload key, optional prefixes, validation, derivation of the download key |
| statistics | `stats/stats.go` | counters, hour buckets, the list of rate limited addresses | increments, `RecordRateLimitHit`, `GetCurrentStats` |
| middleware | `middleware/*.go` | the map of token buckets per address | rate limit, client address behind proxies, body limit, CORS |
| HTTP handlers | `httphandler/*.go` | none; they count into `restStats` | one handler per route |
| MCP handlers | `mcphandler/*.go` | none; they count into `mcpStats` | one tool per operation |
| server | `main.go` | process life cycle, the two statistics objects | flags, router, listen, health route |
| viewer | `static/viewer.html` | each tab's list of watched keys and its shared copy in `localStorage`; fetches under way | poll, refresh, add, create, import, remove, clear |

How they interact. Every HTTP request runs in a goroutine of `net/http`
through the middleware chain (CORS, size limit, rate limit) to one handler. The
handler, or the MCP tool behind `/mcp`, makes one call of the data service,
which makes one storage call, or two for a patch (`Retrieve`, then `Store`).
Each storage call starts a second goroutine for its Badger transaction and
waits for it, for the end of the request's context, or for a timer. Handlers
and middleware report to one statistics object (`restStats`), the MCP tools to
another (`mcpStats`); the start page renders both. Nothing is locked across two
calls; only Badger's transactions, the limiter map's mutex, the limiters' own
and the statistics' mutex order concurrent requests.

### What is hard here

* A write can outlive its call: the timer or the client gives up, the
  transaction commits later (storage).
* The breaker is one atomic flag, read before and written after other steps.
* Patch is a read-modify-write without a lock (data service).
* Entries expire and the process restarts between any two steps.
* Documents change shape: a merge turns values into maps, keys may contain
  slashes, and the store's own timestamps share the clients' name space. HTTP
  requests have their values escaped on the way in, tool calls do not.
* The statistics hand out a slice they go on writing to, and drop hourly
  buckets only when somebody looks.
* Limiters are created on first use by concurrent requests.
* A handler counts, answers and may still break off; a client may be told one
  thing, the database hold another and the statistics show a third.
* The viewer's calls overtake one another, entries are removed while their call
  is under way, and tabs overwrite each other's list.

`PROJECT.json` lists each of these under `hazards`, at its line and with the
properties that would catch it going wrong.

## 2. The modules

| module | models | built on |
|---|---|---|
| `EphemeralStore` | abstract: what `storage.Storage` promises a caller, an aging register per key with calls that take effect once or never | |
| `Storage` | `storage.go` as written: callers, background goroutines, select, contexts, timer, breaker, expiry, restart | |
| `StorageRefinement` | the refinement mapping from `Storage` to `EphemeralStore` | `Storage`, `EphemeralStore` |
| `StorageProofs` | inductive invariants and theorems of `Storage`, and the proof of the refinement | `StorageRefinement` |
| `Documents` | the pure functions on documents: merge, traverse, timestamps, listing | |
| `DocumentsProofs` | lemmas: what these functions compute | `Documents` |
| `DocumentHistory` | one document under uploads and patches | `Documents` |
| `DocumentHistoryProofs` | invariant and theorems of `DocumentHistory` | `DocumentHistory`, `DocumentsProofs` |
| `KeyPairs` | spellings of keys: prefixes, validation, derivation, generated pairs | |
| `DataService` | concurrent requests of the data service over the abstract store | `EphemeralStore`, `Documents`, `KeyPairs` |
| `DataServiceProofs` | which spellings of keys lead to which document; inductive invariant and theorems of `DataService` | `DataService`, `DocumentsProofs` |
| `Server` | every HTTP route and MCP tool over one data service, with answers and both statistics | `DataService` |
| `ServerProofs` | `Server` runs `DataService`; inductive invariant and theorems of `Server` | `Server`, `DataServiceProofs` |
| `Stats` | `stats.go` with Go's slice semantics | |
| `StatsProofs` | lemmas on sums and slices, inductive invariant and theorems of `Stats` | `Stats` |
| `Middleware` | the chain, limiters and token buckets, both counts of a limited request | |
| `MiddlewareProofs` | inductive invariants and theorems of `Middleware`, the rate limits over every period of time among them | `Middleware` |
| `Viewer` | the viewer page in the tabs of a browser, with its calls to the server | |
| `ViewerProofs` | inductive invariant and theorems of `Viewer` | `Viewer` |
| `MC*` | small instances for TLC | the module of that name |

`DataService` is a client of the *abstract* store. What TLC shows about it
carries over to the real storage component because `Storage` implements
`EphemeralStore` (run `storage_refinement`, theorem `Refinement`). `Server`
takes `DataService` whole (EXTENDS): a handler's `Accept` is the service's
`Arrive`, the steps of the service go on below it, and theorem `ServerRuns` says
that no step of a handler is anything else to the service.

A definition marked `\* Not the code` is a plausible mistake, standing before
the definition it could have been: substituted for it, the property named in
`mutants` of `PROJECT.json` fails. Nothing in the specifications uses them.

### How state and actions correspond to the code

*Storage.* A call is a record in `args`; `pc` is where its caller stands in
`updateWithContext`, `viewWithContext` or `CheckHealth` (`load` before the flag
is read, `check` before `ctx.Err()`, `select` in the select, `view` in the
health check's transaction), `txn` where the background goroutine is (`started`,
`ran` once fn has returned and only the commit is left, `sending` before it
writes to `done`, `exited`). The three branches of the select are `ReceiveDone`,
`CtxWins` and `TimerWins`; Go picks any that is ready, so does `Next`. A document
is identified with the call that stored it: `db[k]` is the call that wrote the
key last and the time its entry has left. `got` is the captured variable a read
assigns. `before` is history: the calls that had returned when a call was
invoked.

*DataService.* A request is one goroutine; its one or two storage calls are the
calls `<<r, "get">>` and `<<r, "put">>` of the store. The value of a parameter is
the request that wrote it, so a document tells whose data it holds; it stands for
the value as the service is given it, after HTTP's escaping. The key of a
request is a string of `KeyPairs`; its `route` says which handler or tool made
it, and with that whether the timestamps of HTTP are added (`Params`).

*KeyPairs.* A string is the sequence of its parts, `u_` and `d_` being parts of
their own, so that adding and trimming prefixes is what it is in Go. The hash of
a string is the string after a part `Hashed`: injective, and never a prefix.

*Server.* `at` is where a handler is: `handling` while the service works,
`counted` once `StatsInstance` was called, `done` once the client has its answer.
`status` is what the client is told. Counting and answering are separate steps
because other requests, the page of statistics and the end of the process come
between them. `current` is history: the requests of this process.

*Viewer.* Each function of the page runs without interruption to its next
`await`, so one action is what stands between two of them: sending a call
(`AddDownloadKey`, `Poll`, `ClearKeyData`...), the server's answer (`AnswerGet`,
external), and what follows the `await` (`FetchKeyData`, `DataCleared`,
`KeyDerived`...). The data of a key on the server is a counter of its changes,
odd when there is a document; an entry holds the number it shows. `knew` is
history: what the entry showed when its call was sent. A call whose entry was
removed is *detached*: it writes to an object nobody shows, and saves the list.

*Documents.* A string is the sequence of its parts between slashes, a document a
function from node (the sequence of keys that leads there) to a value or to
`Map`. Splitting and joining at slashes are then what they are in Go, including
keys that contain slashes, empty keys and trailing slashes. What
`html.EscapeString` does to a value is the table `Escaped`; `CollectParams` looks
up in it every value of an HTTP request, and of a tool call none.

*Stats.* Each method is one step, as it holds the mutex throughout. A slice is
the array it points into and a length; `append` writes in place or moves to an
array of twice the capacity, so that what a reader still holds is shared with
the writer, or no longer.

*Middleware.* One action per step that can be interleaved: each middleware,
`getLimiter` under the map's mutex, `Allow` under the limiter's, and the two
updates of the statistics. The token bucket is external (`x/time/rate`): full
when made, `RateLimitBurst` at most, refilled once per tick, here a second.

## 3. What the runs show

| run | shows | bounds |
|---|---|---|
| `storage_safety` | `LastWriteStands`, `ReadsAreFresh`, `OnlyCancelledComeBack` | 3 calls, 1 key |
| `storage_refinement` | `ImplementsEphemeralStore`, `NoRefusedWrite`, `BreakerStopsAccumulation`, `TimeOnlyRunsOut`, `EveryCallReturns`, `EntriesExpire`, `GoroutinesExit` | 2 calls of any operation, 1 key, time to live 1, operator resets |
| `documents` | `PatchIsLocal`, `PatchIsReadable`, `PlainValuesAreListed` | 3 requests, 5 paths, 6 kinds of parameters, 2 values, one of which HTTP escapes |
| `service_overlap` | `LossNeedsOverlap`, `ResurrectionNeedsOverlap` | 3 requests of any operation, on a field at the root and one below a path |
| `server` | `UploadsWereStored`, `ErrorsMatchAnswers`, `AckedFieldIsServed` | 2 requests of every handler and tool, one key pair in its spellings |
| `stats` | `HitsAreAttributed`, `ViewsNeverLoseHits`, `ReportsAreRecent` | 4 addresses, 5 hits, hours of 3 ticks, window of 2 hours, 8 ticks |
| `middleware` | `NeverOverTheLimit`, `LimitedOnlyOverTheLimit`, `HitsAreErrors`, `AnswersAreCounted` | 4 requests of 8 kinds, burst 2, 2 ticks |
| `viewer` | `NoKeyTwice`, `OneTabLosesNothing`, `OnlyOvertakenCallsGoBack`, `ViewCatchesUp`, `WatchedKeysAreStored` | 2 tabs, 1 key, 2 calls under way, versions up to one upload and what deletions add |

Each component's `TypeOK` is checked with them, that of `Storage` in the first.

Why the bounds are enough. Calls and requests of different keys share nothing
but the breaker, so one key carries the races; that nothing depends on there
being one is what the theorems of section 4 add. A lost update, a late commit or a fresh read relates two writers and an
observer: three calls. Resurrection relates a writer, a deletion and a patch:
three requests. Three document requests are enough to build a two-level
document, to run a path through one of its values and to look at what is left.
The list of addresses moves at the first, second and third append (capacity 1,
2, 4) and is written in place at the fourth, which is the case that differs. The
clock runs past the window, so buckets are dropped inside and outside it. A
third request in a burst of two is limited; a fourth one is from another address
or after a refill. What the server promises relates a write to one later or
concurrent request, a read or another write; two requests of every kind under
every spelling are all such pairs, and `service_overlap` has the third request
that overlapping needs. (The case of `AckedFieldIsServed` in which a third
request writes in between does not come up with two; theorem `AckedFieldServed`
covers it.) In the viewer a call can be overtaken by one other call,
of the same or of the other tab; entries of different keys share only the list
that is saved, and `OneTabLosesNothing` and `WatchedKeysAreStored` turn on one
key being in it or not.

`CHECK_DEADLOCK FALSE` stands in every configuration but the viewer's: each
instance serves a fixed number of calls and then rightly stops.

Symmetry is used for calls, requests and addresses in the runs that check safety
only; `storage_refinement` and `viewer` check liveness and have none.

### Fairness

`LiveSpec` assumes what the Go runtime and its timers give whatever Badger does:
a caller that can take a step takes one (which includes the write timer in the
select), the deadline of a read ends its context, and time passes. It assumes
nothing about Badger, about clients giving up, nor that anybody calls
`ResetDegraded`. `GoroutinesExit` assumes in addition that every transaction is
answered (`DatabaseAnswers`) and says so in its statement.

The viewer's `Fairness` has three parts. Every call that was sent is answered, by
an error if need be, and its promise is handled: the browser's event loop and
network time-outs (weak fairness of each call). The timer of an open tab fires
for ever (viewer.html:996); since the model bounds the calls under way, a tick
may find no slot free, which is the bound's doing, so this is strong fairness.
And not every fetch of a key fails for ever (strong fairness of `AnswerGet`);
nothing could catch up otherwise. Users and devices need never do anything.

### Where code and documents disagree

Four runs end in a counterexample, each to a sentence of the repository:

* `orphans_of_cancelled_writes`: a write whose *client* gives up leaves its
  goroutine behind without opening the breaker, whose purpose storage.go:68-69
  gives as preventing that accumulation.
* `lost_update`: two overlapping patches of different fields, both acknowledged,
  of which one is lost (tools.go:32). The property asks only for what it can: that
  no patch has found the document expired, that none writes where another needs
  a map, and that the document can be read now. Expiry is thus no way to violate
  it; patches one after the other keep it. `LossNeedsOverlap` is the positive
  side.
* `trailing_slash`: the patch URLs the README shows end in a slash and store one
  level deeper than it shows.
* `answered_urls`: the URLs answered for a patch below a path leave out the path
  (uploadHandler.go:61) and lead to nothing, where README.TechDetails.md:74-77
  shows them as the addresses the parameters are read at.
  (scripts/test-local-mcp-with-copilot.ps1:129 expects "path reflected in
  parameter_urls" of the patch tool, whose answer has no URLs: tools.go:163-168.)

Others were met while modelling and are told here only. A cancelled upload may commit
over a later, acknowledged one (tools.go:28, "REPLACES any existing data";
`OnlyCancelledComeBack` shows that nothing but a cancelled call does). A patch that overlaps
with a deletion brings the data back (tools.go:40, "permanently removes";
`ResurrectionNeedsOverlap` shows it takes the overlap). A patch renews the time
to live of the whole document (main.go:66). The breaker never closes without a
restart, as nothing calls `ResetDegraded` (storage.go:23-24, "temporarily").
The health check waits for the database without a timeout (storage.go:316). A
patch whose path runs through a value removes that value (README.md:244,
"preserves existing data"). The download page lists values under empty keys or keys with slashes by links that lead nowhere or
to another value (downloadHandler.go:195;
README.TechDetails.md:161, "all available fields with links";
`PlainValuesAreListed` shows that all others lead to their value). A value with
`<`, `>`, `&` or quotes in it is read back escaped when it came over HTTP, and
escaped once more if it is sent there again, while a tool stores it as it is
(utils.go:9-12, 23; `PatchIsReadable` has both). A returned statistics report goes
on changing (stats.go:1; `ViewsNeverLoseHits` bounds how), and its last 24 hours
may be as few as 23 (stats.go:5-6; `ReportsAreRecent`). An upload key in capital
letters validates and addresses a document of its own (domain.go:57, 65;
`OneDocumentPerKey`). A storage timeout is answered 400 to an upload and 404 to a
download, like a bad key (uploadHandler.go:44, downloadHandler.go:30), and the
viewer shows such a download as "no data" (viewer.html:962). The viewer compares
keys without their prefix when one is added, but as they are spelled when a pair
is created or an export imported (viewer.html:764, 801, 1164). It may for a
while show older values than before (viewer.html:560, "the latest values";
`OnlyOvertakenCallsGoBack` says when, `ViewCatchesUp` that it ends). The handler
for unknown paths is never reached, as the file server takes every path
(main.go:234, 240).

## 4. What is proved

Every invariant and every action property that a passing run checks is also a
theorem, checked by `tlapm` for every value of the constants:

| component | theorems (and the property each states) |
|---|---|
| storage | `TypeCorrect` (`TypeOK`), `WritesStand` (`LastWriteStands`), `FreshReads` (`ReadsAreFresh`), `RefusedNeverStored` (`NoRefusedWrite`), `OnlyCancelledReturn` (`OnlyCancelledComeBack`), `BreakerHolds` (`BreakerStopsAccumulation`), `TimeRunsOut` (`TimeOnlyRunsOut`), `Refinement` (`ImplementsEphemeralStore`) |
| documents | `DocumentIsTree`, `TypeCorrect` (`TypeOK`), `PatchesAreLocal` (`PatchIsLocal`), `PatchesAreReadable` (`PatchIsReadable`), `PlainValuesListed` (`PlainValuesAreListed`) |
| keys | `GeneratedPairsWork` (both keys of a pair, with their prefixes or without, lead to one document), `OneDocumentPerKey` (two upload keys lead to one document exactly when they differ in nothing but the prefix) |
| data service | `ServiceInvariant`, `TypeCorrect` (`TypeOK`), `LossOnlyByOverlap` (`LossNeedsOverlap`), `ResurrectionOnlyByOverlap` (`ResurrectionNeedsOverlap`) |
| server | `ServerRuns`, `ServerTypeCorrect` (`ServerTypeOK`), `UploadsStored` (`UploadsWereStored`), `ErrorsCounted` (`ErrorsMatchAnswers`), `AckedFieldServed` (`AckedFieldIsServed`) |
| statistics | `TypeCorrect` (`TypeOK`), `HitsAttributed` (`HitsAreAttributed`), `ViewsKeepHits` (`ViewsNeverLoseHits`), `ReportsRecent` (`ReportsAreRecent`) |
| middleware | `OneLimiterPerAddress` (`TypeOK`), `AnswersCounted` (`AnswersAreCounted`), `HitsCountedAsErrors` (`HitsAreErrors`), `LimitIsKept` (`NeverOverTheLimit`), `LimitIsDeserved` (`LimitedOnlyOverTheLimit`) |
| viewer | `TypeCorrect` (`TypeOK`), `NoKeyIsListedTwice` (`NoKeyTwice`), `OneTabKeepsAll` (`OneTabLosesNothing`), `OvertakenCallsOnly` (`OnlyOvertakenCallsGoBack`) |

The bounds that stand in guards (`MaxRequests`, `MaxVersion`, `MaxEvents`...) are
constants of the theorems like any other: they hold for every bound.

### Assumptions

TLC evaluates each of them on the runs of its module.

* `StorageAssumption`: nobody's call is `NoCall`, the operations are those of the
  interface, the time to live is a natural number.
* `KeyPairsAssumption`: keys are not empty and do not begin with a prefix,
  hexadecimal strings are their own lower case.
* `DocumentHistoryAssumption`: strings have at least one part between slashes, a
  request has finitely many parameters, every value has an entry in the table of
  escapes.
* `DataServiceAssumption`: a request is one of the service's operations, an
  upload has no path; requests, which are the values of their parameters here,
  are neither `Map` nor a time stamp.
* `ServerAssumption`: finitely many requests, as they are counted; a route leads
  to the operation its handler calls.
* `StatsAssumption`: hours and the window are not empty, bounds are natural
  numbers.
* `MiddlewareAssumption`: finitely many requests, as they are counted; the empty
  string is no address, "none" is no request, rates are natural numbers.
* `ViewerAssumption`: finitely many keys, none of which is `NoKey`.

### The arguments

*Storage.* `LastWriteStands` speaks of acknowledged writes and is
not inductive: nothing in it says what a transaction that is still running may
do. `SafetyInv` adds that a caller with a definite answer has no transaction in
flight (`ControlInv`), that histories hold returned calls only (`HistoryInv`),
and states the property from the commit on instead of from the answer
(`WriteInv`; `ReadInv` for reads from the moment the transaction has read). A
write that commits is in flight, hence known to be over by nobody, hence may
take over any entry. `OwnerInv` says that whoever owns an entry has committed.
`Frame` collects what no step undoes, so that these invariants are proved from
it and from the commit alone instead of action by action.

For the breaker (`BreakerInv`): a returned call is *settled* (not
in flight, or cancelled) or the breaker is open; hence whatever had returned when
a write passed the breaker is settled, and settled calls do not commit unless
they were cancelled. `BreakerStopsAccumulation` needs no more than that a caller
with a transaction is past the flag (`ControlInv`): while the flag stays set no
action lets a call in. `TimeOnlyRunsOut` rests on `OwnerInv`: the commit is the
one step that moves an entry's time from the transaction to the database, and
before it the call owns nothing there.

For the refinement: a step of `Storage` changes the abstract state
of one call, so every action is compared with one abstract action of the same
call or with a stutter (`LocalTo`). Beyond `SafetyInv` this takes `ArgsInv`: a
call has no arguments until it is invoked, and only `Store` gives an entry time
to live, so a `Commit` is an `ApplyWrite` with the lifetime the abstract store
allows.

*Documents.* `Tree` says of a document that whatever is above one of its nodes is
a `Map` and in it. Opening the maps of a path one by one (`EnsureMap`) and
putting parameters below it (`Put`, `PutAll`) keep a tree, and what they change
is read off by node: a node of the result is an old one, one on the path, or one
just written, and an old one is gone only if it lies strictly below a node that
was written (`Opened`, `IsPatch`). Every
property of a patch follows from `IsPatch` alone, and from what a handler makes of
the parameters before (`ReceivedParamsNodes`: escaped values and times). The
listing: `Split` takes `PathOf` of a plain node apart again, one node at a time,
so that nothing has to be assumed of the rest of the document.

*Data service.* The invariant is about documents that are stored or on their way
(`Stored`), where the properties are about what somebody sees. `BasicInv` relates
a request's place to what its two calls of the store have come to. `NeverOlder`: an
entry, and what a read has found, was not overwritten before by a request that
was over. `DocumentsOK`: a stored document is the patch (`IsPatch`) of what its
request read. From these `NoLoss`: whatever an acknowledged write stored is in
every document stored by a request that was not over before it, or a removal
explains why not. An explanation, once there, stays: `Removes` is decided by
what was over before and by what was read, which no later step changes. The step that matters
is the one in which a patch has read and
stores: what it read was stored by a request with an explanation of its own, or it
read before the write took effect, and then it overlaps. `NoResurrection` is the
same argument for values of a request that was over before a deletion.

*Server.* Each step is a step of the service or leaves it alone
(`ServerRunsService`), hence `IInv` of the service holds; `HandlerOK` says which
statuses a handler may have where it is, and `CountsMatch` that each counter is
the cardinality of the set of requests that went into it, which a step changes
for one request at a time. `AckedFieldIsServed` combines the invariant of the
service (the document read holds the field, or an explanation) with the two
directions of a path: a field name the client can spell leads to the node that
was written.

*Statistics.* `ListHolds` says of a slice, wherever its array is: its entries have
different addresses and sum up to the hits. A reader's slice points into an array that
only grows and whose entries only rise (`Grew`), whether the server still writes
to it or has moved on. `BucketsOK`: a bucket is the sum of the events of its
hour, and an hour with events has its bucket or is older than the window; a
report is then the sum over the hours within.

*Middleware.* `ChainInv`: an address without a limiter has
no request with one, so the limiter made for it is the first and only one; and
at each place of the chain it is known which of the two counts has been made.
The rates (`RateInv`): for each limiter and each start of a
period, what was let through since then and the tokens left are together at most
the burst and the refill (`BucketInv`), which a refill preserves because it adds
at most the rate and an admission because it turns a token into a request; and
for some start, the last time the bucket was full, they are at least that much.
The first bound gives `NeverOverTheLimit`, the second with an empty bucket
`LimitedOnlyOverTheLimit`. A limiter belongs to an address whose request made it
(`MakerInv`), and a request is judged no later than now (`TimeInv`).

*Viewer.* `ListsOK`: no list has a key twice or shows what the server has not had.
An addition looks for its key and appends it in one piece, after the `await` of a
derivation if there is one, which is why overlapping additions do no harm. `AloneOK` is `OneTabLosesNothing` strengthened to
the list of the tab itself, which is what the next save writes. `CallsOK`: an
answer found nothing older than what its entry showed when the call was sent, as
the server never goes back; so an entry goes back only by an answer whose call
was sent before the entry came to show what it shows now.

### Recursion and sums

The recursive functions (in `MergeDataAtPath`, `PathOf`, `Imported` and `Without`) and
the sums (`SumFunctionOnSet`) are CHOOSEn by their equations, so what they compute
is proved in two steps: a function that satisfies the equations exists
(`OpeningExists`, `PathExists`), and what it computes follows by induction. The
induction is over a *set* of numbers or of subsets (`NatInductionOnSets`,
`SubsetInduction`) and rests on the library's well-foundedness of the natural
numbers (`WFMin`); it is stated in the three modules that need it, as none of them
extends another.

### Only model-checked

Liveness, as neither fairness nor ENABLED is within the prover's reach:
`EveryCallReturns`, `EntriesExpire`, `GoroutinesExit`, `ViewCatchesUp` and
`WatchedKeysAreStored`. The four runs that expect a violation need no proof:
their counterexamples are behaviours of the instances.

## 5. What is not modelled

Taken on trust about Badger: a transaction reads or commits at one instant, an
error changes nothing, what was committed is there after a restart of the
process (not of the machine), and expired entries are invisible. Value log GC,
`Close`, disk space figures and opening the database change nothing a call can
see. Documents are maps of strings: JSON encoding of what the program stores
itself is faithful both ways. Of a repeated HTTP parameter only the first value is
used (utils.go:22-23), so a request has one value for each key. `Escaped` is any
table: that it is HTML's, and that two values may have the same escaped form, is
not used. Outside `DocumentHistory` values are the requests that sent them, and
escaping does not show. `Content-Length` is all the size limit looks at.
HTML, templates, bodies, flags, logging, the health and start pages, static files
and TLS are I/O without state. MCP sessions, their idle timeout (server.go:15)
and the framing of JSON-RPC belong to the MCP library. What the middleware turns
away does not reach `Server`, which therefore counts handlers' errors only;
`Middleware` counts its own. SHA-256 is taken to be injective. A cancelled read
races with its background goroutine for the captured variable
(storage.go:255), whose value every caller ignores once there is an error.

Of the viewer, names, rendering, the spelling of keys and the storage of the
poll interval are left out, and any entry may be cleared, whereas the page asks
for an upload key first: the model allows more. A failing `localStorage` is not
modelled.

## 6. Plan

Done: all modules of section 2; every invariant and action property of a passing
run is a theorem.

Next to prove: that `Server`'s `Spec`, carried over the abstract store, is met by
the composition with `Storage` itself instead of through the two separate
theorems; for `Viewer`, how far two tabs can diverge (what
`OneTabLosesNothing` becomes without `alone`); safety lemmas from which the liveness
properties would follow (that a call which is past the flag has a step to take).
