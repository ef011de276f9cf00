# A formal model of the QEaaS auth server and its device client

QEaaS serves quantum entropy to enrolled devices.  An auth server (Rust, axum,
tokio) verifies signed requests, refuses replays, draws bytes from one of three
entropy sources and answers with a sealed, signed response.  A device command
line enrols a device, keeps its credentials in a file and asks for entropy.  A
benchmark client drives the server under load.

This directory holds TLA+ specifications of the parts whose correctness depends
on the order of events, the TLC configurations that check them on small
instances, and TLAPS proofs of the results that hold for every instance.

Line numbers below refer to `src/auth_server/src/` unless another path is given.

## 1. Inventory

### Auth server

| part | state | operations |
|---|---|---|
| device table (`state.rs`) | `RwLock<HashMap>`: device id to KEM and signature key | `enroll` replaces an entry; `request_entropy` copies one; `list_devices` reads |
| nonce cache (`state.rs`) | `RwLock<HashMap>`: device id to (nonce to expiry) | `check_and_insert`, `cleanup` |
| sweeper (`main.rs:30`) | none of its own | every 30 s calls `cleanup` |
| entropy source `direct_qrng` (`entropy.rs`) | none | one fetch per request |
| entropy source `hybrid_csprng` | generator and byte count behind one mutex | `bytes_with_stats`: check, reseed, draw |
| entropy source `parallel_hybrid` | per shard a generator behind a mutex, an atomic byte count, an atomic flag `reseed_in_progress`; a shared cursor | `bytes_with_stats`, `try_reseed_parallel_shard` |
| handlers (`api.rs`) | their local variables, among them a copy of the device's keys | `enroll`, `request_entropy`, `entropy_raw`, `list_devices`, `health` |
| cryptography (`pq.rs`, `crypto.rs`) | the server's key pairs, new at every start | sign, verify, encapsulate, HKDF, ChaCha20-Poly1305 |
| transcripts (`api.rs:18-77`) | none | the bytes that are signed and sealed; built again in `client_iot/src/pq.rs` and `benchmark_client/src/message.rs` |
| configuration (`config.rs`) | none that changes | environment variables with several names each; decide mode, sizes and whether the server starts |
| stage timing, logs | none | printed |

Handlers run concurrently on the tokio scheduler and share the device table, the
nonce cache and the entropy source.  The order in `request_entropy` is: size
limit, copy of the keys under the read lock, decoding, signature, nonce,
entropy, sealing, signing.  Hyper drops the handler of a client that
disconnects, at the `await` it has reached.  All state is in memory: a restart
loses it, and the server's keys change.

### Device client (`src/client_iot/src/`)

State: `device_state/<name>.json`, with the key pairs of the device and, after an
enrolment, the server's keys.  `enroll` posts the saved pair, or makes, saves and
posts a new one; `re-enroll` (and `run_once`) always makes a new one; both then
read the file again and write the server's answer into it.  `request` needs the
server's key in the file and verifies the answer with it.  `fs::write` truncates
before it writes; nothing locks the file, and device ids that differ only in
unsafe characters have one file.

### Benchmark client (`src/benchmark_client/src/`)

`enroll` makes, posts and appends the credentials of a number of devices to
`users.jsonl`, in two writes each.  `loadtest` reads the file, runs workers up to a deadline and
reports counts and percentiles; `matrix` repeats it for each cell.  `security-check`
enrols a device of its own and posts ten requests, each with the status it expects:
an unknown device, altered fields, replays, a bad encoding, too large a size.

### QRNG service

External; the repository sees it through `fetch_entropy_bytes`, which yields the
requested bytes or an error (bad status, bad JSON, wrong length, timeout after
5 s).

### What is hard, and what makes each part correct

| part | hard behaviour | correct when |
|---|---|---|
| nonce cache | callers and sweeper read the clock before they wait for the lock; live entries are evicted at the cap; restart; dropped callers | no reuse inside a window unless the cap was overrun or the server restarted; no refusal of a fresh nonce; at most the cap; expired entries go |
| `hybrid_csprng` | three separate holds of the mutex; failed, late and repeated reseeds; dropped requests | a bounded number of bytes per seed; no bytes from a generator found exhausted; every request ends; reseeding goes on |
| `parallel_hybrid` | counters and flags outside the lock; a flag that a dropped handler leaves raised | one reseeder per shard; bytes are counted; every request is served, also when a reseed fails; every shard is reseeded |
| handlers | a re-enrolment, a sweep, another request or a restart between any two steps; errors after the nonce was spent | nothing spent by an unsigned request; never the keys of two enrolments; the cache used as specified; every request ends |
| device client | kills between and inside steps, lost answers, late posts, server restarts, two commands at one file | the file never vouches for an enrolment that is not there; a posted pair is on disk; repeating `enroll` repairs |
| transcripts | zero bytes as separators, no lengths, three copies of the code | a signature is good for one request or answer only |
| bulk enrolment | runs that end between answer and append, or inside the append; late posts; restarts | what the server has enrolled is in the file unless a run ended in between; the file parses unless a run was cut |
| load test | workers past the deadline, stale credentials, few samples | it ends; little is counted late; current credentials are accepted; percentiles are in order and close |
| security check | a slow or failing source, a closed window, a restart, any configuration | every answer is as expected or has a named reason |

`PROJECT.json` lists every hazard with its line and the properties about it, also
those that nothing covers yet.

## 2. The modules

| module | models | remarks |
|---|---|---|
| `ReplayWindow` | what the nonce cache promises | abstract specification |
| `NonceCache` | `NonceCache` in `state.rs`, sweeper in `main.rs` | implements `ReplayWindow` |
| `NonceCacheProofs` | | theorems about `NonceCache` |
| `EntropyHybrid` | `hybrid_csprng` in `entropy.rs` | |
| `EntropyHybridProofs` | | theorems about `EntropyHybrid` |
| `EntropyPool` | `parallel_hybrid` in `entropy.rs` | |
| `EntropyPoolProofs` | | theorems about `EntropyPool` |
| `AuthServer` | handlers in `api.rs` over the device table and the cache | contains an instance `NC` of `NonceCache`, and implements its specification |
| `AuthServerProofs` | | theorems about `AuthServer`, with those of `NonceCacheProofs` |
| `DeviceClient` | `main.rs`, `storage.rs`, `client.rs`, `lib.rs` of `client_iot`, with the `enroll` of the server | |
| `DeviceClientProofs` | | theorems about `DeviceClient` |
| `BulkEnrol` | `enroll.rs`, `storage.rs` of `benchmark_client`, with the table of the server | |
| `Benchmark` | `loadtest.rs` of `benchmark_client` | extends `BulkEnrol`: a load test over the file |
| `Percentile` | `percentile` in `loadtest.rs` | with the reference definitions it is checked against |
| `BenchmarkProofs` | | theorems about `BulkEnrol`, `Benchmark` and `Percentile` |
| `Transcripts` | the builders in `api.rs`, `pq.rs`, `message.rs`, and the acceptance in `client.rs` | sequences of bytes |
| `TranscriptsProofs` | | the framing is injective |
| `ServerConfig` | `config.rs`, `EntropyMode::from_str`, the start of `AppState::new` | |
| `SecurityCheck` | `security.rs` of `benchmark_client` | composes `AuthServer`, `Transcripts` and `ServerConfig` |
| `SecurityCheckProofs` | | theorems about `SecurityCheck`, with those of `AuthServerProofs` and `TranscriptsProofs` |
| `MCNonceCache`, `MCEntropyPool`, `MCAuthServer`, `MCDeviceClient`, `MCBenchmark`, `MCSecurityCheck` | instances for TLC: symmetry sets, small input sets | |

A definition introduced by a comment `Variant:` is a plausible defect of the
definition below it.  The specifications do not use it; `PROJECT.json` says which
property each one breaks, which is how we know that the property bites.

### NonceCache

`cache[d][x]` is the expiry of nonce `x` of device `d`, or `Absent`.  A caller reads the
clock (`Call`, the first line of `check_and_insert`) and later gets the lock (`Accept`
or `Reject`); between the two it may be dropped (`Abandon`).  `SweepTick` and
`SweepRun` do the same for `cleanup`.  What happens under the lock is one action.
`Survivors` is the eviction: nothing below the cap, else the expired entries,
else entries in any order, the order of a `HashMap`.  `Restart` empties everything.

Lock holders come in any order.  tokio's lock is first come first served, but a thread may be
preempted between the clock and the queue, so stamps can be served out of order.

Two history variables serve the properties only: `last` is the end of the window
of the latest acceptance, `excused` tells whether the cap was overrun or the
process restarted since.  Nonces are compared as base64 strings in the code and
as identities here; the decoder accepts one spelling of a byte string only, so
the two agree.

### EntropyHybrid

`task[t].pc` is where a request stands: `check`, `fetch`, then `install` or
`fail`, then `fill`.  Every position waits for the mutex or for the QRNG, so a
request may be dropped at each.  `bytesSince` is `bytes_served_since_reseed`.  The
history variable `stale` holds the requests that found the threshold reached and have seen no
new generator since.  The counters that are only reported are left out.

### EntropyPool

Each access to an atomic is an action: `Pick` (the cursor), `Check` (load of the
byte count), `Cas` (the flag), `FetchOk` and `FetchFail`, `Install` (mutex), `Zero` and
`Clear` (stores), `Fill` (mutex), `Add` (fetch-add).  A request is dropped only where
it awaits: `fetch`, `install`, `fill`.  The orderings in the code are relaxed for
the counters; each counter is one location, whose modifications have one order,
and no step relies on the order of two locations except the flag, which is
acquire/release.  The byte count stops at the threshold and the history
`drawn` one above its bound: nothing tells larger values apart.

### AuthServer

A handler is a task with the request and its copy of the keys.  The steps between
two accesses to shared state are one action: `Receive`, `Lookup`, `Verify`
(decoding, signature and the stamp of the nonce check), `NonceFresh` or
`NonceReplayed`, `EntropyErr` or `EntropyOk` (with sealing and signing).  `Enrol`,
`Disconnect`, the sweeper and `Restart` run between them.  Statuses are those of the code: 400
for what is too large, does not decode, or has a KEM key of a wrong length; 401
for an unknown device or a signature that does not verify; 409 for a replay; 502
for the source; 500 for the crypto library; 200.

Cryptography is symbolic.  A request names the pair whose signature of exactly
this device, `n` and nonce it carries, or nobody.  An answer names the key that
opens it and the key its request was checked with.

The source is seen through its answer, as the two entropy modules allow it: it
may succeed or fail.

### DeviceClient

Key pairs and server processes are numbered.  `file` maps each file name to
nothing, an empty file (truncated), a garbled one, or a record with a device id, a pair and
the number of the server whose key it holds.  `FileOf` is the name of the file of a
command, `SafeStateName` of its device id.  A command (`proc`) opens a file (`Open` truncates) and
writes it (`Write`); where two commands are between the two at one file, the
records overlay and the file is garbled.  `Generate` makes a pair, `Enrolled`,
`AnswerLost` and `PostLost` are the exchange, `Save` reads the file again and goes on to
write it.  `Kill` ends a command anywhere.  A post whose command has ended may reach
the server later (`OrphanArrives`) or never.

`hurt` remembers the files where two enrolling commands met, or one was killed as
it wrote, until an enrolling command has run alone to its end.

### BulkEnrol and Benchmark

A line of the users file is the sequence of pieces written to it: a record and its newline are two
writes, so a run that ends between them leaves a line to which the next run
appends.  `Break` ends a run at any point; what it posted has arrived, arrives
later, or never does.  `table` is the server's; a restart empties it.  A load test starts
when no enrolment runs (README.md:326) and reads every line; worker `w` uses line
`w % len`.  `origin` remembers how the file and the server process relate: filled by one run
(`clean`), used before a restart (`stale`), and used once more after it (`reenrolled`).  Between two looks at the deadline a worker sends one request and
waits for its answer.  What the server answers follows from the pair in its table;
replays, sizes, QRNG failures and broken connections are answers that may always
come.  `matrix` is `StartTest` again and again; the code reads the file once for all
cells, which is the same as long as nothing is enrolled in between.  Latencies are those of every
request that was sent, refused and failed ones included, as the code has them.

### Transcripts, ServerConfig and SecurityCheck

A transcript is a sequence of bytes; `LE` is the encoding of `n`, of which only its
fixed width and its injectivity matter.  `Accepts` is what the device compares and verifies
before it takes an answer; decapsulation and decryption, which can only
refuse more, are left out.  The comment at `client_iot/src/pq.rs:153` leaves the AEAD
nonce out of the transcript; the code has it, and the variant `RespTbsShort` is the
comment's reading.

`Settings` resolves an environment to the settings: the first name that is set
decides, and if its value does not parse the default holds, whatever the other names say.
`Starts` tells which settings `AppState::new` accepts.

`SecurityCheck` extends `AuthServer`, with one task: the check posts one request at
a time.  Whose signature a request carries is not stated but computed, by comparing
the bytes that were signed with the bytes the server verifies.  In `parallel_hybrid` the
source never fails (that mode serves from the old generator); in the other modes
it may.  A restart breaks the connection of a request in flight, which ends the
check with an error.

## 3. What the runs check

| run | bounds | shows |
|---|---|---|
| `NonceCacheSafety` | 1 device, 3 nonces, cap 2, 2 callers, ttl 2, clock to 4, 1 restart | cap, history, no early reuse, no false replay |
| `NonceCacheIdeal` | 2 devices, 2 nonces, cap 2, 2 callers, ttl 1, clock to 2 | refinement of `ReplayWindow`; expired entries are swept |
| `NonceCacheOverCap` | 1 device, 3 nonces, cap 2, 1 caller, ttl 2, clock to 3 | finding 1: a nonce accepted twice inside its ttl |
| `EntropyHybrid` | 3 requests of 0 to 2 bytes, threshold 3 | bounded stretch, fails closed, every request ends, reseeding goes on |
| `EntropyPool` | 2 requests of 0 or 1 byte, 2 shards, threshold 1, 1 disconnection | one reseeder, owner of the flag, bounded stretch; every request is served unless dropped; a shard is reseeded if nobody disconnects |
| `EntropyPoolDisconnect` | 2 requests, 1 shard, 1 disconnection | finding 2: the shard is never reseeded |
| `AuthServer` | 2 requests, 2 pairs, 3 enrolments, malformed requests, 2 nonces, cap 1, clock to 1, 1 restart | keys of one enrolment, current during the request; refused requests leave no trace; refinement of `NonceCache` |
| `DeviceClient` | 1 command at a time, 3 pairs, 2 server restarts, 2 kills | record and server agree, secrets on disk first, `enroll` repairs |
| `DeviceClientShared` | 2 commands at a time, 2 device ids with one file, 2 pairs, 1 restart, no kill | harm only where enrolling commands met |
| `Benchmark` | 2 devices, 4 pairs, 2 users files, 1 restart, 1 broken run, 2 workers, 3 requests | credentials kept, file readable, deadline, a file that was fresh and filled by one run is accepted, percentiles, the test ends |
| `BenchmarkReenrol` | 1 device, 2 pairs, 1 users file, 1 restart, 1 worker, 1 request | finding 3: refused with 401 after enrolling again in the same file |
| `SecurityCheck` | 10 requests, 72 environments of which 27 start, with 21 different settings; ttl 2, clock to 2, 1 restart | every verdict explained, no answer taken for another, every request and the check end |

Why the bounds are enough to be interesting:

* Three nonces against a cap of two reach eviction of live entries; a clock that runs
  to twice the ttl lets a window close and the same nonce open another; two
  callers are what it takes to be overtaken while waiting for a lock, and the
  sweeper is a third contender.
* Two devices in `NonceCacheIdeal` would show one device's entries disturbing the
  other's.  The cap is not reached there, which is the assumption of that result.
* A threshold of three against requests of up to two bytes makes requests that reach
  it, overrun it, and stay below; three requests overlap in all three phases of a reseed.
* Two shards make the cursor wrap; two requests meet on one shard and on different
  ones.
* Two pairs let an enrolment replace the keys of a request at any of its steps, in both
  directions; a third enrolment does not decode.  A cap of one makes the two nonces evict
  each other.  An enrolled key of a wrong length is left to the proofs, which hold for all
  enrolments: in this run it would triple the states.
* Two kills and two restarts spoil a repair once more after it has begun.
* Two pairs and two commands are enough for one command to lose its record to the
  other.  Kills are left to the run with one command: they would excuse everything.
* In `Benchmark` a device enrolled twice, a second file and a restart make the
  stale first lines that README.md:323 warns of.  Samples of up to three latencies
  cover the edges of the percentile index; where one request of the model stands for
  seven, twenty or forty distinct latencies the rounding of 95 and 99 percent shows.
* In `SecurityCheck` a clock that reaches the ttl lets a window close between a
  request and its replay.  The environments set the first two names of a setting,
  to good, zero and unparsable values.  Two of the sealed parts have the same bytes, cut
  at other places.

Deadlock is checked except in `DeviceClient`, `DeviceClientShared` and the two runs of `Benchmark`: with the
bounded number of pairs used up and the file unreadable, nothing can be done.

### Three findings

1. **A nonce is accepted twice inside its ttl once a device has used more nonces than the
   cap** (`state.rs:68`, run `NonceCacheOverCap`).  The name of the test at
   `state.rs:167`, the comment at `state.rs:49` and README.md:139 promise a refusal
   with no such condition.  What does hold is `ReuseOnlyAfterLapse`, whose excuse
   names the condition exactly.
2. **A client that disconnects during a reseed ends the reseeding of that shard**
   (`entropy.rs:398`, run `EntropyPoolDisconnect`).  Nothing lowers
   `reseed_in_progress` when the handler is dropped.  README.md:121 says that
   reseeding is preserved.  What does hold is `ReseededUnlessDropped`, and that
   requests go on being served (`PoolServesEveryRequest`).
3. **Enrolling again after a server restart is not enough when the users file is the same**
   (`storage.rs:13` of `benchmark_client`, run `BenchmarkReenrol`).  README.md:183 says "re-enroll devices or
   use a fresh users file"; but the file is appended to and every line is used, so the
   first workers sign with keys the server no longer has and get 401.  What does hold is
   the other alternative, which README.md:323 asks for (`CleanFileIsAccepted`): a file
   that was fresh and that one run has filled, with no restart since that run began and no
   late post of an earlier run, which would replace a key in the table.

## 4. Fairness

* The sweeper is spawned once and loops for ever: weak fairness of `SweepTick` and
  `SweepRun` (tokio's `RwLock` is fair, so it gets its lock).
* A handler that can take a step is polled, tokio's mutexes are fair, and a fetch ends
  with its 5 s timeout if with nothing else: weak fairness of each task's steps.
  No step of this kind assumes that the QRNG succeeds.
* Reseeding needs an environment: requests go on arriving, and are not all
  dropped at the same point, and the QRNG does not fail for ever.  This is
  `SteadyTraffic`, strong fairness where other outcomes compete with the one needed.  It is
  assumed only by the properties about reseeding (`ExhaustedIsReseeded`,
  `ReseededUnlessDropped`, and the violated `ShardIsReseeded`); that every request
  ends does not need it, although one specification carries both.
* `EnrollRepairs` assumes a user who keeps running `enroll` and a network that lets an
  enrolment through now and then; a command that can take a step takes it.
* A load test: time passes (the deadline comes) and a worker is polled; its request
  is answered or fails.  The client sets no timeout, so this rests on the server
  answering or the connection breaking (`EveryHandlerEnds`).
* The security check: weak fairness of the check and of the handler of its
  request.  The clock, the sweeper and restarts are not assumed to happen.

## 5. What is proved

The proofs use no instance: sets and numbers are arbitrary, under the named
assumptions of the modules (a positive ttl and cap, finite sets of nonces and of
requests, natural numbers for the rest).

**NonceCache.**  `Invariance` proves `TypeOK /\ CapBound /\ CacheMatchesHistory`
inductive.  The cap alone is not inductive without types; agreement with the
history needs that no stamp is from the future (in `TypeOK`), for a stale stamp
only ever removes what has expired by the real clock as well.  The heart is
`AcceptInv`: a live entry is evicted only when `Cap` others are live
(`SurvivorsKeepLive`), and live entries are windows of the history, so the device is
crowded and the loss is excused (`FullMeansCrowded`).  From it follow
`TypeCorrectness`, `CapIsBound`, `CacheIsHistory`, and the action properties
`ReuseNeedsLapse` and `RefusalsAreReplays`.  `Refinement` proves
`Spec => ImplementsReplayWindow` where the nonces number at most `Cap` and the
process does not restart: then nothing is ever excused
(`NothingExcusedInvariance`), so each `Accept` is an `Accept` of the ideal window
and every other step is a `Tick` or a stutter.

**EntropyHybrid.**  `StretchBounded` is not inductive: requests past the check add
their bytes later.  `StretchReserved` reserves `MaxN` for each of them.
`FreshAfterExhaustion` needs to know where stale requests are (`StaleIsReseeding`).
`Invariance` proves the conjunction inductive; `TypeCorrectness`,
`StretchIsBounded` and `FailsClosed` follow.

**EntropyPool.**  `Invariance` proves `TypeOK`, `OneReseeder`, `FlagHasOwner` and
`StretchInv`.  The first three are inductive together: the compare-exchange is the only step
that raises a flag.  The bound on a shard's generator is not, and what makes it so
depends on the phase of the shard, unless the shard is `loose` (a reseed failed,
or a request drew while one was under way):

* the flag is down and the count below the threshold: what was drawn is at most
  what is counted and what is on its way to be counted (`Counted`).  Bytes on
  their way are a set with one element per byte, because a sum over requests
  would need induction over data;
* the flag is down and the count has reached the threshold: only requests past the
  check draw, and the bound has `MaxN` reserved for each (`Reserved`);
* the flag is up: a draw makes the shard loose, and from the installation to the
  lowering of the flag nothing has been drawn from the new generator.

`EndIsServedOrDropped` is the safety half of `PoolServesEveryRequest`: a request ends only
with its bytes drawn or because its client disconnected.  That it ends at all needs fairness
and stays with TLC.

**AuthServer.**  `CacheRefinement` proves `Spec => ImplementsNonceCache`: that the cache
is called with known devices and nonces follows from what handlers carry (`Carried`).  The
theorems of `NonceCacheProofs` then hold in the server; the first use of them is
`CacheTyped`, which with `Tied` (a handler waits for the lock exactly when its call is
queued) gives `TypeCorrectness`.  `CurrentKeysServe` rests on `CopyWasCurrent`: while a
handler runs, the latest keys of its device and its copy of them were both current
since it started, so reading the table again is not needed, nor would it be right.
`OnlySignersSpend` rests on `SignedFirst`: a handler that waits for the cache has been
verified with a key enrolled since the start.  Its copy may be of an earlier enrolment, so the
history of enrolments, and not the table, is what the invariant speaks of.

**DeviceClient.**  Everything rests on a command that has met no other at its file: it is
alone there (`Meetings`), so what it has read or written is still in the file, and the
pair it enrolled is still in the server's table unless a post has strayed
(`UnmetIsAlone`).  With that, a record that holds the present server's key is in
agreement with the table (`Vouched`), and every accepted pair was saved first (`Saved`).
Pairs and server processes are numbered, and `Known` says that those spoken of
exist.  `Invariance` proves the conjunction inductive for any number of commands, on any
files; `TypeCorrectness`, `RecordVouches`, `SecretsFirst` and `UnreadableExplained`
follow.  `RefusalExplained` is the action property `RefusedOnlyAfterRestart`, under the
two conditions under which the run checks it: one command at a time, and ids that do not
share a file.  Without the first, the excuse for commands that met would have to be
part of the property.

**Benchmark.**  `Balanced` counts: what was begun is what was counted plus the workers
that wait for an answer, and after the deadline no worker begins.  From it follow
`LateRequestsBounded` and that the counters stay typed.  Sums over the outcomes are
written out, and sums over workers are cardinalities of sets.  `Whole` says that, unless a
run has been cut off, each line holds one record, the last one perhaps without its
newline; so `ReadableUnlessCut`.  `CredentialsAreKept` needs that pairs are new
(`Numbered`) and that the last record of a device can be found (`Found`): `LastPair` takes
maxima, which exist because the file is finite.  `CleanFileAccepted` needs that
the file of one run, and the contexts loaded from it, agree with the server's table
(`CleanFile`, `CleanContexts`) until something else changes either.

**Percentile.**  `IndexInSample`: the code indexes without a check, and stays inside the
sample.  `ReportSummarizes`: for any number of sorted latencies p50, p95, p99 and the
maximum are in order, p50 is a median, and each percentile covers its share but for
half a sample.  Both follow from what rounding is (`IndexIsRounded`) and from how many values lie
on either side of a rank (`SortedCounts`).  `ReportsSound` puts it in the load test.

**Transcripts.**  The framing has no lengths, so its injectivity needs that ids have no zero byte
(`ZeroSplit`: the first zero byte ends the id) and that `n`, nonces, ciphertexts and
AEAD nonces have fixed lengths (`FieldSplit`).  `ClientMsgIsInjective` and `SignedIsInjective`
follow.  That ids are free of zero bytes is an assumption: the clients make such ids, but
neither the server nor the device client looks.

**SecurityCheck.**  `SignatureCoversRequest`: a signature is good only for the id and
`n` it was made for, which is what `signer` means in `AuthServer`.  `AnswersGenuine` is
`CheckSpec => []AnswersAreGenuine`: the invariant is that what is posted is a request of the script
(`PostedInScript`), the rest is `SignedIsInjective`.  `CheckUsesServer` proves
`CheckSpec => Spec`: the server of the check is `AuthServer`, so its theorems hold here.
`VerdictsAreExplained` adds what ties the script to the server's state: only the own device is ever
enrolled (`OnlyOwn`), the handler gets as far as the request deserves (`Handled`), a
nonce is not in the cache before its first use is accepted (`Unspent`), and when it is
used again its window is on record or has closed (`Recorded`).  The last two need no
bound on the cap: between a first use and its reuse nothing else is inserted, and the
insertion that evicts never evicts itself.  The two assumptions about the inputs say that
the own id differs from the altered and the unregistered one, as the check builds them,
and that the requests of the script are among those `AuthServer` may receive.

**Only model-checked.**  Liveness, since the prover does not handle fairness:
`ExpiredEntriesSwept`, `EveryRequestEnds`, `ExhaustedIsReseeded`, `ReseededUnlessDropped`,
the first half of `PoolServesEveryRequest`, `EveryHandlerEnds`, `EnrollRepairs`, `LoadTestEnds` and
`CheckEnds`.  Every invariant and every action property that a passing run checks is also
proved; `RefusedOnlyAfterRestart` and `ImplementsReplayWindow` under the hypotheses
named above.  `StretchReserved`, the invariant behind `StretchBounded`, is only proved.

## 6. What is not modelled

* The mathematics of the cryptography, HTTP, JSON, base64 and the file system
  beyond truncate-then-write.
* Counters that are only reported, stage timing, logs.
* Read-only handlers (`list_devices`, `health`); `entropy_raw` is a caller of the source with
  no bound on `n`, which `MaxN` stands for.
* Overflow of 64-bit byte counts, which no run of the server reaches.
* A nonce cap of zero: the configuration is the constant 2048.
* Addresses in the configuration, the timing switch, and the two settings of the device
  client: they are passed on or printed.
* The report files of the benchmark, means and throughput: output.
* A network that fails between the security check and a server that goes on: to the
  check it is the same error as a restart.
* Which environment variable ought to win: `EnvAny` says which does, and no document
  says more (README.md names the first only).

## 7. Plan

Order of work, the most important behaviour first.  Done: 1 to 13.

1. `ReplayWindow` and `NonceCache`, with the refinement between them.
2. `NonceCacheProofs`.
3. `EntropyHybrid` and `EntropyHybridProofs`.
4. `EntropyPool`.
5. `AuthServer`, the composition of handlers and cache.
6. `DeviceClient`, with a second command and device ids that share a file.
7. `BulkEnrol`, `Benchmark`, `Percentile`.
8. `Transcripts`, `ServerConfig`, `SecurityCheck`.
9. `EntropyPoolProofs`.
10. `TranscriptsProofs`, `SecurityCheckProofs`: answers, then verdicts by way of 11.
11. `AuthServerProofs`: types, `SpentOnlyBySigner`, `ServedWithCurrentKeys`, and that the
    server implements `NonceCache`, by which the theorems of 2 hold in it.
12. `DeviceClientProofs`: the four invariants, and refusals with one command at a time.
13. `BenchmarkProofs`: the credential file, the load test and its report.
14. `EntropySource`, an abstract specification that both entropy modules implement and
    `AuthServer` uses.
