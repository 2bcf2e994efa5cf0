# TLA+ models of the onlyswaps verifier

This directory holds TLA+ models of `src/onlyswaps-verifier` (Go). It also
holds the TLC configurations that check them, and TLAPS proofs of the
safety invariants and refinements the runs check (section 5). `PROJECT.json` lists the components,
runs, mutants, source map, findings and hazards in machine-readable form.

## 1. The system

The verifier is one Go process with two jobs.

* **Startup** (`handlers.NewValidationHandler`, called from `server.NewServer`):
  for every chain id in `cfg.ChainIds`, `ChainMonitorClient.ListenForBridgeReceipt`
  does three things. It registers the `BridgeReceipt` event with the remote chain
  monitor (`RegisterEvent`) and opens a server stream (`StreamEvents`). Then it
  starts a **forwarding goroutine**, which loops `stream.Recv()` followed by a
  blocking `select` send into a buffered channel of capacity 100. On a `Recv`
  error the goroutine returns, and its deferred `close(eventChan)` runs. The
  first error aborts startup, and `main` exits with `log.Fatalf`.
* **HTTP handlers**, each request on its own goroutine:
  * `GET /v1/swap/latest` (`GetLatestReceipts`): for every chain, in map order,
    one non-blocking receive (`select` with `default`). The answer is 204 if
    nothing was received, else the JSON list.
  * `POST /v1/swap/validation` (`HandleValidationRequest`):
    1. decode the request, then check that the fields are present;
    2. `ValidateSwap`, which calls `GetHistoricalEvent` (a gRPC
       `GetHistoricalEvents` query on event UUID and data field 1) and returns
       true whenever an occurrence is found;
    3. set `SwapStatus`;
    4. `DsignerClient.Sign` (HTTP `POST {host}/sign` with the client's timeout,
       status check, JSON decode, DST check);
    5. refuse signatures shorter than 32 bytes;
    6. answer with the hex encoding.
  * `GET /health` answers a constant.

The pieces interact in two places. Each per-chain channel has a single producer
(its forwarder) and every concurrent `GET /v1/swap/latest` call as a consumer.
The monitor's store of recorded occurrences is written by the monitor and read
by concurrent validation requests.

## 2. Modules

| module | models | state | actions |
|---|---|---|---|
| `EventPipeline` | startup loop, forwarding goroutines, `GetLatestReceipts` | `phase`, `opened` (startup); per chain `fwd` (goroutine pc), `recvd`, `held`, `buf` (channel contents), `out` (history of what callers got); per caller `cpc`, `todo`, `acc` | `OpenStream`, `OpenStreamFails`, `Recv`, `RecvError`, `Send`, `StartScan`, `ScanChain`, `FinishScan`, `Exited` |
| `ValidationHandler` | `HandleValidationRequest`, `ValidateSwap`, `GetHistoricalEvent`, `DsignerClient.Sign`, request marshalling | `store` (the monitor's occurrences); per request `pc`, `req`, `reply`, `resp`, `cause` (a history variable: the spec-7 failure category) | `Record`, `RejectMalformed`, `RejectMissing`, `Accept`, `LookupFound`, `LookupNotFound`, `LookupError`, `SignFails`, `SignReply`, `NextRequest` |
| `Config` | `config.LoadFromEnv`, `getEnvWithDefault`, `validateURL` | `pc`, `env` (what `os.Getenv` returned), `cfg`, `err` | `LoadFromEnv` |
| `Lifecycle` | `main`, `server.Start`, `metrics.Serve`, their shutdown goroutines and the `sync.WaitGroup`, composed with `ValidationHandler` (by `INSTANCE`) | `main`, `ctxDone`, `wg`, `ms`/`msd` (metrics goroutines), `hs`/`hsd` (server goroutines), `open` (listener), plus the handler's variables | `LoadConfig`, `StartMetrics`, `NewServer`, `StartServer`, `Signal`, `Join`, `MetricsSpawn`, `MetricsBind`, `MetricsServeReturns`, `MetricsDone`, `MetricsShutdown`, `ServerSpawn`, `ServerBind`, `ServerServeReturns`, `ServerDone`, `ServerShutdownBegin`, `ServerShutdownEnd`, and the handler's steps (`Arrive`, `Lookup`, `Signing`, `KeepAlive`, `MonitorRecords`) |
| `SwapValidation` | what the validation orchestrator promises (spec 4.5/7): a request is answered once, by a failure or a signature over its own key, the latter only for an observed key | `observed`, per request `phase`, `key`, `verdict` | `Observe`, `Start`, `Fail`, `Sign`, `Reset` |
| `EventPipelineProofs`, `ValidationHandlerProofs`, `LifecycleProofs` | TLAPS proofs about the module each extends | | |
| `MCEventPipeline`, `MCValidationHandler`, `MCConfig`, `MCLifecycle` | model values, symmetry sets, small constant sets for TLC | | |

### How the models correspond to the code

**EventPipeline**

* Occurrence `k` of chain `c` is the k-th value `stream.Recv()` returns. Its
  protobuf content is abstracted to `k`, which is all that order and loss
  properties need.
* `NilEvent` (0) is the nil pointer a receive from a closed channel yields.
* Each `ScanChain` step is one iteration of the `range h.streams` loop, with
  the `select`'s three outcomes:
  * a buffered value;
  * a closed and drained channel, which yields nil;
  * `default`.
* The iterations of different callers and the forwarders' sends interleave
  freely, as the goroutines do.
* `Send` is enabled only while the channel has room. The `<-ctx.Done()` branch
  is never enabled, because the context is `context.Background()`
  (validation_checks.go:46).

**ValidationHandler**

* `Marshal` is what `json.Marshal(request)` in `Sign` really produces. The
  value passed is not addressable and `MarshalJSON` has a pointer receiver, so
  encoding/json uses the struct's default encoding (see findings).
* `MarshalJSON` is the canonical payload that the spec and that method define.
* dsigner's reply is a record of the bytes signed, the signature length and the
  declared DST.
* `Hex` keeps what was encoded and doubles the length.
* Error answers are their status code and text.

**Config**

* `os.Getenv` is an input: `LoadFromEnv` chooses one environment from `Envs`
  and runs to its `return` in one step, as the code does (nothing else runs
  while it does).
* A URL string is what `url.Parse` makes of it: `Unparsable`, or scheme, host
  and path. The path is kept as characters, so that `strings.TrimSuffix(.., "/")`
  is modelled by what it does (`TrimSlash`). The host can be empty.
* `time.Duration(parsed) * time.Second` is computed in two's complement
  (`WrapDuration`). The instance uses a 16-bit duration and 100 ticks a second,
  so that 327 s fits and 328 s wraps, as 9223372036 s and 9223372037 s do at
  64 bits with 10^9 ns.

**Lifecycle**

* `main`'s steps are actions in program order. `LoadFromEnv` failing
  (`os.Exit(1)`) and `NewServer` failing (`log.Fatalf`) end the process.
* Each server goroutine first adds for its shutdown goroutine (`wg.Add(1)`),
  then `ListenAndServe` binds or fails. If `Shutdown` already ran it returns
  `ErrServerClosed` at once. Once serving, it returns when `Shutdown` closed
  the listener.
* The metrics `Shutdown(ctx)` gets an already-cancelled context, so it returns
  at once. The server's `Shutdown(context.Background())` returns only when no
  request is inside its handler (`ServerShutdownEnd`).
* The handler's steps are `ValidationHandler`'s actions, unchanged. New requests
  and keep-alive requests need the listener open. A request already in its
  handler runs on after `Shutdown` began. Nothing runs after exit.
* The live-feed goroutines are not in this module. They are started with
  `context.Background()` and are not counted by the WaitGroup, so `cancel()`
  and `wg.Wait()` never involve them. They are simply killed when `main`
  returns.

**Refinement.** `ValidationHandler` defines `SV == INSTANCE SwapValidation`, with
`ImplementsSwapValidation == SV!Spec` checked as a `PROPERTY`. The mapping:

* the observed keys are the `(uuid, corr)` pairs of the monitor's store;
* a request is `idle` at `"idle"`, `answered` at `"done"`, and `checking`
  in between;
* its key is `(SwapID, SwapTxHash)` while it is checked or after a 200
  answer;
* its verdict is the `(swap_id, swap_tx_hash)` of the message dsigner signed
  on a 200 answer, `"failed"` on any other answer, and `"none"` before one.

`Record` maps to `Observe`, `Accept` to `Start`, each of the six error paths
to `Fail`, the 200 answer of `SignReply` to `Sign`, and `NextRequest` to
`Reset`. `LookupFound` stutters: it only moves the request within its check
and sets `SwapStatus`, which is not part of the key.

## 3. Runs

| run (cfg) | checks | result |
|---|---|---|
| `MCEventPipeline.cfg` | `TypeOK`, `StreamOrderPreserved` | pass (≈140k distinct states) |
| `MCEventPipelineLive.cfg` | `EventuallyServed` under `FairSpec` | pass |
| `MCEventPipelineNil.cfg` | `NoNilEvent` | **violation** |
| `MCEventPipelineStuck.cfg` | `ForwarderNeverStuck` under `ProducerSpec` | **violation** |
| `MCValidationHandler.cfg` | `TypeOK`, `NoFabricatedSignature`, `ImplementsSwapValidation` | pass (≈43k distinct states) |
| `MCValidationHandlerKey.cfg` | `SpecKeyedLookup` | **violation** |
| `MCValidationHandlerClass.cfg` | `DistinctFailureSignals` | **violation** |
| `MCValidationHandlerPayload.cfg` | `CanonicalPayload` | **violation** |
| `MCConfigTimeout.cfg` | `TimeoutsBounded` | **violation** |
| `MCLifecycle.cfg` | `TypeOK`, `ExitAfterAllDone`, `AddBeforeWait`, `ShutdownCompletesUnlessLookupHangs` under `ProcessSpec` | pass (≈32k distinct states) |
| `MCLifecycleHang.cfg` | `ShutdownCompletes` under `ProcessSpec` | **violation** |

What the new properties say:

* `ExitAfterAllDone`: when `wg.Wait` returns, all four counted goroutines have
  finished.
* `AddBeforeWait`: the WaitGroup rule. An `Add` made while `main` waits never
  starts from zero.
* `ShutdownCompletes`: a signal leads to exit. Checked only in the Hang
  run, where it fails.
* `ShutdownCompletesUnlessLookupHangs`: in every behaviour where no request
  stays in `GetHistoricalEvent` forever, a signal leads to exit. The
  monitor's answering is a hypothesis of the statement, not a fairness
  assumption of the run. So the run shows that the deadline-free lookup is
  the only thing that can block shutdown: requests at the signer,
  keep-alives and bind failures cannot.
* `ImplementsSwapValidation`: the handler's refinement above. Each request
  is answered once, and signed only over its own key, once that key has been
  observed.

**Bounds.**

* Pipeline: two chains, a channel of capacity 1 and two concurrent callers.
  Three occurrences per stream in the safety run, two in the liveness runs.
  Capacity 1 makes "channel full" reachable after one occurrence. With three
  occurrences a chain can be full, hold a further occurrence and still have one
  left to receive, while two callers race on the same channel.
* Validation: two concurrent requests, two ids (so that a request can match an
  occurrence under swapped keys), a store of at most two occurrences, and
  signature lengths 31 and 32 around the 32-byte check.
* The callers and requests are symmetric model values. The MC modules define
  symmetry sets, but no run uses them: every passing run also checks a
  temporal property, and TLC's symmetry reduction is not sound for those.
* Config: hosts `""` and `h`; paths empty, `/`, `/v1` and `/v1/`; timeouts
  -1, 0, 15, 327 and 328 s around the overflow edge; every variable also
  unset or not a number. All 2 (port) × 26 × 26 × 7 × 7 environments are
  enumerated.
* Lifecycle: two concurrent validation requests, one id, a store of at most
  one occurrence. That is enough for a request to be in every handler phase
  when the signal comes, and for one to be finished while another is in
  flight.

**Fairness.**

* `ProcessFairness`: the Go runtime keeps running startup and any forwarder
  that can send (weak fairness on `Send`). The monitor is not obliged to push
  anything, and an error may end a stream at any time.
* `PollingFairness` assumes callers keep polling. It appears only in
  `EventuallyServed`, whose statement is conditional on that.
* Lifecycle's `ProcessFairness` gives weak fairness to every goroutine step of
  `main`, the servers and the shutdown goroutines. The Go scheduler runs every
  runnable goroutine. `Signal` has none, because the operator is not obliged
  to send one. The dsigner call (`Signing`) is fair because of
  `http.Client{Timeout: cfg.DsignerTimeout}` (dsigner.go:28). That holds only
  for a positive `DSIGNER_TIMEOUT_SECONDS`, as finding 6 shows.
* No run assumes that the chain monitor answers. The gRPC lookup has no
  deadline and `cfg.ChainMonitorTimeout` is never used. The passing Lifecycle
  run therefore states the monitor's answering as the hypothesis of
  `ShutdownCompletesUnlessLookupHangs`, and the Hang run shows what happens
  without it. The handler run checks only safety.

## 4. Findings

1. **Closed channel reported as events** (`NoNilEvent`). When a stream ends,
   every later `GET /v1/swap/latest` answers 200 with a `null` entry for that
   chain, instead of 204.
2. **Forwarder blocks forever on a full channel** (`ForwarderNeverStuck`). The
   spec says drop, never block. The `ctx.Done()` escape is dead code here,
   because the context is `context.Background()`.
3. **Lookup keys swapped** (`SpecKeyedLookup`). Spec 4.5 scopes the lookup by
   swapTxHash and filters on swapId. The code does the reverse.
4. **Failure categories share answers** (`DistinctFailureSignals`). Not found
   and monitor errors give the same 500, and so do every signer failure and a
   DST mismatch.
5. **Wrong signing payload** (`CanonicalPayload`). `Sign` marshals a
   `ValidationRequest` value, so the pointer-receiver `MarshalJSON` is skipped.
   dsigner is asked to sign `{"swap_tx_hash":..,"swap_id":..,"swap_status":true}`
   instead of the `{"m": "$swap_tx_hash:<hex>; swap_id:<hex>$"}` contract.
6. **Timeouts of 0, below 0 or overflowing are accepted** (`TimeoutsBounded`).
   They give `http.Client` no timeout at all, against spec 5.
7. **A slow monitor blocks answers and shutdown** (`ShutdownCompletes`, Hang
   run). `GetHistoricalEvent` has no deadline: `cfg.ChainMonitorTimeout` is
   never used. A request stuck in it is never answered. The server's
   `Shutdown(context.Background())` waits for that request, and `main`'s
   `wg.Wait` waits for `Shutdown`. Spec 5 asks for outbound calls bounded by a
   timeout, and for a shutdown that a slow remote peer cannot block.

Also noticed, and not kept as runs because each restates one line:

* `config_test.go` expects `validateURL` to keep the trailing slash of
  `/v1/`. `strings.TrimSuffix` removes it (config.go:98).
* `TestLoadFromEnv_Defaults` expects port 8080 and monitor `localhost:8081`.
  The code defaults to 8060 and `localhost:8080` (config.go:35-36).

## 5. Proofs

Three modules hold machine-checked proofs (tlapm 1.4.5, every obligation
proved by Z3, Zenon or LS4). Each theorem states a property that a run
checks on a small instance; the proof holds for every value of the constants
allowed by the named assumptions of the module that declares them.

### 5.1 `EventPipelineProofs`

Two theorems are proved for every `NChains ≥ 1`, `Capacity ≥ 1`,
`MaxEvents ∈ Nat` and every set of callers:

* `TypeCorrect == Spec => []TypeOK`
* `OrderPreserved == Spec => []StreamOrderPreserved`

Neither property is inductive on its own. For example, `Send` appends
`held[c]`, which `TypeOK` allows to be 0. The proofs go through the inductive
invariant `IInv == TypeOK /\ Started /\ \A c : Order(c)`, where:

* `Started` says exactly the first `opened` chains have a goroutine.
* `Order(c)` (`OrderOf` over plain values) says:
  * `out[c]` is `1..Len(out[c])`;
  * the channel holds the next `Len(buf[c])` indices in order;
  * the goroutine, while sending, holds the last received index.

TLC checks `IInv` as an invariant of the pipeline run's instance.

The per-step lemmas are stated over plain sequences and numbers:

* `RecvOrder`
* `IdleOrder`
* `SendOrder`
* `ReceiveOrder`
* `OrderFrame`

`NextIInv` has one case per action and uses them. `ConcatOrder` turns `Order`
into the concatenation `StreamOrderPreserved` states, using `ConcatProperties`
and `SeqEqual` from SequenceTheorems. The temporal step is `PTL`.

### 5.2 `ValidationHandlerProofs`

* `NoFabrication == Spec => []NoFabricatedSignature`
* `TypeCorrect == Spec => []TypeOK`

These hold for every set of requests and ids, every `MaxStore ∈ Nat`, and
every set of signature lengths `SigLens ⊆ Nat` with `MinSigLen ∈ Nat`.
They also use `DistinctAssumption`: the empty byte string and a malformed
body are not ids, and the two DSTs differ.

`NoFabricatedSignature` is not inductive. `SignReply` answers 200 on the
strength of a lookup made in an earlier step. Meanwhile `Accept` and
`LookupFound` rewrite `req[r]`, and the conditions of a 200 answer are
stated about `req[r]`. The inductive invariant
`IInv == TypeOK /\ \A q : ReqInv(q)` therefore adds, for each request:

* while it is in its handler it has no answer (`resp = NoResp`);
* past the missing-field check, its keys are non-empty (`Accepted`), so
  `Marshal(req[q])` is a message in `Replies`;
* while it waits for dsigner, its occurrence is in the store (`Observed`).

TLC checked `IInv` as an invariant of the instance of the
`validation_no_fabrication` run before it was proved.

The lemmas:

* `MatchesKeys`: the lookup ignores `SwapStatus`, which `LookupFound` sets.
* `ObservedStable`: the monitor only appends, so a matched occurrence stays
  matched.
* `ReqFrame`: a step that leaves a request's state alone keeps its
  `ReqInv`.
* `FinishError`: any error answer keeps `IInv`. It covers the four error
  paths at once.

* `RefinesSwapValidation == Spec => ImplementsSwapValidation`

This is proved under the same assumptions, with the same invariant. The
mapped state is named `observedBar`, `phaseBar`, `keyBar` and `verdictBar`,
written exactly as the `WITH` clause writes it.

* `InitRefines`: `Init` maps to `SV!Init`.
* `NextRefines`: under `IInv`, every step maps to an `SV!Next` step or a
  stutter. It has one case per action. `IInv` is needed twice:
  * `Accept` is a `Start` only because a request in its handler has no
    answer yet, so its verdict is still `"none"`;
  * a 200 answer is a `Sign` only because the request's occurrence is in
    the store (`Observed`), so its key is in the observed set.
* `MappedActions` and `MappedNext` restate SwapValidation's actions on the
  mapped state, so that no step expands the `WITH` substitution.
* `MapFrame`: a step of request `r` changes the mapped state of `r` only.
* `ObservedAppend`: `Record` adds exactly one key to the observed set.
* `FailRefines`: every error answer is a `Fail`.

Mutating `LookupFound` to sign without an occurrence (`LookupFoundUnchecked`)
makes TLC refute `ImplementsSwapValidation`.

### 5.3 `LifecycleProofs`

* `TypeCorrect == Spec => []TypeOK`
* `ExitAfterAllDoneHolds == Spec => []ExitAfterAllDone`
* `AddBeforeWaitHolds == Spec => AddBeforeWait`

These hold for every number of concurrent requests on the server. Lifecycle
declares the handler's constants, so it states
`HandlerConstantsAssumption`: the same assumptions ValidationHandler makes of
them. The lifecycle runs evaluate it, and the lemma `HandlerAssumptions`
passes it on to the instance `VHP == INSTANCE ValidationHandlerProofs`.

The proof reuses the handler's invariant rather than repeating it:

* `HandlerStep` shows that every lifecycle step is a handler step or leaves
  the handler's variables alone.
* So `VHP!NextIInv` carries `VHP!IInv` through every step.

`ExitAfterAllDone` is not inductive, because `Join` only checks `wg = 0`.
`LInv` supplies the WaitGroup accounting:

* `wg` equals `Counted`, the goroutines added and not yet done;
* each shutdown goroutine exists exactly when its server has passed its
  spawn;
* main's control point fixes which servers have started;
* the counter is zero once main has exited.

TLC checked `LInv` on the lifecycle run's instance before it was proved.
`LifecycleStep` has one case per goroutine step. `AddStep` gives the action
property: while main waits, the only steps that raise `wg` are
`MetricsSpawn` and `ServerSpawn`, and the spawning server is itself still
counted.

### 5.4 Only model-checked

* Liveness: `EventuallyServed` and `ShutdownCompletesUnlessLookupHangs`.
  They rest on fairness and `ENABLED`, which TLAPS does not handle here.
* The properties of the violation runs, which TLC refutes:
  * `TimeoutsBounded`;
  * `SpecKeyedLookup`, `DistinctFailureSignals` and `CanonicalPayload` of the
    handler;
  * `NoNilEvent` and `ForwarderNeverStuck` of the pipeline;
  * `ShutdownCompletes` under `ProcessSpec`.

## 6. Not modelled

* `HealthCheck`: a constant answer with no state.
* The Prometheus collectors in `metrics`: counters that no property depends on.
  The metrics server's lifecycle is modelled in `Lifecycle`.
* The fields `URL` and `RouterContracts` of `Config`: the code never sets them.
* Generated protobuf/gRPC code: transport, out of TLC's reach. Its observable
  results (a value, an error, or blocking) are the actions' outcomes.
* The `GET /v1/swap/latest` requests and the live feed under shutdown. The
  forwarders are neither cancelled nor waited for (`context.Background()`, not
  counted by `wg`). Spec 5's "every open stream torn down" therefore happens
  only when the process exits. `Lifecycle` composes only the validation
  requests, which are what `Shutdown` waits on.

Possible next steps:

1. An abstract specification of the process lifecycle (start, serve, drain,
   exit), with `Lifecycle` shown to implement it.
2. Proofs of the liveness properties, which need reasoning about `ENABLED`
   that this prover does not support.
