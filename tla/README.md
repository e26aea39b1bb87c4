# TLA+ models of the Kayak pushback client

This directory holds a formal model of the closed-loop client in
`src/splinter/src/bin/client/pushback.rs` (the "pushback" client of Kayak). It
has three parts:

- TLC runs that check the model on small instances;
- TLAPS proofs of its main invariants for every value of the constants;
- the inventory and plan below, covering the parts not modelled yet.

Beside the single-core loop it models:
- an abstract window client that each core is proved to implement;
- the multi-core driver with its shared `FINISHED` flag and shutdown;
- the native extension cost `mul()`;
- the baseline open-loop generator in `src/db/src/bin/client/main.rs`.

## 1. The system

### Components and how they interact

One `PushbackRecvSend` runs on each of eight cores. It is a Netbricks task, and
the scheduler calls its `execute()` forever. One call of `execute()` (lines
610-618) does three things in this order:

1. **`send()`** (359-411) returns at once if `requests <= sent`. Otherwise it
   loops while `outstanding < 32`. Each turn it does the following:
   - it takes a cycle stamp `curr`;
   - it draws an operation from the workload `Pushback::abc` (137-157);
     `put_pct` is hard-coded to 0 in `new()`, so this is always a get;
   - it sends either a native get or an invoke of the `pushback` extension;
   - it records the request: `native_state[curr] = 1`, or a `TaskManager` in
     the `manager` map under `curr` (via `add_request`);
   - it increments `outstanding` and `sent`.
2. **`recv()`** (413-543) first checks `responses <= recvd`. If so it sets
   `finished` and returns. Otherwise it polls one batch from the NIC and
   dispatches each frame:
   - **invoke/Ok**: `recvd += 1`, a latency sample, `outstanding -= 1`, and
     the manager entry is removed.
   - **invoke/Pushback**: the manager entry is removed and pushed on the
     run-queue `waiting` with a generator. This happens only if the entry
     exists. A latency sample, `outstanding -= 1` and `recvd += 1` happen in
     every case.
   - **invoke, other status**: ignored.
   - **get, invoke mode**: a latency sample. If a task is filed under the
     stamp, it moves back to `waiting`.
   - **get, native mode**: `native_state[stamp]` is unwrapped. At `NUM_OPS`
     the operation is retired: `recvd += 1`, a latency sample, the entry is
     removed and `outstanding -= 1`. Otherwise another get is sent under the
     same stamp and the count goes up.
   - **put**: a latency sample. This branch is unreachable, since `put_pct`
     is 0.
3. **`execute_task()`** (545-565) pops the head of `waiting` and runs its
   generator, a `TaskManager` from `splinter::manager`:
   - YIELDED re-enqueues the task;
   - WAITING re-files it in `manager` under `get_id()`, after the generator
     has sent a follow-up get under that id;
   - COMPLETED drops it.

When `finished` is set, `execute()` sets the global `static mut FINISHED`.
`main` (665-741) sleeps until `FINISHED` is true and then stops the
schedulers. `setup_send_recv` (625-663) creates each loop with
`responses = 34*1000*1000` and `requests = config.num_reqs`. `Drop`
(573-600) prints throughput and the median and tail of the latency samples.

`src/db/src/bin/client/main.rs` is a baseline open-loop client. Its
`RequestGenerator::execute()` builds one get or invoke request and sends it
on every call. It never receives. The MAC, IP and UDP headers are prebuilt in
`new()`, and the two length fields are patched by
`fixup_header_length_fields` (142-151).

### State, operations and hard behaviours

| component | state | operations | what is hard |
|---|---|---|---|
| send/receive loop | `sent`, `recvd`, `outstanding`, `latencies`, `finished`, `native_state`, `manager`, `waiting` | `send`, `recv` (6 branches), `execute_task`, `execute` | response/task interleavings; window accounting; stamps as identities; early returns |
| TaskManager (not in `src/`) | generator state, read/write set, id | `execute_task` → YIELDED / WAITING / COMPLETED | re-filing under the right key; never queued twice |
| dispatch and server (not in `src/`) | frames in flight | send/recv frames; server replies | lost frames, unexpected statuses |
| multi-core driver | `FINISHED`, 8 loops | `main`, `setup_send_recv` | unsynchronised flag; shutdown while the other cores are still running |
| statistics | `latencies`, `stop`, `start` | `Drop::drop` | which samples the median reads; index bounds; `stop - start` on a core that never finished |
| baseline generator | `requests_sent` | `generate_request`, `fixup_header_length_fields` | partial NIC sends (only fixed-size requests, so the u16 lengths cannot wrap) |

The hazards are listed with their lines in `PROJECT.json` ("hazards"). Each
one names the properties that would catch it going wrong.

## 2. The modules

### `PushbackClient.tla`: one core's send/receive loop

**Constants:**
- `W`: the window, 32 in the code;
- `Requests`: `num_reqs`;
- `Responses`: the responses target;
- `Native`: `!use_invoke`;
- `NumOps`: `NUM_OPS`;
- `InvokeStatuses`: the statuses the server may return to an invoke;
- `Lossy`: whether the network may drop frames;
- `MaxGets` and `MaxYields`: bounds on what a task's generator does.

**Variables.** Those of `PushbackRecvSend` are kept under the code's names.
The rest are:
- `pc`: where `execute()` is: `send`, `sendloop`, `recv`, `recvloop` or
  `task`;
- `clock`: the cycle counter, which only moves forward;
- `toServer` and `toClient`: the frames in flight;
- `latencies`: the length of the latency vector. The sample values are only
  measurements.

A `TaskManager` is a record with four fields:
- `id`;
- `gen`: whether a generator exists, i.e. whether it was pushed back;
- `gets` and `yields`: how much of its work it has done.

A frame carries an opcode, a status and the stamp. Payloads are left out:
no property depends on them.

**Actions.** There is one action per step of `execute()`:

| action | code |
|---|---|
| `SendCheck` | the entry check of `send()` |
| `SendOne` | one turn of the window loop, including `abc()`, `or_insert` and `add_request` |
| `SendDone` | the loop exit |
| `RecvCheck` | the entry check of `recv()`, with its `finished = true; return` |
| `RecvPacket(m)` | one frame of the batch, with one disjunct per dispatch branch: `RecvInvokeOk`, `RecvPushback`, `RecvTaskGet`, `RecvNativeGet`, ignored status |
| `RecvDone` | the end of the batch; the stop stamp is a measurement |
| `ExecuteTask` | `execute_task()` with the three task outcomes. WAITING sends the follow-up get, then re-files the task under its id. |

The environment has three actions:
- `ServerReply(m)` answers a request with the same stamp;
- `LoseRequest(m)` and `LoseResponse(m)` drop a frame when `Lossy`.

`MCPushbackClient.tla` is the instance that TLC runs use. The constants are
set in each `.cfg`.

### `WindowCore.tla`: what one core promises

This is the abstract specification of one core, seen only through its
counters: `sent`, `recvd`, `outstanding`, `stopped` (the stop stamp has been
taken) and `finished`. It has four actions:
- `Issue`: a request goes out while `outstanding < W` and
  `sent < Requests + outstanding`. This is the bound `send()` really keeps,
  since its entry check is made once per call.
- `Complete`: a terminal response is counted before the stop stamp.
- `Stamp`: the stop stamp, taken once the target is met.
- `Finish`: `finished` is set after the stamp.

`PushbackClient` implements it. `PushbackClient.Window` instantiates it with
`stopped <- Stamped`, where `Stamped == Responses <= recvd /\ pc # "recvloop"`:
the stamp of `recv()` (538-542) is taken at the end of the call in which
`recvd` reached the target.

The step mapping is:

| `PushbackClient` step | abstract step |
|---|---|
| `SendOne` | `Issue` |
| a receive branch that retires a request (Ok, Pushback, the last native get) | `Complete` |
| `RecvDone` once the target is met | `Stamp` |
| `RecvCheck` at the target | `Finish` |
| everything else | a stutter |

### `PushbackCores.tla`: the multi-core driver

**State.** The module keeps the counters of `WindowCore` for each core
(`sent`, `recvd`, `outstanding`, `stopped`, `finished`), as function-valued
variables over the constant set `Cores`. Its per-core steps are
`WindowCore`'s four actions, which `PushbackClient` is proved to
implement. The question this module asks is how the cores and `main()`
interact, not what one core does. Beside them it has:
- the shared flag `FINISHED`;
- `mainPc`, which is `setup`, `poll`, `stopping` or `done`;
- `running[c]`: whether core c's scheduler still runs it.

**Actions.**
- The per-core steps `Issue(c)`, `Complete(c)`, `Stamp(c)` and `Finish(c)`.
  `Finish` also writes `FINISHED = true`, as `execute()` does at 613-616.
- `Launch`: `main()` up to `net_context.execute()`.
- `Poll`: the loop `while !FINISHED` is left on a read of true.
- `Halt(c)`: `net_context.stop()` stops core c between two calls of
  `execute()` and drops its pipeline.
- `Exit`: `main()` returns.

Each core steps only while `Scheduled(c)`, that is after `Launch` and
before its halt. The Netbricks scheduler is outside this repository. Its
`stop()` is modelled as letting the current `execute()` end.
`MCPushbackCores.tla` gives `Cores` two or three model values. It declares
no symmetry set, because the cores run checks `Termination`, and symmetry
reduction is not in general sound for liveness.

### `NativeMul.tla`: the native extension cost

`mul(init, limit)` (351-357) is modelled loop by loop on a `Width`-bit
unsigned accumulator:
- `Step` is one `mul *= i`. It wraps modulo `2^Width` in a release build.
- `OverflowPanic` is the same iteration in a debug build when the product
  does not fit.
- `Return` ends the loop.

The variable `debug` chooses the build, nondeterministically. The reference
definition `FactMod` is `n!` modulo `2^Width`, by its recurrence.

### `BaselineGenerator.tla`: the open-loop generator of `main.rs`

The mbufs of the port's pool are counted by where they are:
- `free`: in the pool. At start this is `Pool - RxRing`: starting the port
  fills the `RxRing` receive descriptors (351) from the same pool (343).
  This client never polls its receive queue, so those buffers stay on the
  receive ring. The mempool cache (344) belongs to core 1, the one core
  that allocates and frees here, so the buffers it holds are still
  allocatable and count as free;
- `ring`: queued on the NIC's transmit ring;
- `leaked`: neither queued nor freed.

The actions are:
- `StartClient` and `SetupClient`: `main()` and `setup_client()`, with their
  `exit(1)` paths.
- `Generate`: `generate_request()`, which has four outcomes:
  - panic on an empty pool (`create_request`'s `expect`);
  - `Ok(1)`;
  - `Ok(0)` on a full ring, where only a warning is printed;
  - `Err`, which is `exit(1)`.
- `Transmit`: the NIC transmitting a frame and the driver freeing its mbuf.

The port's code is outside this repository. Two constants stand for what it
does:
- `PortFreesUnsent`: whether `send()` frees a frame it did not queue. The
  repository does not say.
- `SendErrors`: whether `send()` may fail.

Packet contents are left out, and `fixup_header_length_fields` with them.

### The proof modules

| module | what it proves |
|---|---|
| `PushbackClientProofs.tla` | the invariants of one core (section 4) |
| `PushbackRefinementProofs.tla` | that a core implements `WindowCore` |
| `WindowCoreProofs.tla` | the promise `WindowInv` of the abstract core |
| `PushbackCoresProofs.tla` | the types and the shutdown invariant of the multi-core driver |
| `BaselineGeneratorProofs.tla` | the type correctness of the generator's mbuf counts |
| `NativeMulProofs.tla` | the type correctness of `mul()` |

## 3. The runs

The runs on one core use `MCPushbackClient`:

| run | cfg | checks | result and meaning |
|---|---|---|---|
| invoke | `invoke.cfg` | `TypeOK`, `Accounting`, `TaskPlacement`, `StampsMatchLiveRequests`, `FinishedFreezesRecvd`, `WindowRefinement` | pass (about 117k distinct states): invoke mode with Ok, Pushback and other statuses, and a lossy network; every behaviour is also one of `WindowCore` |
| native | `native.cfg` | `TypeOK`, `Accounting`, `StampsMatchLiveRequests` | pass: native mode with two gets per operation and loss |
| live | `live.cfg` | `Termination` | pass: `Requests = Responses = 3` with `W = 2`, so the window must refill before the target is met; with a reliable server, `finished` is eventually set |
| drain | `drain.cfg` | `TasksDrain` | pass: while `recv()` keeps polling, every pushed-back task eventually leaves the client |
| stranded | `stranded.cfg` | `TasksDrain` | violation: after the target is reached, `recv()` returns before polling, and a waiting task is never resumed |
| dropstats | `dropstats.cfg` | `DropMedianIsMiddle` | violation: for an even count n, `Drop` averages `latencies[n/2]` and `latencies[n/2 + 1]`, one past the middle pair, and reads out of bounds at n = 2 |

The other components have runs of their own:

| run | module | checks | result and meaning |
|---|---|---|---|
| cores | `MCPushbackCores` | `CoresTypeOK`, `ShutdownAfterTarget`, `Termination` | pass: three cores; shutdown starts only after some core met its target, and the process always ends |
| stopstamp | `MCPushbackCores` | `DropStopStamped` | violation: `main()` stops every core as soon as one sets `FINISHED`, and the others are dropped with `stop = 0` |
| mul | `MCNativeMul` | `MulTypeOK`, `MulComputesProduct` | pass: in both builds, the loop computes `init * (i-1)!` modulo `2^Width` at every step |
| mulcost | `MCNativeMul` | `MulCostNonZero` | violation: a release build returns 0 for every `init`, and a debug build panics |
| generator | `MCBaselineGenerator` | `GeneratorTypeOK` | pass: the counts stay within the pool the receive ring leaves and the transmit ring's descriptors, on every path including `Ok(0)` and `Err` |
| mbufleak | `MCBaselineGenerator` | `NeverPanics` | violation: if the port does not free unsent frames, full-ring sends leak the pool and `create_request()` panics |

### What the properties say

- **`Accounting`**: `recvd + outstanding = sent`, and `outstanding` equals
  the number of open requests. The open requests are the native operations
  plus the invokes not yet pushed back. Since `outstanding` is a `u64`
  decremented in three places, this also excludes underflow.
- **`TaskPlacement`**: every filed task is filed under its own id. The
  run-queue holds only pushed-back tasks, none of them also filed, none
  twice.
- **`StampsMatchLiveRequests`**: every frame in flight names the record that
  `recv()` will look it up in. This covers native `unwrap()`, invoke
  `remove` and task `contains_key`.
- **`FinishedFreezesRecvd`**: an action property: after `finished`, no step
  changes `recvd`.
- **`Termination`** and **`TasksDrain`**: liveness properties under the
  fairness below.
- **`DropMedianIsMiddle`**: the samples `Drop` takes the median from are the
  middle ones of the sorted vector. The model follows the length of that
  vector (`latencies`). `MedianIndices` is the code's choice of indices;
  `MiddleIndices` is the reference definition: as many samples below as
  above, give or take one.
- **`WindowRefinement`**: `Window!Spec`, i.e. `PushbackClient` implements
  `WindowCore` under the mapping above.
- **`ShutdownAfterTarget`**: when `main()` has called `stop()`, some core has
  both counted its target and stamped its stop time. `FINISHED` is written
  by the cores and read by `main()` without synchronisation, so the model
  interleaves every core step with `main()`'s polls.
- **`Termination`** (cores): `main()` eventually returns.
- **`DropStopStamped`**: every pipeline dropped by `stop()` has stamped its
  stop time, so `Drop`'s `stop - start` (577) is meaningful.
- **`MulComputesProduct`**: the accumulator is `init * (i-1)!` modulo
  `2^Width`, at every iteration. This is checked against the reference
  `FactMod`.
- **`MulCostNonZero`**: a non-zero payload byte gives a non-zero cost, and
  no panic.
- **`NeverPanics`**: the generator never dies of an empty pool. It is
  violated when the port does not free the frames it did not queue.

Each property of a passing run has a mutant in `PROJECT.json`. A mutant is a
plausible bug in the mapped code, and TLC finds the property violated under
it. Examples:
- the window test written `<=`;
- the missing `outstanding -= 1`;
- YIELDED without the pop;
- a native off-by-one;
- a missing early return;
- `FINISHED` stored without the test of `self.finished`;
- the `FINISHED` load hoisted out of `main()`'s loop;
- `1..=limit` for `1..limit`;
- the full-ring test of the transmit ring written `<=`.

### Bounds

**Single core.**
- `W = 2` is the smallest window in which two requests are outstanding at
  once, so responses can be reordered.
- `Requests = 3` lets the window refill after a response, which the checks
  need in order to see a slot reused.
- `MaxGets = MaxYields = 1` lets a task pass through every outcome: YIELDED,
  then WAITING, then a resumed run, then COMPLETED.
- `NumOps = 2` in native mode exercises both the resend and the retire
  branch. The code has `NUM_OPS = 1`, and then only the retire branch is
  reachable.

**Single-core liveness.** The live run takes `Requests = Responses = 3`
with `W = 2`, so `send()` has to refill the window before the target can
be met. The hard-coded target of 34 million (643), which `num_reqs` may
never reach, is left to the hazard list: at any bound TLC can explore it
is only a choice of constants.

**Multi-core.** The cores run uses three cores with `W = Requests =
Responses = 2`. This is enough for one core to finish while the others are
in every phase: not started, mid-window, or stamped and not yet finished.

**`mul`.** TLC's integers hold 31 bits, so `mul` runs with `Width = 16` and
`Limit = 20`:
- `2^16` divides `19!` exactly (the 2-adic valuation of `19!` is 16), so
  the wrap to 0 happens at the last step, as it does at `Width = 64` for
  every `limit > 66`, and so for the code's 1000;
- `Inits` holds 0, the odd values 1, 3, 5, 7 and 255, and the powers of two
  2 and 128. This covers both the early and the late overflow in a debug
  build.

**Generator.** The generator run uses `Pool = 20`, `RxRing = 4` and
`TxRing = 6`, and the violation uses `Pool = 8`, `RxRing = 2` and
`TxRing = 3`. These are far below the code's 2047, 256 and 256. What
matters is that the two rings together hold fewer buffers than the pool,
as in the code, and `BaselineGeneratorProofs` proves the type invariant
for every such size.

### Fairness

`Fairness` in the single-core model has three parts:

- **Weak fairness on the client's steps.** The Netbricks scheduler calls
  `execute()` forever (`main`, 728-737), and nothing in it blocks.
- **Weak fairness on the server's replies.** This is an assumption about the
  server.
- **Strong fairness on receiving a frame.** A frame sitting in the rx ring is
  returned by some later `recv_res()`. `recv_res()` is polled once per
  `execute()`, so a receive is only enabled intermittently, at
  `pc = "recvloop"`.

The liveness runs use a reliable network and no "other" status. A lost frame
or an ignored status leaks its window slot forever (the hazard at line 466),
and `Termination` then fails for that reason alone.

In `PushbackCores` the fairness is weak fairness on each core's steps, on
each `Halt(c)`, and on `Launch`, `Poll` and `Exit`:
- every scheduler keeps calling `execute()`, and the abstract `Complete`
  stands for a server that answers;
- `main()` re-reads `FINISHED` after every two-second `sleep()`, and the
  store of a core becomes visible to it, since x86 is cache coherent and the
  load is redone after the call;
- `stop()` reaches every scheduler.

The mutant `PollHoisted` shows what goes wrong when the compiler keeps the
load in a register. `static mut` gives no guarantee against that.

## 4. What is proved

### One core

These are in `PushbackClientProofs.tla` and hold for every value of the
constants that satisfies `ConstAssumption`.

- **`IInvInvariant`: `Spec => []IInv`.**
- **Corollaries of `IInvInvariant`:**
  - `TypeCorrect` for `TypeOK`;
  - `AccountingInvariant` for `Accounting`;
  - `TaskPlacementInvariant` for `TaskPlacement`;
  - `StampsMatchInvariant` for `StampsMatchLiveRequests`.
- **`FinishedFreezesRecvdThm`: `Spec => FinishedFreezesRecvd`.** It rests on
  the auxiliary invariant `FinishedStable`: `finished` implies
  `Responses <= recvd`, and `pc` is not `recvloop`.

### The refinement and the abstract core

- **`WindowRefinementThm`** (in `PushbackRefinementProofs.tla`):
  `Spec => WindowRefinement`, for all constants. The argument has three
  parts:
  - The initial state maps to `WindowCore`'s, because `Responses > 0`.
  - Every step of `Next` maps to a step of `WNext` or to a stutter
    (`RefineStep`). It needs `IInv` in the states before and after the
    step:
    - the receive branches need `TypeOK'`, which gives `outstanding > 0`
      before a decrement;
    - `SendOne` needs the invariant `SendLoopBound`:
      `sent < Requests + outstanding` inside the send loop.
  - `SendLoopBoundInvariant` proves `SendLoopBound` from `IInv`.
- **`WindowSafe`** (in `WindowCoreProofs.tla`): `WindowCore` keeps
  `WindowInv`. Its invariant is inductive together with its type.
### The multi-core driver

**`CoresTypeCorrect`** and **`ShutdownAfterTargetThm`** are in
`PushbackCoresProofs.tla` and hold for any non-empty set of cores. The
inductive invariant `CInv` chains four facts:
- `ShuttingDown => FINISHED`;
- `FINISHED` implies some core has `finished`;
- `finished[c] => stopped[c]`;
- `stopped[c] => Responses <= recvd[c]`.

`ShutdownAfterTarget` alone is not inductive. It needs each link of this
chain.

### The generator

`GeneratorTypeCorrect` is in `BaselineGeneratorProofs.tla`, for every
pool and ring sizes with `RxRing + TxRing < Pool`. The type invariant alone
does not bound `free` and `leaked`. The inductive invariant `GInv` adds
`free + ring + leaked = Pool - RxRing`: every step of `generate_request()`
or the NIC moves one buffer, or none.

### `mul()`

**`MulTypeCorrect`** (in `NativeMulProofs.tla`) proves that the accumulator
stays in `0..2^Width - 1` and `i` in `1..Limit`, in both builds. Trying to
prove it showed that `MulAssumption` was too weak. `mul = init` fits the
accumulator only if it is at least a byte wide, and for `Width < 8` the type
invariant fails in the initial state. The assumption now says
`2^Width > 255`: `init` is a `u8`, and `init as u64` is exact.

### The inductive invariant of one core

The checked properties are not inductive on their own. `IInv` adds five
strengthening conjuncts:

- **`StampsFresh`**: every stamp is below `clock`, so a new request never
  collides with a live one.
- **`ModesApart`**: native state and invoke state are never both in use.
- **`OneFramePerStamp`**: at most one frame per stamp is in flight. Without
  it, the removal of a record could strand a second frame with the same
  stamp.
- **`QueuedTasksIdle`**: a queued task has no frame in flight, so its
  follow-up get gets a fresh key.
- **`IsFiniteSet(Open)`**: lets cardinality arithmetic be used for
  `Accounting`.

TLC checked `IInv` as an invariant on the invoke and native configurations
before it was proved.

### How the proofs are organised

- There is one lemma per action, and inside each one a step per conjunct the
  action can disturb.
- The six receive branches are separate lemmas, as are the three task
  outcomes and the frame drops.
- `NextIInv` combines them.
- Frames are told apart by `FramesDistinct`: requests and responses have
  different record domains.
- Sequence facts come from `SequenceTheorems`: `HeadTailProperties` and
  `AppendProperties`.
- Cardinalities come from `FS_AddElement` and `FS_RemoveElement`.
- Facts about the pre-state (TypeOK's conjuncts, for instance) are taken
  in a step of their own before the step about the post-state. A few
  leaves whose SMT obligation is large carry `SMTT(30)`, and a few that
  Zenon proves carry `ZenonT(40)`, so they are not cut off when the
  machine is loaded.
- The refinement step splits on the client's actions, and receive is a
  lemma of its own. The multi-core step has one lemma per kind of step.

### What only TLC checks

- **Liveness** (`Termination` of both modules, `TasksDrain`): liveness
  under fairness is out of the prover's reach.
- **What `mul` computes** (`MulComputesProduct`). Three things stand in
  the way:
  - Its proof needs the recurrence of the recursive function `FactMod`.
    The existence of that function is an induction over `Nat`, which the
    provers cannot instantiate.
  - It also needs `((a % m) * b) % m = (a * b) % m`, which neither SMT
    nor Zenon proves for a symbolic modulus.
  - The provers know nothing of `2^Width` beyond what `MulAssumption`
    states.
- **The violation runs.**

## 5. Not modelled yet, and the plan

The items of the earlier plan that are now modelled:
- the multi-core composition;
- the throughput part of the Drop statistics;
- `RequestGenerator`;
- `mul()`;
- the abstract window and its refinement.

Remaining, in order of value:

1. **Duplicated frames.** A fault model that delivers a response twice. The
   code would then underflow `outstanding` in the pushback branch.
2. **The tail index of Drop at `n = 0`.** It belongs with
   `DropMedianIsMiddle`.
3. **A composed model.** `PushbackCores` with each core replaced by a full
   `PushbackClient` rather than its abstraction. Its state space is out of
   TLC's reach at three cores. The refinement theorem is what justifies
   using the abstraction instead.

Two divergences from the spec are recorded here rather than given runs of
their own:
- **`send()` overshoots `num_reqs`.** It tests `requests <= sent` once on
  entry (365) and then fills the whole window. The real bound is the one
  `WindowCore.Issue` states, `sent < Requests + outstanding`, and
  `WindowSafe` proves `sent < Requests + W`.
- **Follow-up gets add latency samples.** In invoke mode a follow-up get of
  a pushed-back task pushes a latency sample without `recvd += 1` (475), so
  the spec's one sample per request does not hold.

The responses target is hard-coded to 34M (643). With `num_reqs` below it,
`Termination` fails, since nothing else sets `finished`. The `live` run
therefore takes a reachable target.

Also left out, with the reason:

- the RNG and key bytes of `Pushback::abc()`, which only change payloads;
- `fixup_header_length_fields`: this binary builds only fixed-size
  requests, so the u16 lengths are constants and cannot wrap;
- the Netbricks configuration builders, which construct values with no state
  machine;
- log messages.

The spec says a WAITING task is re-filed "under a new timestamp". The code
re-files it under `get_id()`, the original stamp. The model follows the
code, and `TaskPlacement` and `StampsMatchLiveRequests` show that the choice
is consistent.
