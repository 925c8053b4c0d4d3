# Formal models of the IDM transport and the GPU proxy

This directory holds TLA+ models of the inter-zone messaging (IDM) transport
in `src/idm-protocol/` and of the GPU proxy in `src/gpu-proxy/`. It also holds
the TLC configurations that model-check them and TLAPS proofs about them.
`PROJECT.json` lists every module, run, mutant, source mapping, finding and
hazard in machine-readable form.

## The system

| Part | Source | What it does |
|------|--------|--------------|
| C1 wire format | `idm.h` | message header (magic, version, type, zones, seq, payload length), payload structs, `idm_message_valid` |
| C2 transport | `transport.c` | two single-producer/single-consumer rings in shared memory, one per direction, each with a named POSIX semaphore as wake-up; `idm_init`, `idm_send`, `idm_recv`, `idm_build_message` |
| C3 handle table | `handle_table.c` | opaque 64-bit handles -> (owner zone, device pointer, size), one mutex, ownership check |
| C4 dispatcher | `main.c`, `handlers.c` | the single-threaded driver-zone loop: receive, dispatch ALLOC/FREE/H2D/D2H/SYNC, answer |
| C5 correlator | `libvgpu/libvgpu.c` | the user-zone CUDA shim: build a request, send it, wait for the response whose `request_seq` matches |

A request travels from C5 through the user->driver ring to C4. C4 resolves
handles through C3, calls CUDA and sends its response through the
driver->user ring, where C5 matches it by sequence number. The driver process
is the *server*: `init_shm` zeroes both rings each time it starts. The client
attaches without zeroing. The named semaphores outlive both processes.

## Modules

- **`IdmRing`**: the index arithmetic of one ring.
  - `Used(p, c)` is `prod - cons` on `uint32_t`, taken `% IndexMod`, where `IndexMod` stands for 2^32.
  - `Full` is the full check of `idm_send`.
  - `Idx` is `index % IDM_RING_SIZE`.
  - `Inc` is the wrapping `+ 1`.
  - `Valid` is `idm_message_valid`, applied to an abstracted slot: a message is a ghost ordinal, and `Zeroed` (0) is a memset slot.
- **`RingChannel`**: one direction of the transport, meaning one ring plus its semaphore. Each call is split at the points where the other process can act:

  | Function | Step | Source lines |
  |----------|------|--------------|
  | `idm_send` | `SendCheck` (load the indices, full check) | 346-354 |
  | | `SendCopy` (memcpy into the slot) | 356-358 |
  | | `SendPublish` (`producer = prod + 1`) | 360-364 |
  | | `SendNotify` (`sem_post`) | 366-371 |
  | `idm_recv` | `RecvWait` (the semaphore wait) | 407-440 |
  | | `RecvRead` (load the indices; empty, invalid, `-ENOMEM` and success paths) | 443-473 |
  | | `RecvAdvance` (`consumer = cons + 1`) | 475-482 |

  - Returns that change nothing are stutters: `-ENOSPC`, and the receive timeout.
  - `ProducerRestart` and `ConsumerRestart` model a process dying anywhere and running `idm_init` again. The server's restart zeroes the ring (`ZeroRing`, `init_shm` lines 224-228).
  - `ServerIsProducer` selects the direction: TRUE gives driver->user, FALSE gives user->driver.
  - The ghost variables `nsent`, `got` and `restarts` record what was sent, what was returned and how many restarts happened.
- **`IdmQueue`**: the abstract promise of one direction: a bounded FIFO queue with capacity `IDM_RING_SIZE` (spec sections 4.2 and 5). `RingChannel` implements it under the mapping `queue <- Backlog`: the published, unconsumed slots, oldest first.
- **`MCRingChannel`**: the model-checking instance: 2 slots, indices wrapping at 4, 6 messages.
- **`RingChannelProofs`**: the TLAPS proofs about the ring: types and occupancy.
- **`RingChannelRefinement`**: the TLAPS proofs that the ring implements `IdmQueue` and delivers in order.
- **`HandleTable`**: the handle table (C3). Each function runs under `table_lock`, so each is one step:

  | Function | Action | Source lines |
  |----------|--------|--------------|
  | `handle_table_init` | `TableInit` | 20-50 |
  | `handle_table_insert` | `Insert(z, p, s)` | 55-86 |
  | `handle_table_remove` | `Remove(z, h)` (the ownership failure and not-found returns change nothing) | 126-164 |
  | `handle_table_cleanup` | `Cleanup` | 184-203 |
  | `handle_table_lookup` | `LookupPtr`, `LookupSize`, `Owned` (read only) | 91-121 |

  - The 1024 hash chains become one sequence `entries`, newest first. An entry is only ever found in its own bucket, and within a bucket the newest comes first, so the chain walk is `First(h)`, the first position holding `h`.
  - `nextHandle`, `totalHandles` and `totalMemory` are `uint64_t`: every update is taken `% Word`, where `Word` stands for 2^64.
  - `inserts` is a ghost count, bounded by `MaxInserts`.
- **`HandleMap`**: the abstract table of spec section 3: a map from handle to (zone, pointer, size), handles never reused. `HandleTable` implements it under `map <- AbstractMap`, `issued <- 1 .. nextHandle - 1`.
- **`MCHandleTable`**: two zones, one pointer, sizes {1, 3}, `Word` = 8, 4 inserts.
- **`HandleTableProofs`**: the TLAPS proofs about the table.
- **`HandleTableRefinement`**: the TLAPS proof that the table implements `HandleMap`.
- **`GpuProxy`**: the proxy end to end. It EXTENDS `HandleTable` and adds the two rings, the driver loop with its handlers (C4), and one application thread using the shim (C5).
  - The rings are taken at the level of `IdmQueue`, which `RingChannel` is checked to implement as long as the server does not restart (`QueueRefinement` in the ring runs; a server restart that zeroes the ring breaks it). `tx` and `rx` are bounded FIFOs of `Capacity` messages.
  - Every message carries a ghost `rid`: the call a request belongs to, or the call whose request a response answers. `nallocs` numbers device allocations, and `dev` is the set of allocations the driver still holds.
  - The driver side has one action per handler. Each runs to its end before the next `idm_recv`, and includes every error return:

    | Handler | Action | Source lines |
    |---------|--------|--------------|
    | `handle_gpu_alloc` | `DriverAlloc` | `handlers.c` 131-180 |
    | `handle_gpu_free` | `DriverFree` | `handlers.c` 185-229 |
    | `handle_gpu_copy_h2d` | `DriverCopyH2D` | `handlers.c` 234-299 |
    | `handle_gpu_copy_d2h` | `DriverCopyD2H` | `handlers.c` 304-384 |
    | `handle_gpu_sync` | `DriverSync` | `handlers.c` 389-418 |
    | the `default:` branch | `DriverIgnore` | `main.c` 243-245 |
    | a restart of `run_server` | `DriverRestart` | `main.c` |

    The copy handlers' bounds check `offset + size > alloc_size` is computed on `uint64_t`: `PassesBoundsCheck` takes the sum `% Word`.

    A response is lost when `rx` is full or when the malloc of `idm_build_message` fails (`Reply`). The handlers ignore both.
  - The client side:
    - `ClientCall` is one of the `cuMem*` calls up to its `idm_send`. It builds the request with `seq = next_seq++`, except `cuMemcpyHtoD`, which writes `seq_num = 1` by hand. It includes the failed malloc, which returns before a sequence number is taken, and the full ring.
    - `RecvMatch`, `RecvDiscard`, `RecvTimeout` and `GiveUp` are the loop of `send_and_wait`: at most `MaxAttempts` receives, match by `request_seq`, give up with `CUDA_ERROR_INVALID_VALUE`.
    - `ClientRestart` is a new application process: `next_seq = 1`, no handles, rings untouched.
  - The constants select the environment:
    - `ClientOps`: the calls used.
    - `Offsets`: the `dst_offset` / `src_offset` values a copy may carry. `libvgpu` always sends 0. A user-zone program that builds its own requests, as `test_client.c` does, may send any 64-bit value.
    - `ClientTimesOut`: whether a receive may time out.
    - `BackendFails`: whether CUDA and malloc calls may fail.
    - `MaxDriverRestarts`, `MaxClientRestarts`: the restart bounds.
- **`GpuService`**: what the proxy promises the application (spec 4.4 and 4.5), with no rings, sequence numbers or retries. A call is made (`Call`), performed once by the driver on a `HandleMap` and the device memory (`DoAlloc`, `DoFree`, `DoCopy`, `DoSync`), and returns its answer (`Return`), which the application keeps (`Keep`) and maps to a `CUresult` (`Translate`). `GpuProxy` maps onto it by `Service == INSTANCE GpuService WITH ...`:
  - the handle map is `AbstractMap` and the issued handles are `1 .. nextHandle - 1`, as for `HandleMap`;
  - the phase is `"idle"` when the application is idle, `"sent"` while it waits with nothing in `rx`, and `"done"` once the answer is in `rx`;
  - the call is the request `creq` without its `seq_num`, zone and `rid` (`CallOf`), and the answer is the head of `rx` with `CUDA_ERROR` named `DRIVER_ERROR` (`AnswerOf`).

  `ServiceRefinement == Service!Spec`. A handler step is the service's operation, the dropped `COPY_D2D` is a stutter, and `RecvMatch` is `Return`.
- **`MCGpuProxy`**: one zone, sizes {1, 2}, `Word` = 8, 3 calls, and `MCOffsets` = {0, 7}: offset 0 and the largest 64-bit offset, shrunk to the model's word. Every run uses `Capacity` = 2 and `MaxAttempts` = 2.
- **`GpuProxyProofs`**: the TLAPS proofs about the proxy: types and backed entries.
- **`GpuProxyStable`**: the TLAPS proof that held handles stay bound to their allocation.
- **`GpuProxyMatching`**: the TLAPS proof that `send_and_wait` matches responses to their own call.
- **`GpuProxyLeak`**: the TLAPS proofs that, while the driver answers in time and nothing fails, the proxy implements `GpuService` (`ServiceRefinement`), with the invariant `LeakInv` they rest on.

## Runs

Deadlock checking is off in every run:
- The real ring consumer blocks forever in `sem_wait` once the producer stops.
- The handle table and the proxy stop when their bounds are used up.

| Run (cfg) | Module | Expect | Shows |
|---|---|---|---|
| `RingSafety` | `MCRingChannel` | pass | `TypeOK`, `OccupancyBound`, `InOrderDelivery` and the refinement `QueueRefinement` hold on the driver->user ring, with the client restarting up to twice mid-receive and `malloc` free to fail |
| `RingClientRestartTx` | `MCRingChannel` | pass | the client may restart twice while it produces into the user->driver ring, and occupancy and order still hold |
| `RingLiveness` | `MCRingChannel` | pass | `EveryMessageReceived`: every published message is eventually returned, under fairness, when `malloc` does not fail |
| `RingLostWakeup` | `MCRingChannel` | violation | the `-ENOMEM` path strands a message (finding 1) |
| `RingServerRestartOccupancy` | `MCRingChannel` | violation | a driver restart during a client receive breaks the occupancy bound (finding 2) |
| `HandleTableSafety` | `MCHandleTable` | pass | `StatsAgree`: the statistics equal the table. `HandlesDistinct`: live handles are unique and non-zero. `ZoneIsolation`: a zone never disturbs another zone's entries. `MapRefinement`: the table implements `HandleMap`. |
| `ProxySafety` | `MCGpuProxy` | pass | slow driver, lost responses, failing backend, one driver restart. `TableEntriesBacked`: every entry names its own live allocation. `ResponseMatchesRequest`: a late response is never taken for the current call. |
| `ProxyClientRestart` | `MCGpuProxy` | pass | every call, failures, one application restart. `ClientHandlesStable`: a held handle keeps naming its allocation. |
| `ProxyAnswers` | `MCGpuProxy` | pass | the driver answers in time and nothing fails. `EveryCallReturns`: every call returns. `ServiceRefinement`: the proxy implements `GpuService`. |
| `ProxyH2DSeq` | `MCGpuProxy` | violation | `cuMemcpyHtoD`'s fixed `seq_num = 1` matches a stale response (finding 3) |
| `ProxyOffsetWrap` | `MCGpuProxy` | violation | `OutOfBoundsRejected`: a copy whose offset + size exceeds the allocation must be answered `INVALID_SIZE`. After an ALLOC, an H2D with offset 7 and size 1 passes the check: 7 + 1 wraps to 0 modulo `Word` = 8 (finding 4). |
| `ProxyDriverRestartAlias` | `MCGpuProxy` | violation | handles are reissued after a driver restart (finding 5) |

**Bounds.** These bounds are enough for the cases that matter:
- **Ring.** 6 messages through 2 slots with indices modulo 4 drive both indices across the wrap more than once. They fill the ring, which exercises the full check, and they put a restart or a failed `malloc` at every step of the other process.
- **Handle table.** 4 inserts by 2 zones reach every order of insert, owned remove, foreign remove, unknown remove and cleanup over up to 4 live entries.
- **Proxy.** 3 calls with a 2-slot ring and 2 receive attempts are enough to fill a ring, to have two requests outstanding after a give-up, and to match a stale response.

The correctness of the arithmetic does not depend on the width: the proofs hold for every value of the constants.

**Fairness.** The fairness assumptions follow the code's scheduling:
- **Ring.** The driver's consumer is a loop around `idm_recv`, so `RecvWait`, `RecvRead` and `RecvAdvance` are weakly fair. An `idm_send` that has passed its check never blocks, so its later steps are weakly fair too. Starting a send is not fair: the client may stop sending.
- **Proxy.** The driver loop never stops, so its handlers are weakly fair. A waiting `send_and_wait` keeps calling `idm_recv`, so the receive steps are weakly fair too. Neither starting a call nor a restart is fair.

## Findings

1. **Lost wake-up on `-ENOMEM`** (`transport.c:470`).
   - The token is consumed, but the message is left in the ring.
   - A later timeout returns `-EAGAIN` without looking at the indices.
   - So the message waits until an unrelated send posts again. This contradicts spec 4.2, which says missed wake-ups are tolerated because the loop re-checks the indices.
2. **Server restart during a client receive** (`transport.c:479`).
   - The client's `consumer = cons + 1` lands after `init_shm`'s zeroing.
   - `producer - consumer` becomes 2^32 - 1.
   - From then on, the driver's `idm_send` fails with `-ENOSPC`.
   - The same restart during a client send (`transport.c:364`) re-publishes consumed requests. It is listed as a hazard.
3. **Fixed sequence number in `cuMemcpyHtoD`** (`libvgpu.c:428`).
   - Every H2D request carries `seq_num = 1`.
   - After one copy times out, its late response is returned as the result of a later call with seq 1.
4. **The copy bounds check wraps** (`handlers.c:260`, and `handlers.c:330` for D2H).
   - `offset + size > alloc_size` is computed on `uint64_t`.
   - A request with `offset = 2^64 - 1` and `size = 1` makes the sum 0, so the check passes.
   - The copy then goes to `device_ptr + offset`, outside the allocation. This breaks spec 8, invariant 8.
   - The shim always sends offset 0, so only a program that builds its own requests reaches this path.
5. **Handles reissued after a driver restart** (`handle_table.c:46`).
   - `handle_table_init` resets `next_handle` to 1.
   - A handle the application still holds then names a new allocation.
   - Spec 3 says the counter is not recycled.

Modelling also turned up hazards that no run checks, listed in `PROJECT.json`:
- **No response for `COPY_D2D`** (`main.c:243`). The dispatcher's default branch sends nothing, so `cuMemcpyDtoD` always waits out all 10 attempts. Spec 4.4 asks for an `INVALID_MESSAGE` error.
- **A restart loses a wake-up** (`transport.c:370` and `:436`).
  - A producer that dies between publishing and `sem_post` leaves a message with no token.
  - A consumer that dies after its `sem_wait` and before advancing has used the token up.
  - Either way the message is only read after an unrelated later send. With restarts enabled, TLC breaks `EveryMessageReceived` this way.
- **An application exit leaks its allocations** (`libvgpu.c:130`). The driver keeps the memory of a process that is gone until the driver itself restarts. The model has this path (`ClientRestart` drops the application's map), but neither the code nor the spec promises otherwise, so no run checks it.

## Proofs

The ring proofs are in `RingChannelProofs`. They check with `tlapm RingChannelProofs.tla` and rest on two assumptions:
- `RingAssumption`: `Size` and `IndexMod` are positive, `Size < IndexMod`, and `Size` divides `IndexMod`.
- `ChannelAssumption`: the bounds are naturals.

The lemmas `IncIndex`, `UsedIndex`, `UsedZero`, `UsedInc` and `UsedDec` give the modular arithmetic.

- **`TypeCorrect`: `Spec => []TypeOK`.** `TypeOK` is not inductive, because the semaphore bound needs two more facts:
  - `SendCounted`: the producer posts at most once per message it copied.
  - `CheckedHasRoom`: a send that passed its check still has an ordinal to use.

  `TypeInv` adds these two facts to `TypeOK`. It is proved initial and preserved by each action.
- **`Occupancy`: `Spec => []OccupancyBound`, assuming no server restart.** The inductive invariant `OccInv` adds two facts:
  - `ProducerSawRoom`: a producer between its check and its publish saw the current producer index, and the ring still has room, because only it moves `producer`.
  - `ConsumerSawMessage`: a consumer between its read and its store saw the current consumer index, and the ring is non-empty.

  A server restart breaks both facts, which is finding 2. That is why the theorem needs the assumption.

`HandleTableProofs` (`tlapm HandleTableProofs.tla`) proves three theorems under `NoWrap`: `MaxInserts + 1 < Word`, so `next_handle` never wraps. That is the code's own limit of 2^64 - 1 allocations per driver lifetime. At the wrap, handle 0 is issued and `handle_gpu_alloc` leaves a dangling entry (a hazard in `PROJECT.json`).
- **`TableTyped`: `TableSpec => []TableTypeOK`.**
- **`HandlesUnique`: `TableSpec => []HandlesDistinct`.**
- **`Isolation`: `TableSpec => ZoneIsolation`**, an action property.

All three rest on the inductive invariant `TableInv`. It adds three facts to `TableTypeOK`:
- `CounterBound`: `next_handle <= inserts + 1`.
- `Issued`: every live handle is in `1 .. next_handle - 1`.
- `Ordered`: the table, newest first, lists strictly decreasing handles.

`Ordered` is what makes the chain walk `First(h)` well defined (lemma `FirstFound`): a live handle has exactly one entry. `InsertInv`, `RemoveInv` and `CleanupInv` show that each operation preserves `TableInv`, using the sequence lemmas `PushProperties` and `WithoutProperties`. `IsolationStep` shows that an insert or remove for zone z keeps every other zone's entry somewhere in the table.

`GpuProxyProofs` (`tlapm GpuProxyProofs.tla`) proves two theorems about the whole proxy, again under `NoWrap`:
- **`ProxyTyped`: `Spec => []ProxyTypeOK`.**
- **`EntriesBacked`: `Spec => []TableEntriesBacked`.** Every table entry names device memory that is still allocated, and no two entries share it.

Both hold for every ring size, call bound and restart bound, and with or without failing backend calls. They rest on the inductive invariant `IInv`. It adds the following to `ProxyTypeOK`, `TableInv` and `TableEntriesBacked`:
- `Fresh`: the device memory is a subset of `1 .. nallocs`, and `nallocs + Len(tx) <= calls`. So the pointer `handle_gpu_alloc` gets is new and within `Ptrs`.
- `TxWellFormed`: a queued request has a 64-bit handle, and an ALLOC one has a size of `Sizes`.
- `RxWellFormed`: a queued response has a 64-bit handle and a pointer cuMemAlloc returned. An error response has one of the driver's codes, so the error mapping of `send_and_wait` is defined on it.

There is one lemma per action. `DriverStepInv` factors out what every handler shares. In `AllocInv`, `CounterBound` makes `next_handle >= 1`, so the rollback for handle 0 is never taken. `RemoveBacked` shows that removing the one entry of a handle leaves the others backed, whether `cuMemFree` succeeds or not. TLC checks `IInv` itself before the proof is attempted.

`RingChannelRefinement` (`tlapm RingChannelRefinement.tla`) proves two theorems under the same assumptions, with no server restart:
- **`RingIsQueue`: `Spec => QueueRefinement`.** Each ring implements `IdmQueue` under `queue <- Backlog`. The proof is step by step: `Init` maps to the queue's `Init`, and every step maps to a queue step or a stutter (`RefNextStep`):
  - `SendPublish` is a `Put` of the copied message;
  - `RecvAdvance` is a `Take`;
  - every other step is a stutter, client restarts included. Among these is `SendCopy`, which writes a slot outside the backlog.
- **`InOrder`: `Spec => []InOrderDelivery`.**

The slot arithmetic rests on these lemmas:
- `IdxMod`: reducing an index modulo 2^32 keeps its slot, because `Size` divides 2^32.
- `IdxProd`: the producer's slot is `Used` slots after the consumer's.
- `IdxDistinct`: indices less than `Size` apart name different slots.

The backlog lemmas, over the constant operator `BacklogOf`, build on them:
- `BacklogWrite`: a write at the producer's slot of a ring with room leaves the backlog unchanged.
- `BacklogPut`: publishing appends that slot.
- `BacklogTake`: advancing the consumer drops the head, which is the slot `idm_recv` read.

The refinement needs the inductive invariant `RefInv`. It adds three facts to `TypeInv` and `OccInv`:
- `BacklogValid`: every unconsumed slot holds a message. Without it, the `-EINVAL` skip of an invalid slot would be a step the queue cannot take.
- `CopiedValid`: a copied, unpublished slot holds a message.
- `ReadCurrent`: what `idm_recv` copied out is still the slot at `consumer`.

`InOrder` needs the further invariant `OrderInv`. It adds these facts:
- the backlog is increasing;
- everything received is below everything in the backlog;
- nothing exceeds `nsent`;
- a copied slot holds `nsent`, which is above everything else.

The lemmas `OrderCopy`, `OrderPut` and `OrderTake` show that these facts survive the three steps that move messages.

`HandleTableRefinement` (`tlapm HandleTableRefinement.tla`) proves **`MapRefined`: `TableSpec => MapRefinement`**, under `NoWrap`. The table implements `HandleMap`, whose map is `AbstractMap` and whose issued set is `1 .. next_handle - 1`. The proof uses these lemmas:
- `MapOfPush`, `MapOfWithout` and `MapOfEmpty` compute the abstract map of a pushed, filtered and empty list, through the constant operator `MapOf`.
- `FirstInAt` uses `Ordered` to find the chain walk's entry.

Each operation then maps to its abstract counterpart:
- an insert adds the fresh handle `next_handle`;
- a successful remove deletes exactly its handle;
- a cleanup deletes exactly the zone's handles.

`GpuProxyStable` (`tlapm GpuProxyStable.tla`) proves two theorems under `NoWrap`:
- **`HandlesStableUntilRestart`**: `ClientHandlesStable` holds up to the driver's first restart.
- **`HandlesStable`: `Spec => []ClientHandlesStable`**, when the driver never restarts.

The inductive invariant `StableInv` adds two facts to `IInv` while `restarts["driver"] = 0`. The handle-pointer bindings come from the table, from the OK responses in `rx` and from the client's `cmap`, plus the binding of handle 0 to no pointer. The two facts are:
- `BindingsFunctional`: no handle is bound to two pointers.
- `BindingsIssued`: every bound handle is below `next_handle`.

Each action either keeps the set of bindings or adds only `<<next_handle, nallocs + 1>>` while advancing `next_handle` (lemma `BindingsExtend`). A driver restart resets `next_handle` to 1, and that is where finding 5 breaks the facts.

`GpuProxyMatching` (`tlapm GpuProxyMatching.tla`) proves two theorems under `NoWrap`, without `cuMemcpyHtoD`:
- **`ResponsesMatchUntilRestart`**: `RecvMatch` only accepts the current call's response, up to the client's first restart.
- **`ResponsesMatch`: `Spec => ResponseMatchesRequest`**, when the client never restarts.

The invariant `MatchInv` adds two facts about the sequence-number bindings. These come from the current request, the requests in `tx` and the responses in `rx`:
- `SeqFunctional`: no `seq_num` belongs to two calls.
- `SeqIssued`: every `seq_num` is below `next_seq`.

Both assumptions are needed:
- **H2D.** `cuMemcpyHtoD` writes `seq_num = 1` by hand, which breaks `SeqFunctional` (finding 3).
- **Client restart.** `idm_init` resets `next_seq` to 1 while the rings keep the answers to the old process's calls. TLC confirms that `ResponseMatchesRequest` fails after a client restart: a stale response to the previous process's call carries a `seq_num` that the new process reuses. No run lists it, because the code never claims to survive that case.

`GpuProxyLeak` (`tlapm GpuProxyLeak.tla`) first builds the inductive invariant `LeakInv` (`LeakInit`, `NextLeak`). It assumes `NoWrap` and `Quiet`, the environment of `ProxyAnswers`:
- no receive timeout (`~ClientTimesOut`);
- no failing CUDA or malloc call (`~BackendFails`);
- no restart of either process (`MaxDriverRestarts = 0`, `MaxClientRestarts = 0`).

Besides `IInv`, `LeakInv` holds `HandleLeakFree`: every allocation the driver holds has a table entry whose handle the application holds or is about to receive. The refinement below needs it, because `RecvMatch` must never drop a handle the service still maps. It is not stated as a theorem or run of its own: `Quiet` takes away every path by which the code leaks, so on its own it would say little. `HandleLeakFree` alone is not inductive: a state where a FREE's OK answer is queued, but the handle still has an entry, would let `RecvMatch` drop a live handle from the map. The invariant `LeakInv` adds `IInv` and `OneCall`. `OneCall` says that the application has one call in flight, that nothing was discarded or retried (`attempts = 0`), and that no restart happened. The call in flight is in one of three states:
- `Requested`: its request is in `tx`.
- `Answered`: its answer is the one response in `rx`, with its `rid` and `seq_num`. Only an OK ALLOC answer carries a handle, and an OK FREE answer means the handle's entry is gone.
- `Unanswered`: a `COPY_D2D` that the driver dropped.

There is one lemma per action:
- `AllocLeak`: the new handle travels in the answer.
- `FreeLeak`: `handle_table_remove` takes the one entry of the handle (`FirstFound`), so the others keep their place.
- `MatchLeak`: `Keep` adds the ALLOC's handle, and drops only a handle with no entry.
- `NoOtherStep`: `RecvDiscard`, `RecvTimeout`, `GiveUp` and both restarts are disabled.

TLC checked `LeakInv` on the `ProxyAnswers` instance, with and without `COPY_D2D`, before the proof.

`GpuProxyLeak` also proves **`ProxyIsService`: `Spec => ServiceRefinement`**, the refinement of the proxy into `GpuService`, under `NoWrap`, `Quiet` and `NoOffsetWrap` (`o + s < Word` for every offset `o` and size `s`). `NoOffsetWrap` holds for `libvgpu`, which sends offset 0. Without it, the wrapped bounds check passes a copy that the service answers with INVALID_SIZE (finding 4). With `Offsets = {0, 7}` in the `ProxyAnswers` configuration, TLC breaks the refinement in this way.

The proof needs `LeakInv` and one more conjunct, `CopyShape`: a copy in flight carries an offset of `Offsets` and a size of `Sizes`. It goes one step at a time:
- `ServiceInit`: the driver's start is the service's.
- `CallRefines`: `ClientCall` is `Call`, and `CallOfCalls` shows its request is one of the service's calls.
- `AllocRefines`: `DriverAlloc` is `DoAlloc`. The pointer is `nallocs + 1`, which `Fresh` keeps out of `dev`. The handle is `next_handle`, through `HandleTableRefinement`'s `InsertRefines`, which names the handle it hands out (`HandleMap!InsertAs`).
- `FreeRefines`: `DriverFree` is `DoFree`, through `RemoveRefines`. `OwnedIsOwns`: the table's ownership test is the map's.
- `CopyRefines`: a copy handler is `DoCopy`. Under `NoOffsetWrap` the `uint64_t` sum is the plain sum.
- `SyncRefines`: `DriverSync` is `DoSync`.
- `IgnoreRefines`: `DriverIgnore` changes nothing the service shows, so the call stays sent.
- `MatchRefines`: `RecvMatch` is `Return`. `KeepAgrees` and `TranslateAgrees` show that `send_and_wait`'s `Keep` and error mapping are the service's.

TLC checks `ServiceRefinement` in `ProxyAnswers`. It also holds with `COPY_D2D` among the calls and offsets {0, 1}, which the run leaves out. The theorem covers every ring size, call bound, size set and offset set that satisfies the assumptions.

Only TLC checks the following:
- `StatsAgree`. The sum over the table (`MemSum`) is a recursive function. Unfolding it, or relating the sum of a changed table to the old one, needs the library's inductive-definition and induction theorems. Those take an operator parameter, which the installed provers cannot instantiate.
- All properties for a server restart (ring) or a driver restart (proxy), where the runs show that they fail.
- Liveness (`EveryMessageReceived`, `EveryCallReturns`). TLAPS cannot prove liveness under fairness, or reason about `ENABLED`.

## Not modelled (yet)

- The Xen transport (`USE_XEN`). Its grant mapping and its receive timeout are TODOs in the code.
- Byte layouts and payload lengths. The unchecked `payload_len` of H2D is listed as a hazard.
- A sender that forges `src_zone`. One client zone is modelled, and the handlers trust the header (a hazard).
- More than one application thread. `idm_send` and `idm_recv` take no lock, so concurrent `send_and_wait` calls would race. This is listed as a hazard.
- Torn writes: a `memset` that races a `memcpy` on the same slot. The model treats each copy as one step.
- The local-only shim calls (device queries, contexts, the `cuMemset*` stubs) and `init_cuda`. They change no shared state.

## Plan

1. Refine `GpuProxy` outside `Quiet`, into a service whose calls may fail, be lost or be performed without an answer.
2. Add a property, and a run, for memory orphaned by a failed `cuMemFree` (spec 3: remove only after the backing free succeeds), and a run for the unanswered `COPY_D2D`.
3. Model the multi-threaded client: two threads in `send_and_wait` over one connection.
