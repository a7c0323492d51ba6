# Verification of the AdaptivePow GPU miner

These TLA+ modules model the YaCoin AdaptivePow GPU miner. They cover two source files:

- `src/yacoin-gpu-miner/src/opencl/opencl_miner.cpp`. It holds the OpenCL backend
  (`adaptivepow_opencl_*`, lines 1-362) followed by the host miner API of
  `miner.cpp` (`miner_*`, lines 363-743).
- `src/unnamed/part_000`, the OpenCL kernels (`adaptivepow.cl`).

## The system

| Part | Code | What it does |
|---|---|---|
| Host miner API | `miner_init`, `miner_generate_dag`, `miner_submit_job`, `miner_get_result`, `miner_update_epoch`, `miner_shutdown` | Owns a `MinerContext`: epoch, DAG size, the `dagReady` flag, the nonce cursor, the hash counter, and a single pending-result slot. |
| OpenCL backend | `adaptivepow_opencl_init / generate_dag / search / cleanup` | Owns an `OpenCLContext`. It holds its **own copy** of the epoch, DAG size and ready flag, plus the kernels, the DAG buffer, and the results and result-count buffers. |
| Cache kernel | `generate_cache` | One launch. Work-item `idx` hashes item `idx-1` of the cache into item `idx`. |
| DAG kernel | `generate_dag` | Launched in chunks of 1M items. Each item mixes 256 cache parents. |
| Search kernel | `adaptivepow_search` | One work-item per nonce. A winner takes a slot with `atomic_inc(result_count)` and stores its nonce if the slot is below 16. |
| Primitives | `fnv1a`, `kiss99`, `keccak_f800`, `random_math_op` | Pure 32-bit arithmetic. |
| Epoch/target arithmetic | `getDagSize`, `adaptivepow_get_*`, `bits_to_target*`, `target_to_difficulty` | Pure arithmetic. |

How the parts interact:

1. Each `miner_*` call runs the matching backend call synchronously.
2. The backend enqueues its work on one in-order command queue, then blocks in `clFinish`.
3. Inside a launch, the work-items run concurrently. They share only device memory: the cache in `generate_cache`, and the result counter and slots in `adaptivepow_search`.

What is hard to test in this code:

- the two copies of the epoch;
- OpenCL errors that are ignored, yet the code still reports success;
- the work-item races;
- the ordering of non-blocking writes on the queue;
- the single pending-result slot;
- 32-bit truncation at large epochs.

`PROJECT.json` lists every hazard with its source line.

## Modules

### `Miner` (host control path)

`Miner` models one context: `MinerContext` and `OpenCLContext` together.

**State.**

- The variables `epoch`, `dagLog` and `dagReady` are the MinerContext's copies.
- `gEpoch`, `gDagLog` and `gDagReady` are the OpenCLContext's copies.
- `cacheKernelOk` and `dagKernelOk` record whether each kernel handle is non-NULL.
- The DAG buffer `dag` holds the *identity* of the dataset written into it: the GPU seed and the log2 size. It can also be `Uninit` or `Junk`.
- Sizes are kept as log2, because 2^30 and above do not fit TLC's integers.
- Three history variables record what happened: `probes` (how often each nonce was hashed), `found` and `reported`.

**Actions.** There is one action per API call. Each action includes the backend function the call makes:

| Action | Models |
|---|---|
| `MinerInit(e)` | `miner_init` + `opencl_init`. The kernel-creation failures are unchecked. |
| `GenerateDag` | `miner_generate_dag` + `opencl_generate_dag`. |
| `SubmitJob(j)` | `miner_submit_job` + `opencl_search`. |
| `GetResult` | `miner_get_result`. |
| `UpdateEpoch(e)` | `miner_update_epoch`. It includes its call of `miner_generate_dag`. |
| `Shutdown` | `miner_shutdown` + `opencl_cleanup`. |

**Faults.** The `Faults` constant chooses which OpenCL failures may happen:

- `CacheAlloc` is checked by the code: it returns -2.
- `KernelCreate` is unchecked.
- `Launch`: the error codes of enqueues are never read.

**The DAG pass and the DAG size.** `DagPass` says what one DAG pass leaves in the buffer. It depends on the size, as the code does:

- Below 2^28 items (epochs below 20), the pass writes the dataset, or `Junk` if the cache was not generated.
- From 2^28 to 2^31 items (epochs 20-31), the word index `idx*16+i` of kernel line 241 wraps in 32 bits. Upper items overwrite lower ones, so the result is `Junk`. Module `DagKernel` shows how this happens.
- From 2^32 items (epochs 32 and up), the 64-bit `dagItems` is passed with `sizeof(uint32_t)` (line 262). The kernel sees 0, every work-item returns at kernel line 220, and the buffer keeps what it held.

In every case, `dagReady` is set and 0 is returned.

**Abstraction of the search.** A search batch is one step: the host blocks in `clFinish`. The hash is abstracted to a relation `Wins(job, dataset, nonce)`.

### `SearchKernel` and `SearchBatch` (one search call, work-item level)

`SearchKernel` models one search call at the level of work-items:

- **Host:** `Dispatch` enqueues `WriteHeader`, `ResetCount` and `Search`. `Collect` runs after `clFinish`: it reads the count and slot 0, then advances the cursor.
- **Command queue:** a sequence executed head first.
- **Work-items:** `Hash(t)`, `Inc(t)` (the `atomic_inc`) and `Store(t)` (the `idx < 16` store).

The counter and the slots persist between calls and start with arbitrary contents.

`SearchBatch` is the contract a caller relies on. Each call hashes the next `BATCH_SIZE` nonces and reports a winner of that batch exactly when there is one.

`SearchKernel` implements `SearchBatch`:

- The refinement is the property `Implements == Abstract!Spec`. TLC checks it, and `SearchKernelProofs` proves it.
- `Abstract` is `INSTANCE SearchBatch`.
- The mapping is the identity on `cursor` and `reported`.
- Every device step is a stutter of the abstract spec.

### `CacheKernel` (the `generate_cache` launch)

`CacheKernel` models one launch of `generate_cache`.

- Its work-items read `cache[idx-1]` and write `cache[idx]`, one word per step.
- Cache words are terms: `<<d, k>>` is word `k` of the seed block hashed `d` times.
- Keccak maps a chain block to the next chain block. Keccak-f is a permutation, so any other block maps to `Junk`.

### `DagKernel` (the DAG pass of `generate_dag`, and the search's DAG loads)

`DagKernel` models lines 257-282 of `adaptivepow_opencl_generate_dag` and the `generate_dag` kernel.

- **Host loop.** `Enqueue` is one iteration of the chunk loop: the chunk's global size is rounded up to the local size (`RoundUp`, line 273) and `offset` advances by `batchSize`. `Finish` is the loop exit and `clFinish`.
- **Device.** `Launch` starts the chunk at the head of the queue (all its global ids). `Run(g)` is one work-item, and `Complete` pops the chunk.
- **Work-items.** A work-item takes `idx = g` as a uint, returns if `idx >= dag_items`, and writes the words `idx*16+i` as uint (`Locs`).
- **Width.** The kernel's uint is `Width` bits wide, and `dag_items` is the host's 64-bit count modulo `2^Width`, because line 262 passes it with `sizeof(uint32_t)`.
- **Abstraction of the mix.** The 256-round mix of an item is a function of its index (spec 4.4), so a word holds the index it was written for.
- **Search loads.** `Load(h)` is the DAG load of `adaptivepow_search` after generation, for an fnv1a value `h`: `dag_idx = h % dag_size`, with `dag_size` the `uint32_t` of host line 309. The words it loads are `dag_idx*16+i`. When `dag_size` is 0, the remainder is undefined and modelled as any uint.

### `EpochMath` (targets and seeds)

`EpochMath` models `bits_to_target64`, `bits_to_target256`, `adaptivepow_get_seed` and the seed block of `adaptivepow_opencl_generate_dag` as operators over byte sequences, least significant byte first.

- Bytes are exact here, since every shift in this code is by a multiple of 8.
- The undefined shift at line 709 (a count of 64 or more) is modelled as x86-64 and AArch64 execute it: the count is taken modulo 64.
- The state is only the input under examination (`nSize`, `nWord`, `epoch`). Each step picks another input, so each property is checked over every input of the sets.

### Proof modules

`MinerProofs`, `SearchKernelProofs` and `DagKernelProofs` hold the TLAPS proofs about `Miner`, `SearchKernel` and `DagKernel`. Each one EXTENDS its module and `TLAPS` (see "Proofs" below).

## Runs

| Run | Config | Expect | What it shows |
|---|---|---|---|
| `miner_core` | `MC_Miner.cfg` | pass | With only the checked cache-allocation fault enabled, and over epochs whose DAG fits, wraps and is truncated, these hold: `ProbedExactlyOnce` (every nonce below the hash count was hashed by exactly one work-item), `PendingResultValid` (a pending result is a winner of its job on the DAG it was searched on, below the cursor) and `NoShareReissued` (a pending result never carries a nonce that `miner_get_result` already handed out in this context). |
| `search_kernel` | `MC_SearchKernel.cfg` | pass | `DrainedResultsExact`: once the queue has drained, the count equals the number of winners and the filled slots hold distinct winners of this batch. This holds even when there are more winners than slots. `Implements` is the refinement of `SearchBatch`. |
| `dag_kernel` | `MC_DagKernel.cfg` | pass | For DAGs of whole chunks whose word indices fit the width: `DagComplete` (when `generate_dag` returns, every item holds its own mix), `SearchLoadsItem` (a later search loads item `h mod n_dag`, which is what a CPU verifier reads), `MixesStay` (an action property: no work-item, in any order, overwrites a word that already holds its item's mix). |
| `dag_index_wrap` | `MC_DagKernel_Wrap.cfg` | violation | Past 2^28 items (epochs 20-31), `idx*16+i` wraps. Upper items overwrite lower ones, and the rest of the buffer is never written. |
| `target64_shift` | `MC_EpochMath_Target64AsSpecified.cfg` | violation | From `nSize = 11` (which includes `0x1d00ffff`), `bits_to_target64` is not the 0 that spec section 6 gives. |
| `target256_oob` | `MC_EpochMath_Target256InBounds.cfg` | violation | `bits_to_target256` stores past its 32 bytes when `nSize > 32`. |
| `seed_mismatch` | `MC_EpochMath_SeedsAgree.cfg` | violation | The CPU seed differs from the GPU seed from epoch 1 on. |
| `miner_stale_epoch` | `MC_Miner_StaleEpoch.cfg` | violation | After `miner_update_epoch`, the DAG is the *old* epoch's dataset. |
| `miner_kernel_create` | `MC_Miner_KernelCreate.cfg` | violation | `ReadyImpliesGenerated` (a ready DAG holds a generated dataset) fails over epochs whose DAG the kernel can write: a NULL kernel or a failed launch leaves the DAG unwritten or cut short, yet it is marked ready. |
| `miner_launch_fail` | `MC_Miner_Launch.cfg` | violation | A failed launch is counted as `BATCH_SIZE` hashes. |
| `miner_lost_share` | `MC_Miner_LostShare.cfg` | violation | A second find overwrites an unfetched pending result. |
| `cache_race` | `MC_CacheKernel.cfg` | violation | The cache is not the keccak chain: a work-item reads its predecessor's item before it is written, or while it is half written. |

The findings (`PROJECT.json`) describe what each violation means for the code.

Each property of a passing run has a mutant: a plausible bug in the mapped code that the property catches. The mutants are:

- the 10-doubling cap of the DAG size dropped;
- a global size of one extra work-item;
- an inverted target test;
- the counter reset not enqueued;
- `foundNonce` kept from the previous call;
- the `idx < 16` guard dropped;
- the DAG pass returning without `clFinish` while chunks are still queued (`DagComplete`);
- the search's load loop reading one word past its item (`SearchLoadsItem`);
- `miner_get_result` leaving `hasResult` set (`NoShareReissued`);
- the DAG kernel's word loop running to `i <= 16` (`MixesStay`).

### Bounds

**`MC_Miner`:**

- The epochs of `miner_core` are {0, 1, 20, 44}:
  - 0 and 1 share a DAG size but have different seeds.
  - 20 is the first epoch whose word indices wrap.
  - 44 hits the cap of 10 doublings, and its `dag_items` reaches the kernel as 0.
- The runs about the DAG contents (`miner_stale_epoch`, `miner_kernel_create`) use {0, 1, 16}. 16 has the largest DAG that the kernel can write. This keeps the size bugs out of their counterexamples.
- `BATCH_SIZE` = 2 and 6 nonces: three batches, so the cursor reaches its bound.
- There are two jobs.
- `Wins` is a fixed pattern. Some batches have zero winners, some one and some two, and the pattern differs between jobs and datasets.

**`MC_SearchKernel`:**

- `BATCH_SIZE` = 3 with 2 slots, so a batch with 3 winners overflows the slots.
- The nonces run to 9, so the initial counter garbage, a batch with no winner and a full batch all occur.

**`MC_CacheKernel`:** 3 items of 2 words with a local size of 2. This gives one padding work-item, two reads that race, and torn words.

**`MC_DagKernel`** uses a 6-bit uint, 4 words per item, chunks of 4 items and work-groups of 2. 2^6 words hold 16 items, just as 2^32 words hold 2^28 items of 16 words. The sizes scale accordingly:

- 8 and 16 items: whole chunks, as the code's sizes always are (2^24 items and up, in chunks of 2^20); 16 is the largest DAG that fits;
- 32 items: the indices wrap, as for epochs 20-31;

`MaxQueue = 4` bounds the chunks in flight. The code's queue has no such bound, so with more than 4 chunks (32 items) the model's host waits for the device to catch up. The device still runs chunks in order, and the work-items of a chunk still run in any order.

**`MC_EpochMath`** covers:

- exponents 0..40: the cases <= 3, the undefined shift from 11, and past 32;
- mantissas 1, 0xffff, 0x123456 and 0x7fffff;
- epochs 0..3.

**Fairness.** No run assumes fairness: every property is a safety property. The device steps and `clFinish` have no loop, so "every dispatch returns" and "generation returns" would follow from fairness whatever the code did. They are not checked.

## Proofs (TLAPS)

Every theorem below is proved by `tlapm` to the last leaf. Each holds for every value of the constants that satisfies its module's ASSUMEs, plus the hypothesis in the last column.

| Module | Theorem | Statement | Extra hypothesis |
|---|---|---|---|
| `MinerProofs` | `TypeCorrect` | `Spec => []TypeOK` | none |
| `MinerProofs` | `SearchOnGeneratedDag` | `Spec => []ReadyImpliesGenerated` | Neither `KernelCreate` nor `Launch` is in `Faults`, and `EpochsFit`: every epoch's `DagLog2` is at most 34, i.e. epochs below 20. |
| `MinerProofs` | `NonceCoverage` | `Spec => []ProbedExactlyOnce` | `Launch` is not in `Faults`. |
| `MinerProofs` | `PendingResultSound` | `Spec => []PendingResultValid` | none, for every fault set |
| `MinerProofs` | `NoShareReissuedHolds` | `Spec => []NoShareReissued` | none, for every fault set |
| `SearchKernelProofs` | `SearchTypeCorrect` | `Spec => []TypeOK` | none |
| `SearchKernelProofs` | `ResultsExact` | `Spec => []DrainedResultsExact` | none |
| `SearchKernelProofs` | `Refinement` | `Spec => Implements` (`SearchKernel` implements `SearchBatch`) | none |
| `DagKernelProofs` | `DagCompleteFits` | `Spec => []DagComplete` | `Fits` |
| `DagKernelProofs` | `SearchLoadsItemFits` | `Spec => []SearchLoadsItem` | `Fits` |
| `DagKernelProofs` | `MixesStayFits` | `Spec => MixesStay` (an action property) | `Fits` |

**Assumptions.**

- `Miner` assumes that epochs are naturals, `BatchSize > 0`, `BatchSize <= MaxNonce`, and that the sentinels are distinct.
- `SearchKernel` assumes a positive batch size and cap, a nonce bound of at least one batch, and distinct sentinels.
- `DagKernel` assumes positive widths and sizes.
- `Fits` says that for every DAG size `d`, `d * WordsPerItem <= 2^Width` and `d < 2^Width`. That is, the word indices `idx*16+i` fit the kernel's uint. The run `dag_index_wrap` shows the DAG theorems are false without it. In the code, `Fits` holds for epochs below 20.
- The failing runs `miner_kernel_create` and `miner_launch_fail` show that the fault hypotheses of `SearchOnGeneratedDag` and `NonceCoverage` are needed. `EpochsFit` is needed too: at epoch 20 or 44 the pass leaves `Junk` or an unwritten buffer (`DagPass`).

**Inductive invariants.** None of the invariants is inductive as it stands. Each proof uses a strengthening, which TLC checked first as an invariant of the runs:

- **`TypeInv`** (`Miner`) adds `totalHashes = currentNonce` and `gDagLog = DagLog2(gEpoch)`. Without them, the bounds on the counters and the type of the DAG written do not follow.
- **`ReadyInv`** (`Miner`) adds `alive => cacheKernelOk /\ dagKernelOk`.
- **`NonceInv`** (`Miner`) is the type invariant plus `ProbedExactlyOnce`.
- **`PendingInv`** (`Miner`) is `TypeInv /\ PendingResultValid`. It is needed because the cursor and the probe counts only grow.
- **`ShareInv`** (`Miner`) adds two facts: every handed-out nonce is below `currentNonce`, and a pending nonce is above every handed-out one. A find comes from the batch at the cursor, and the same `miner_submit_job` then moves the cursor past it.
- **`IInv`** (`SearchKernel`) is needed because `DrainedResultsExact` speaks only of a drained queue. While a batch runs, `RunInv` tracks ownership:
  - a work-item in `Inc` or `Store` is a winner;
  - `count` is the number of winners that have passed `atomic_inc`;
  - their slots are exactly `0..count-1`, one each;
  - a stored slot below the cap holds its winner's nonce.
  `IInv` also relates the host phase to the queue contents. `TypeOK` alone is not inductive either, because `reported` is a nonce only since slot 0 holds a winner.
- **`DInv`** (`DagKernel`) says that every item below `offset` is *covered*: either all its words are written, or it lies in a queued chunk whose work-item for it has not yet run. A word of an item holds garbage or that item's mix, and at most the head chunk runs. The step for a work-item rests on the lemma `WordsDisjoint` (`x*16+i = y*16+j` implies `x = y`), and on `idx*16+i < 2^Width` under `Fits`. Together they mean no work-item writes another item's words (`RunKeeps`). The step for a chunk rests on `RoundUp(n) >= n` (`RoundUpBound`).

**The refinement.** The refinement of `SearchBatch` is proved step by step:

- `Init` maps to the abstract `Init`.
- Each device step and `Dispatch` is a stutter of `<<cursor, reported>>`.
- `Collect` is an abstract `Search` step (lemma `CollectRefines`). Under `IInv` a drained batch's `count` is the number of its winners, so slot 0 holds a winner exactly when there is one.
- `Cardinality(Winners) = 0` gives an empty set (lemma `NoWinners`).

Each step proof has one case per action, and one step per conjunct the action can disturb.

**What stays with TLC:**

- Liveness. There is none in the project, and these provers could not handle fairness and ENABLED in any case.
- `CacheKernel` and `EpochMath`. `EpochMath` uses `Bitwise`, and a module with theorems cannot reach `Bitwise`. Their runs are violations in any case.
- The violation runs.

The provers know nothing of `2^Width` for a symbolic `Width`. The DAG proofs get `2^Width \in Nat \ {0}` from a positive DAG size below it (lemma `PowPositive`).

## Not modelled (yet)

- The hash primitives. They are planned as a TLC-only module checked against reference definitions on small widths.
- `adaptivepow_get_epoch` (one division) and `target_to_difficulty` (floating point).
- `verify_solution`: it is a stub.
- Device enumeration and kernel-source loading: this is I/O. Their failures appear as a no-op step of `miner_init`.
- `miner_get_stats`: it is read-only.
- The CUDA backend: it is not in the repository.
