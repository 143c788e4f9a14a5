# TLA+ models of the Titan X5B GPU

This directory holds a verification development for this repository: TLA+ modules
translated from the Verilog under `rtl/` and from the Python programs that compile
kernels and judge the RTL (`compiler/`, `tb/`), TLC configurations that model-check
them on small instances, and theorems about the RTL and about the arithmetic of the golden
models that TLAPS proves for every value of the constants. `PROJECT.json` maps every
definition to the lines it models and lists components, runs, mutants, findings,
hazards and theorems.

## 1. The system

The default device (`rtl/titan_x5_gpu_top.v`) has four streaming multiprocessors
(SMs) of eight warps, four texture units (TMUs), a command processor and a set of
fixed-function units. A host driver (`driver/titan_x6_drv.c`) feeds it through a
command ring in memory.

The L1s of the SMs are coherent; those of the TMUs are read-only, hang on the word
crossbar with their snoop port tied off, and take part in the flush only.

    driver --ring--> command processor --launch, fence--> SM 0..3
                            |                              |  \ fetch
                            |                         LSU, L1  word crossbar
                            v                              |         |
                      flush_ctrl --flush--> L1 x4 -- coherent xbar   |
                            |                              |         |
                            +-------flush------------> L2 (banked)   |
                                                           |         |
                                              adapter (line <-> beats)|
                                                           |         |
                                             clock-crossing FIFOs -- CDC
                                                           |         |
                                              memory controller (wide, narrow) -> AXI

Beside the device stand the programs that feed and judge it. `titan_compiler.py` turns
a Python function into instruction words and checks itself on an instruction
simulator; `gen_vectors.py` draws the stimulus of the testbenches; the golden models
under `tb/uvm/` say what the hardware should answer; `run_regression.py` runs the
suites, and `compute_runner.py` keeps the elaborated whole-GPU images the compute suite
runs kernels on. A wrong answer here passes a broken design or blames a sound one.

    kernel.py -> compiler --words--> simulate()             (self test)
                            \-------> compute_runner: build() image, run() kernel
    gen_vectors --corpora--> cocotb testbenches <--expected-- fp_ref, tensor_ref, rt_ref
                                   |  coverage bins
    run_regression: build, test, results.xml -> exit status

### 1.1 Inventory

Components that carry the core logic, their state, operations and interactions.

| component (source) | state | operations | talks to |
|---|---|---|---|
| L1 data cache (`memory/titan_x5_l1_cache.v`) | FSM of 7 states, MESI/tag/data arrays, replacement pointers, latched core request, latched victim way and bus request, flush walk position | look-up, hit, upgrade, miss with or without dirty victim, fill; snoop service in parallel; flush walk | LSU above, coherent crossbar below (TMU: sampler above, word crossbar below); `flush_req/done` level handshake |
| Coherent crossbar (`titan_x5_coherent_xbar`) | front-end FSM, round-robin pointer, snoop accumulators, transaction queue, L2 engine FSM | grant, snoop broadcast, decision, fast response, queue push and pop, L2 write and read, response | the four L1s of the SMs (requests, snoops, one shared response bus), L2 |
| Flush sequencer (`control/titan_x5_flush_ctrl.v`) | FSM of 5 states | flush all eight L1s, drain the bus, flush the L2, release | command processor, L1s, crossbar, L2 |
| L2 cache (`memory/titan_x5_l2_cache.v`) | FSM, valid/dirty/tag/data, one replacement counter, walk position | compare, write back, allocate, refill, flush | crossbar engine, adapter, sequencer |
| L2 memory adapter (`memory/titan_x5_l2_mem_adapter.v`) | FSM, line buffer, beat counter | split a line into beats, reassemble a line | L2, the two wide FIFOs |
| Clock-crossing FIFOs (`display/titan_x5_async_fifo.v`) | RAM, Gray pointers, synchronisers, read register | push, pop, crossing | core and memory clock domain |
| Memory controller (`memory/titan_x5_mem_controller.v`) | FSM, registered ready, request latch, `last_was_wide` | alternate two ports, AXI write and read transactions | both CDC paths, AXI |
| SM pipeline (`core/titan_x5_pipeline.v`), PC unit (`core/titan_x5_pc_unit.v`) | per-warp PC, active, epoch, predicates; fetch tag; instruction FIFO; ID/EX/MEM/WB registers | fetch, squash, decode, branch, retire, forward, launch, write back | scheduler, ALU, LSU, register file |
| Warp scheduler (`core/titan_x5_warp_scheduler.v`) | scoreboard, ages, round-robin pointer, barrier mask, divergence stack | choose a ready warp, set and clear scoreboard bits | pipeline |
| Load/store unit (`memory/titan_x5_lsu.v`) | FSM of 4 states, pending lanes, accumulator | coalesce lanes into line requests, respond | pipeline, L1 |
| Instruction cache (`memory/titan_x5_icache.v`) | valid/tag/data, fill FSM | hit, fill by words | SM fetch port, word crossbar |
| Command processor (`control/titan_x5_command_processor.v`) | ring read pointer, FSM, command buffer, fence state | fetch commands, dispatch, fence, interrupt | ring in memory, sequencer, driver |
| Word crossbar (`titan_x5_crossbar`), DMA engine, AXI-Lite | grants, FSMs | arbitration, responses, descriptor copies | fetch, command processor, ROP, DMA |
| Networks on chip (`titan_x5_noc_router.v`, `titan_x6_noc_router.v`, ...) | VC buffers, credits, output locks | route, allocate, forward | mesh; not connected to the device top |
| Compute compiler (`compiler/titan_compiler.py`) | words, fixups, labels, free registers, variables | lower expressions, statements and loops; match a matrix product and tile it; assemble and patch | kernels in, words out to simulator and image |
| Reference simulator (`simulate()`) | memory, registers, predicates, pc, steps | one instruction a step, watchdog | compiler |
| Golden models (`tb/uvm/fp_ref.py`, `tensor_ref.py`, `rt_ref.py`) | none: pure functions | add, multiply, fused multiply-add; multipliers and the accumulator of the array; intersection, BVH, traversal | testbenches |
| Stimulus and coverage (`tb/vectors/gen_vectors.py`, `tb/uvm/coverage_util.py`) | a random generator; bins | directed and random operand pairs and lane patterns; sampling | testbenches |
| Regression runner (`tb/run_regression.py`) | results files, failures, infrastructure errors | select, build, test, check results, exit | suites, pytest |
| Image cache (`tb/compute_runner.py`) | one elaborated image per configuration on disk | look up by name and time stamp, elaborate, run | sources, environment variables, iverilog |
| Host driver (`driver/titan_x6_drv.c`) and functional model (`driver/titan_x6_gpu_model.c`) | ring write pointer, fence sequence, allocator | submit, wait, allocate | registers, ring |

The RTL's data paths (floating point, tensor units, raster, ray tracing, display,
crypto, super resolution), alternative blocks the device top does not instantiate (X7
SM, X6 top, other memory controllers) and the remaining scripts are listed in
`PROJECT.json` with the reason they are left out.

### 1.2 What is hard here

* **Snooping with a split-transaction bus.** A cache's request waits for its grant
  while snoops of others change the very line it is about: the code names *race 1*
  (a Shared copy invalidated under a waiting upgrade) and *race 2* (a dirty victim
  taken under a waiting write-back).
* **Deferred snoops.** Which states of a cache may defer a snoop decides between
  lost data and deadlock.
* **Pulses.** Grants, snoop answers, responses and acknowledgements last a cycle; a
  partner in another state loses or misinterprets them.
* **Reservation.** The queue slot of a transaction is reserved at the grant and
  filled later without looking.
* **Hand-over taken for completion.** The L2 counts a line as written back when the
  adapter has accepted it, and the adapter does not wait for acknowledgements.
* **Wrong-path instructions**, told apart by a one-bit epoch; **forwarding** in a
  pipeline whose operands are read at pop and produced later; **scoreboard bits**
  that must be cleared by whoever set them.
* **Liveness**: arbitration, the flush walk, registered ready, the throttle of the
  warp scheduler.
* **Lowering**: temporaries given back once and not twice, branches patched after the
  label is bound, a syntactic pattern accepted for what it does not mean.
* **Golden arithmetic**: one rounding of an exact result, subnormals, the carry of a
  rounding into the next binade, the sign of a zero, two models of one operation.
* **Stimulus that misses its corner**: a vector named after a tie that is not one
  passes as silently as the tie would.
* **Results and images left over** from an earlier run, another environment, or a run
  that was killed.

### 1.3 What makes each component correct

* L1s and crossbar: one owner per line, one frame per line and cache, every copy
  up to date, no store lost, one transaction per line, no response lost, room in
  the queue; seen from the cores, one atomic memory of lines; every snoop answered
  and every request served.
* Flush: when the sequencer moves on, every store is where the next level will look
  for it, and nothing is left behind.
* L2 and memory path: no store is lost below the crossbar in any order of
  write-backs, refills and flushes; a refill brings what memory holds; both ports of
  the controller make progress.
* SM: what a warp executes is its program in order; operands are the newest values;
  the FIFO drops nothing; when it drains, registers and scoreboard are clean; it
  never wedges.
* Compiler: what the words compute is what the Python function computes; every kernel
  reaches its EXIT; every register is returned.
* Golden models: answers equal a statement of the result that is computed otherwise
  (IEEE rounding by search, determinants, search of all triangles).
* Stimulus: each category reaches the corner it is named for; the directed categories
  fill the bins.
* Regression: exit status 0 was earned by this invocation; a kernel runs on the image
  that was asked for, built from the sources as they are.

## 2. Modules

| module | models | kind |
|---|---|---|
| `CoherentBus` | L1s, coherent crossbar, flush sequencer, L2 as a store behind its port | component composition, one action per FSM transition |
| `LineMemory` | what the caches promise: an atomic memory of lines | abstract specification |
| `MemPath` | L2, adapter, wide FIFOs, memory controller | component composition |
| `SmPipeline` | PC unit, scheduler scoreboard, pipeline, integer ALU latency, LSU handshake, register file | clock-synchronous model |
| `TitanIsa` | instruction words and one thread's arithmetic | operators |
| `TitanCompiler` | both backends of the compiler | operators over a compilation state |
| `TitanMachine` | the simulator, running a compiled kernel | state machine, one instruction a step |
| `PyKernel` | what a kernel means as a Python function | reference definition, properties |
| `FpRef` | golden model of scalar floating point | operators |
| `TensorArith`, `TensorRef` | golden model of the tensor array: its multipliers and adder, the matrix product | operators |
| `Fp8Codec` | the compiler's FP8 conversions | operators |
| `RtFixed`, `RtRef` | golden model of ray tracing: fixed-point arithmetic and intersections, the BVH and its traversal | operators |
| `GenVectors` | stimulus corpora and coverage bins | operators |
| `Questions` | one call of a golden model and its answer | state machine, extended by the next three |
| `FpModels`, `RtModels` | calls of scalar and FP8 arithmetic, of reciprocal and intersection; their properties | state machines |
| `GoldenModels` | calls of every golden model, the remaining properties; composes the modules above | state machine |
| `TestFlow` | regression runner, image cache, and an editor beside them | state machine |
| `MCCoherentBus`, `MCMemPath`, `MCSmPipeline` | workloads, programs and symmetry of the instances | model checking |
| `MCKernels`, `MCTools`, `MCTestFlow` | kernels, questions to the golden models, requests | model checking |
| `CoherentBusProofs` | type-level and coherence invariants of `CoherentBus` | proofs |
| `DataProofs` | values of the lines of `CoherentBus`: no stale copy, no lost store; queue room, fence, refinement of `LineMemory` | proofs |
| `MemPathProofs` | durability and flush of `MemPath`, the handshakes of its controller | proofs |
| `SmPipelineProofs` | fetch path, program order, types, operands and drain of `SmPipeline` | proofs |
| `TestFlowProofs` | exit status and image cache of `TestFlow` | proofs |
| `PowerProofs` | powers of two, quotients and remainders | lemmas |
| `FpProofs` | the properties of `FpModels` | proofs |
| `RtProofs` | the properties of `RtModels` | proofs |

### 2.1 CoherentBus

The variables are the registers of the code under the code's names (`mesi`, `tag`,
`data`, `rep_ptr`, `bus_req`, `fstate`, `snp_pending`, `hit_acc`, `queue`, ...);
`latest` is history: each line as the stores committed so far leave it. Actions:

* `CoreRequest` and the five outcomes of `S_LOOKUP`; `Allocate` is the victim choice
  they share. A dirty victim stays valid until the fill, as in the code.
* `GrantWB`, `GrantSnoop`: the crossbar grants and the cache sees the grant. Request
  and grant are registered on both sides, and joining them in an action loses no
  interleaving: the crossbar grants only in `F_IDLE`, when no snoop is out; the
  granted cache is in `S_FILL` afterwards and defers every snoop; and a granted
  write-back is protected from a second look by the queue's per-line mask.
* `SnoopAnswer`: the combinational look-up, the downgrade, and the two race
  detections. The accumulators (`hit_acc`, `dirty_acc`) are part of the action.
* `DecideFast`, `DecideQueue`, `FastResponse`, `EngineStart`, `EngineWriteDone`,
  `EngineResp`: the two halves of the crossbar. A response and the fill it causes
  are one action (`Fill`), because the cache is in `S_FILL`; that it always is, is
  the property `ResponsesAreAwaited`.
* `L2Accept`, `L2Write`, `L2Read`: the L2 as its port presents it, with any delay.
  The real L2 is in `MemPath`; the two findings there say where it differs.
* `FlushStart`, `FlushDrop`, `FlushWriteback`, `FlushDone` and the five steps of the
  sequencer. Its `drain_cnt` is not needed: it waits out the latency of registered
  handshakes, which are joined here. `FenceComplete` is the L2's part.

The masters are the L1s of the four SMs (`NUM_MASTERS(4)` in `titan_x5_gpu_top.v`).
The flush covers the TMUs' L1s as well. They are left out: they hold clean lines and no
bus transaction of theirs reaches the coherent crossbar, so their walk only adds
`flush_done` bits that the sequencer waits for. The round-robin pointer wraps naturally
in the code, where the number of masters is a power of two; the model wraps it
explicitly. The
replacement pointer is one bit wide for `WAYS = 1` in the code although it should
have none; the device uses four and eight ways, and the model wraps it modulo
`WAYS`.

### 2.2 LineMemory

`pending`, `mem` and `result` of a core; `Issue`, `Read` and `Write` take effect
atomically. `CoherentBus` instantiates it with `mem <- latest`, `pending <- req`,
`result <- rdata` and `RefinesLineMemory` is the refinement: every read returns the
line with all committed stores and no others, every store changes exactly the
enabled bytes.

### 2.3 MemPath

The client is the crossbar engine, one request at a time. The L2's banks are part of
the set index. A FIFO hands an entry over after any delay; the response FIFO never
fills, since the core pops it on every clock and the controller needs several memory
clocks for a response. A flush starts only when the crossbar is quiescent, as the
sequencer ensures, and the L1s stay frozen while it lasts. The narrow port of the
controller takes part in arbitration only. `ready` is the set of ports whose ready is
high, so that a controller that raised both could be written down: a request meets its
ready without asking the other port (`TakeWide` then pops the narrow one as well), and
that this never happens is the property `PoppedIsServed`. `written` is history.

### 2.4 SmPipeline

Every register of the SM changes on the same clock, so the one action is a clock
edge: `Clock` conjoins what the PC unit, epochs, fetch, FIFO, predicates, ID,
scoreboard, ALU, EX, LSU, MEM, WB and the register file do on it. Its inputs
(`Inputs`) are the choice of the scheduler among the ready warps, the answer of
instruction memory, the L1's service of the LSU and the outcome of a comparison.

A value is a token: the register it was computed for, and whether the last committed
instruction for that register computed it. What a program computes is left out;
whether an operand is the right one is not. `isa_pc` and `exited` are history: the
program executed in order as `driver/titan_x6_gpu_model.c` does.

Left out: ages and round-robin of the scheduler (any ready warp may be offered); the
barrier and divergence ports, which `titan_x5_sm.v` ties off; predicates that differ
between lanes, and P2 and P3; the multiplier, divider and FP pipes of the ALU, which
differ in latency only and never overlap, since EX takes one instruction at a time;
a false dependence of an immediate instruction on the register number in its `rs2`
field; a second launch. Register 0 carries no dependence in the code and is not
tracked.

### 2.5 TitanIsa, TitanCompiler, TitanMachine, PyKernel

A syntax tree is a record with a kind, as Python's `ast` builds it; a word is a record
of its fields, `rs2` and `rs3` being halves of `imm12` as in the encoding, so that one
form read as the other gives what a decoder sees. The state of a compilation (words,
fixups, labels, free registers, variables, error) is threaded through the operators in
the order in which the code changes it. An exception sets `err`; the code's
`CompileError` and a failed assertion of the encoder are both a rejected kernel.

`TitanMachine` has one action per class of instruction of the `while` loop of
`simulate()`, plus the watchdog. Memory is what `selftest()` sets up: the parameter
block and the arrays. An access elsewhere ends the run as `stray`, where the program
would touch whatever is there. Data words have `W` bits; `Bitwise` and TLC's integers
end at 31 bits, and the code's `& 31` of a shift count is a remainder by `W`.

`PyKernel` interprets the same tree on unbounded integers, floor division and all.
The compiler is compared with it on kernels that are `Plain`. The conditions of
`Plain` are the places where a compiled kernel is not its Python function, by design
or by omission:

* a loop counts in the register of its variable, which the body can write (Python
  iterates over a range fixed in advance), and after the loop the variable has passed
  the last value (Python: holds it, or the old one when the range is empty); the start
  is stored before the bound is evaluated, so a bound that reads the variable sees the
  new value;
* a store beside the array goes somewhere;
* the tensor backend adds to what C holds and works on whole tiles, and the matcher
  does not ask whether parameters, loop variables and accumulator are ten different
  names.

Kernels in the instances also keep within the program's own limits: `//` and `%` are
lowered to a division that truncates towards zero, so negative operands are left out
there, as are division by zero, negative indices and loop steps above `imm12`. `else`
of a `for` is rejected by the scalar backend and not looked at by the matcher.

### 2.6 The golden models

A number is its bits; flags are a set. The golden models are translated for any width,
so that small formats can be checked exhaustively: `FpRef` takes the format as the code
does, `RtFixed` has fixed-point numbers of `FXW` bits (32 in the code), whose
Newton-Raphson constants are derived from it as the code's were. A random draw of
`gen_vectors.py` is any value of its range, so a corpus is a set of vectors that some
seed produces. A category is a group of the code, with every vector the code puts there;
the groups of overflow boundaries and of underflow are split once more, along the
comments at their lines.

A golden model is a function, so one behaviour of `Questions` is one call: `query` is
what is asked, `answer` what the model returns. The calls are split over three modules
by what can be proved about them. `FpModels` and `RtModels` have the calls of scalar
and FP8 arithmetic, and of reciprocal and intersection, with their properties and the
domain of the calls (`Callable`, `RtCallable`, ASSUMEd of `Queries`); neither reaches a
recursive operator. `GoldenModels` adds matrix products, traversal, stimulus and
coverage, and composes all of them with the compiled kernels: a behaviour is either one
kernel, compiled and run, or one call. `REF` is the format of the calls whose answer is
compared with IEEE-754.

`HitsAreGeometric` is about calls in `InRange`: points that are whole numbers, and
words for the four determinants (the one of the matrix and the numerators of t, u and
v). Nothing is asked of the products and sums the determinants are made of, which may
wrap around.

What the golden models do not promise, and the properties therefore leave out: a ray
parallel to an axis (its reciprocal is saturated, and a zero times it loses the slab);
`fp32_add` outside of the exponents in which neither field wraps (its exponent is kept
modulo 256; the array's products of FP16 and FP8 numbers, and their sums, stay far from
both ends); infinite halves,
which `fp16_to_fp32` turns into 2^16; the codes of FP8's NaNs, on which the array's
model (all are zero) and the compiler's simulator differ. The coverage bin of 9 to
31 transactions is reached by random patterns only.

### 2.7 TestFlow

`images` and `results` are files that survive runs; a clock tick is the resolution of a
time stamp. The editor changes or deletes a source, switches `TITAN_SM` and
`TITAN_ICACHE` between runs, and may kill a run anywhere. What a simulation finds, and
whether a build succeeds, is a choice. `build()` is `Reuse` or `Elaborate` followed by
`Elaborated` or `ElaborationFails`, since sources can change while iverilog reads
them; `run_suite` is `OpenSuite`, the simulation and `check_results`.

`unsafe` is history: the images for which a time stamp says nothing. They are those
elaborated while a source changed, or in the tick in which one did (the code compares
with `>=`, while the docstring says an image is reused when it is *newer*), those that
existed when a source was deleted, and those that a killed or rejected elaboration
left behind. The outcomes of a run (`failures`, `infra_errors`, `ran`, `passed`) are
sets of positions in the list of suites asked for, which may name a suite twice; the
code's lists hold their names. A failed build of a suite is counted with the failures, although
`SuiteInfraError` is described as covering it; both give exit status 1.

## 3. Runs

| run | instance | shows |
|---|---|---|
| `bus_sharing` | 2 caches, 1 frame each, 2 lines, 2 bytes, fences; each core stores to its own byte of one line and reads both | copies and atomicity under false sharing; a fence leaves the L2 up to date; the inductive invariant of the data, fence and request side (`MemoryInv`) |
| `bus_ways` | 2 caches, 2 ways, 3 lines, any request | replacement, one transaction per line, queue room, the inductive invariant of coherence (`IInv`, which includes `OneFramePerLine`) |
| `bus_race` | 3 caches, 1 frame, 2 lines, no fence; one evicts, one reads and writes, one reads | one owner, no lost response, no lost store; snoops are answered, requests complete |
| `bus_fence_stall` | 2 caches, 2 lines, any request, fences | **violation**: see 3.2 |
| `mem_path` | 2 lines, 1 frame, lines of 2 beats, FIFO of 2, flushes, narrow traffic | durability, flush, the inductive invariant behind them (`MemInv`), no request popped and forgotten, progress of both ports |
| `mem_refill`, `mem_flush` | the same | **violations** |
| `sm_pipeline` | 2 warps, FIFO of 3, 3 ALU stages, the program `Loop` | in-order commit, operands, FIFO, drain, progress |
| `sm_back_to_back`, `sm_stores` | the same, programs `BackToBack`, `Stores` | **violations** |
| `tools` | kernels of `MCKernels`, questions of `MCTools` | compiled kernels mean what their source means and exit; registers are returned; every golden model answers what an independent statement demands; stimulus reaches its corners, but for the three products of 3.2 |
| `test_flow` | 2 sources, 2 launch masks, one simulated suite and the compute suite, requests for everything, for one suite twice and for a misspelt one, 2 invocations, 1 edit | the image asked for is the image run; a green exit was earned |

### 3.1 Bounds, and why they are enough

* *Caches.* Two caches show every pair of roles; race 2 is different: overlooking it
  is harmless with two caches, where the taker of the line is the only one that can
  hold a newer value at the time, and loses data from three on. `bus_race` has three.
* *Bytes.* Overlooking race 1 shows only when two caches store to different bytes of
  one line: `bus_sharing` has two bytes, each written by one core.
* *Lines and ways.* One line more than there are frames forces evictions. With one
  set the lines compete; nothing in the code relates different sets except the walk
  position and the L2's replacement counter.
* *Queue.* Two slots with two or three masters reach the full queue and the grant
  that must wait.
* *Workloads* (`FalseSharing`, `EvictRace`) restrict what cores ask for, to keep the
  larger instances in reach; `bus_ways` and `bus_fence_stall` restrict nothing. The
  liveness checked in `bus_race` is that of the workload `EvictRace`, in which every
  kind of request (hit, upgrade, miss with and without a dirty victim) occurs.
* *Symmetry* over lines is used for safety in `bus_ways` only.
* *MemPath.* One frame makes every miss an eviction, the case in which write-back and
  refill meet. Two beats are the device's own number (128-byte lines, 512-bit
  beats). Memory starts cleared, and lines whose beats agree are enough to see a beat
  of the wrong line. With one set and one way the L2's
  replacement counter never moves: that misses in one set move the victim of another,
  and lose nothing by it, is shown by the theorem (`NoStoreIsLost`) and by no run.
* *SmPipeline.* Two warps interleave in every stage; a FIFO of three fills behind a
  load, as the FIFO of eight does. `Loop` has a load, a dependent operation, a
  conditional backward branch whose outcome is free (so loops of any length), a taken
  forward branch over an instruction that must not execute, and EXIT. It keeps the
  distance of two between producer and consumer and has no store, because findings 4
  and 5 below break programs that do otherwise; the runs that show them use one each.
  Only padding, which touches no register but r0, follows EXIT: an exit leaves the epoch as it
  is, so what has been fetched past it still executes, and what may stand there is the
  compiler's choice. No program has a WMMA, whose scoreboard bit nothing clears.

* *Kernels.* Every operator of the language over variables, constants on both sides of
  `imm12` and nested operands; expressions deeper than the register pool; loops of
  every form of `range`, nested, empty, with steps, bounds that are expressions, and
  `return` inside; sources the compiler rejects. For the matcher, the canonical
  product in every form it accepts and all neighbours with swapped indices, strides,
  loops, parameters, start values and signs. `W = 26` keeps products inside TLC's
  integers and leaves room above `imm12` for constants of several words; tiles of 2
  give products of several tiles in each direction. `MAX_STEPS = 500` exceeds every
  kernel that ends, and a loop that does not end runs into it.
* *Formats.* Add and multiply are checked for all operands of a six-bit format
  (3-bit exponent, 2-bit fraction) in all rounding modes: it has subnormals, ties,
  both infinities and NaNs of both kinds. Fused multiply-add takes the corners of the
  same format. The half-precision multiplier is checked on the six-bit format
  exhaustively and on FP16's corners; FP8 on all bytes of one operand. The corpora
  are those of E4M3, in place of FP32, and of FP16 where no fraction is drawn freely.
  `REF` is the six-bit format.
* *Ray tracing.* `FXW = 12`: every determinant of the normalised range; triangles on
  the corners of a cube, where the exact answer is a determinant; long rays and
  triangles whose partial products wrap around while the determinants fit
  (`WideQueries`); scenes of up to five triangles in every order. What depends on the
  word size is proved for all of them, the code's 32 bits included (4.7). `STACK_DEPTH = 2` makes trees of up to four triangles fit
  and a fifth overflow; the promise is for what fits.
* *TestFlow.* The second invocation meets what the first left; one edit and one tick
  give every order of edit, build and reuse; two masks let an image of one be mistaken
  for another's. Symmetry is over the sources.

`CHECK_DEADLOCK FALSE` is used where the system may stop: in the instances with
fences, where the stall of 3.2 is reachable, and in `tools` and `test_flow`, whose
programs end.

### 3.2 Where code and documentation disagree

1. **A fence can stop the device** (`bus_fence_stall`). A cache in `S_FLUSH_WB`
   answers no snoop until its write-back is granted; the crossbar in `F_SNOOP` grants
   nobody until every snoop is answered.
2. **A refill can be assembled from write acknowledgements** (`mem_refill`). The
   controller acknowledges wide writes on the response path of reads, without a kind
   or an id; the adapter takes the first words that arrive for its beats. Since a
   refill follows the write-back of the victim, this is the normal order of events.
   Durability does not depend on it: stores reach memory (`mem_path`).
3. **`flush_done` precedes the arrival in memory** (`mem_flush`). It is raised when
   the last dirty line has been handed to the adapter.
4. **A back-to-back dependence reads the old value** (`sm_back_to_back`). When producer
   and consumer queue behind a busy EX, the consumer is popped in the cycle in which
   the producer moves from ID to EX; forwarding and interlock look at EX, MEM and WB.
5. **A store overwrites a register** (`sm_stores`). The LSU answers stores as well as
   loads, and write-back takes the answer for a load's.

The five are counterexamples. The stimulus generator has three vectors that are not where
its comments say, which `StimulusHitsItsCorner` states in the passing run `tools`: a
vector misses its corner exactly when it is one of these (`OffCorner`), on E4M3 and FP16.

* *A tie that is none.* `gen_vectors.py:169` announces "mantissa products with a lone
  guard bit"; (1 + 2 ulp) * 1.5, line 173, is exact in every format with three or more
  bits of fraction.
* *A boundary that is none.* Under "overflow boundaries" (line 176), "results straddling
  max finite" (line 185), line 190 squares a power of two (2^7 in FP16) into the binade
  below that of the largest number; the result is exact.
* *A neighbour that does not round up.* Line 194 has "(1 - ulp) * min_norm and neighbors
  round back up to min_norm"; the neighbour of line 197 is exactly the largest subnormal.

Two more comments promise what not every draw keeps, and the property states them with
the condition under which they do:

* Line 144, "large multiplier pushes the product back over the normal threshold": the
  factor is 4 to 2^(M+3), and a subnormal with more leading zeroes than it makes up for
  can stay subnormal (`min_sub` times 4). `IsNormalIfOutweighed` says which are sure to
  cross; about the others nothing is claimed. None of the 24 draws that the file's fixed
  `SEED` makes for each format stays below, so the committed corpora keep the promise.
* Line 150, "massive cancellation": when one of the two largest numbers is drawn,
  `- a + k ulp` can be an infinity or a NaN, and nothing cancels. The property is about
  pairs of numbers.

### 3.3 Fairness

`CoherentBus`: weak fairness of every transition of every machine, because every
machine is clocked and takes an enabled transition; nothing is assumed of the cores
or of the command processor, which need not ask for anything. `GrantWB` and
`GrantSnoop` are fair per master because the round-robin pointer decides who is
granted, and the guard contains it. `MemPath`: weak fairness of the L2, the adapter,
its responses, the controller and the end of a flush; none of the requests.
`SmPipeline`: the clock runs, and the environment does not stop altogether: as long
as a fetch could be accepted or answered, or the LSU served, one of them happens
eventually. The latter stands for the word crossbar, memory and L1, whose progress
the other modules check, within the limits of finding 1. `TitanMachine`: the
simulator's loop runs until it returns. `TestFlow`: none; people need not type.

Each property has a mutant in `PROJECT.json`: an operator of the module, written as a
plausible bug of the code would, under which TLC finds the property violated.

## 4. Proofs

Every safety property that a run of the RTL models or of `TestFlow` checks is stated
by a theorem, for every value of the constants: any number of caches and warps, any
geometry, any depth of queues and FIFOs, any set of lines and bytes, any workload and
program, any list of suites. So are the properties of scalar, FP8 and fixed-point
arithmetic, for every format or word size and every operand. The assumptions are the
ASSUMEs of the modules: positive sizes, an index function from lines to sets, markers
that are no values (`NoData`, `NoLine`, `NoWarp`, `NoResult`), workloads and programs
made of requests and instructions, calls the golden models take, formats with at least
two bits of exponent and one of fraction, words of 8 to 32 bits. TLC evaluates them on
every run.

| module | inductive invariant | properties |
|---|---|---|
| `CoherentBusProofs` | `TypeInv`, `IInv` | `TypeOK`, `OneTransactionPerLine`, `ResponsesAreAwaited`, `SingleOwner`, `OneFramePerLine` |
| `DataProofs` | `IInv /\ DataInv`, `IInv /\ MemoryInv`, `QueueHasRoom` | `CopiesAreLatest`, `LatestSurvives`, `QueueHasRoom`, `FlushedToL2`, `RefinesLineMemory` |
| `MemPathProofs` | `MemInv`, `OneReady` | `StoresAreDurable`, `FlushLeavesNothing`, `PoppedIsServed` |
| `SmPipelineProofs` | `FetchInv`, `OrderInv`, `BackTypes`, and for some programs `StageInv`, `ResultInv`, `LastInv`, `ScoreInv` | `TypeOK`, `FetchesFit`, `CommitsInOrder`, `OperandsAreLatest`, `DrainsClean` |
| `TestFlowProofs` | `RunInv`, `ImageInv` | `VerdictIsTrue`, `ImageIsTheOneAsked` |
| `FpProofs` | `Callable(query) /\ Answered` | `MultipliersAgree`, `FpRefRoundsOnce`, `Fp8RoundsToNearest`, `Fp8ProductIsExact`, `AdderLosesLessThanAnUlp` |
| `RtProofs` | `RtCallable(query) /\ RtAnswer` | `HitsAreGeometric`, `ReciprocalConverges` |

`IInv`, `MemoryInv` and `MemInv` are checked by the runs as well. The invariants of the
pipeline and of `TestFlow` were checked by TLC on the instances of `sm_pipeline` and
`test_flow` before they were proved.

### 4.1 CoherentBus: types and coherence

**Why strengthening is needed.** `TypeOK` is not inductive: that a queued write-back
carries a line depends on what the requesting cache had latched, and that a response
finds its request depends on per-line serialisation. `TypeInv` adds how the latched
request fits the cache's state (`RequestsFit`), how the front-end registers fit the
phase of the transaction (`FrontFits`), how queue and engine fit (`EngineFits`), that
responses are awaited, and that transactions in flight are on different lines.

**The coherence argument.** `SingleOwner` can be broken only by a fill or by an
upgrade. Three facts protect a fill: while a transaction is in the snoop phase, the
caches that have answered keep nothing the answer does not allow (`AnsweredSnoops`);
once it is queued, the answer it will give (`shared` or not) is compatible with every
other copy (`QueuedAnswers`), and per-line serialisation keeps other transactions off
the line in between. An upgrade completes on a copy that is still Shared, else race 1
has turned it into a fetch (`RequestsFitCopies`). `OneFramePerLine` follows from
fetching only what the cache lacks, and `CopiesInTheirSet` makes looking into one set
enough.

The proof has one lemma per action for `TypeInv` (`...Type`) and one for
`CoherenceInv` (`...Mesi`). Actions that give no cache a new right (`NoNewRights`)
share a lemma; facts about the choices of the way searches, about queue push and pop
and about the snoop answer are lemmas of their own.

### 4.2 CoherentBus: data, fences, refinement

**Data.** A copy goes stale when another cache stores while it survives; `IInv`
excludes that. What is left is that every fill brings the latest value. `DataInv`
follows the value along its way: a write-back that waits for its grant still equals
the Modified copy (`WaitingWritebacks`, which race 2 would break); a dirty snoop answer
is the latest and leaves no owner (`FrontCarriesLatest`); a queued write carries the
latest, and the one cache that may still own the line waits for the fill that
overwrites it (`QueuedWritesAreLatest`); what the L2 is asked for it has
(`AnswersAreLatest`, `L2Handshake`); and a Modified victim is overwritten only when its
value is in the L2 or queued (`VictimsAreSaved`), which is what keeps
`LatestSurvives`.

**Fence.** `FenceInv` says what the walk has passed is invalid, what has finished stays
empty, and that the sequencer is past `L1` only with all caches done and at the L2 only
with a quiet bus. With `LatestSurvives`, nothing but the L2 is left to hold a latest
value: `FlushedToL2`. `QueueHasRoom` needs only itself: the slot is reserved at the
grant, and until the transaction is queued nothing else is pushed.

**Refinement.** `Refinement` proves `Spec => Abstract!Spec`: the initial states agree,
and each step of the bus is a step of `LineMemory` or leaves `latest`, `req` and `rdata`
alone. A hit or a fill is the abstract `Read` or `Write`; that it returns the latest
value is `CopiesAreLatest` for a hit and `AnswersAreLatest` for a fill, and that a fill
serves the request it was made for is `RequestsInFlight`. Liveness of the abstract
memory is not part of it.

### 4.3 MemPath

`Landing(l)` is what memory will hold of line `l` once the beats in the adapter, the
FIFO and the controller have arrived, the youngest write of a beat winning.
`StoresAreDurable` is inductive with `MemInv`, which adds where a dirty victim is while
it is written back (`VictimSaved`), that a line is in one frame of its set
(`FramesFit`), that the L2 works on one request at a time and the adapter reads exactly
while it waits for a refill (`RequestFits`, `AdapterFits`), and that a walk has the L2
to itself (`FlushFits`). The heart of the proof is that moving a beat along (into the
FIFO, across, into the controller, into memory) leaves `Landing` unchanged
(`LandingSame`, `OnTheWayStays`). It holds although refills may bring wrong data
(finding 2): `written` is what the L2 last held of a line, so the theorem says that
the path loses nothing of it.

`PoppedIsServed` is an action property. Only the two handshakes take from a port
(`PopsAtHandshakes`), and they exclude each other because the readies do: `OneReady`,
which the registered grant keeps (`OneReadyStep`). This is the argument of the comment
at `titan_x5_mem_controller.v:129-138`.

### 4.4 SmPipeline

**Fetch path** (any program). The scheduler looks at `fifo_full` when a fetch is
accepted, and the word arrives later; that it still finds room follows from there being
one fetch in flight, which keeps the slot free.

**Program order** (any program). `InFlight` is the FIFO followed by the word memory
owes. `Ordered` says of the fetches of a warp in it that those of its current epoch are
behind the stale ones and are consecutive instructions from `isa_pc` to `pc`. A pop
keeps this (`PopOrdered`), a fetch appends the next one (`PushOrdered`), an answer moves
a word from memory to the FIFO and leaves the order alone (`InFlightStep`), and a
redirect strands all of them (`RedirectStrandsAll`), since it comes from the oldest one,
which is current. That is why one bit suffices: when the bit flips a second time,
whatever was stranded by the first has been popped.

**Operands** (programs that are `Spaced` and have `NoStores`). `ExInv` lists the phases
of EX: idle, an operation somewhere in the integer pipe, a load whose request waits, is
served or is answered; in each the value that will be delivered is in one place.
`Youngest` looks for the value of a register where its youngest writer is, from ID to
the register file, and `ResultInv` says that it is the latest; the proof follows the
writer from stage to stage (`WriterMoves`) and shows that no stage acquires one out of
nowhere (`WritersComeFrom`). When an operand is read EX is idle, so the forwarding
network misses the writer only if it is in ID; `LastInv` says that ID holds the
instruction the warp executed last, which a spaced program does not depend on.
The hypotheses are those of findings 4 and 5: without `Spaced` the run
`sm_back_to_back` violates `OperandsAreLatest`, without `NoStores` the run `sm_stores`
violates `DrainsClean`. `DrainsCorrect` also excludes WMMA, whose scoreboard bit
nothing clears. That programs as the hypotheses want them exist is the ASSUME
`LoopAssumption` of `MCSmPipeline`: `Loop` is one.

### 4.5 TestFlow

`RunInv` gives every position of the list behind the loop its one outcome, and what a
suite that is about to be read has written. `VerdictIsTrue` is then the case in which
the loop is at its end. `ImageInv` says that an image is what its name says, that one
a time stamp vouches for is what its sources say as long as none is newer, and that no
time stamp is in the future; a reuse asks for just that.

### 4.6 Floating point

The theorems are of `FpSpec`, whose calls and answers are those of `GoldenModels`. That
the answer is the model's is a small invariant (`FpAnswered`); everything else is
arithmetic, for every format with at least two bits of exponent and one of fraction,
every pair or triple of operands, every rounding mode.

**Powers of two.** The prover knows `2 ^ n` only for literal n, and the induction
theorems of the library take an operator, which it cannot instantiate. `PowerProofs`
gets around both: `2 ^ n` is the number of subsets of `1 .. n`, which the library
states, and induction is over a *set* of natural numbers (`SetInduction`), which
follows from the well-foundedness of `<`. Quotients and remainders by a power of two
are then unique, monotone and exact on multiples.

**Rounding** (`RefAlwaysRoundsOnce`). The code of a number without its sign is its
*index*: numbers of a format are ordered as their indices are, because a carry out of
the fraction is the next binade (`WeightMono`). Rounding therefore computes an index:
truncation gives the index of the largest number not above the value, and the
increment, the next one. What it means to be nearest, or the least above, among *all*
codes follows from comparing with these two neighbours only. The case split is by the
place of the highest bit (normal, subnormal, overflow) and by the mode; the sticky bit
stands for everything below the guard bit. Flags are those the statement derives from
the neighbours; NaNs, infinities and exact zeros are separate lemmas.

**Two multipliers** (`MultipliersAlwaysAgree`). `tensor_ref.py` rounds in its own way
and has no common helper with `fp_ref.py`: one places the rounding by the value's
leading bit and then looks for a carry, the other by its last kept bit. `Fp16Rounding`
shows that the two forms give the same bits, normal, subnormal and overflowing.

**FP8** (`Fp8AlwaysRoundsToNearest`, `Fp8ProductAlwaysExact`). The numbers of a byte
are the indices 0 .. 126; a search for the nearest is again a comparison with two
neighbours. A product of two four-bit significands fits the single-precision fraction
with its lowest bits zero, so that normalising it loses nothing; both formats,
subnormals included.

**Adder** (`AdderAlwaysClose`). The truncated alignment of the smaller operand is less
than one unit away from its value and the larger operand is kept exactly
(`AlignedIs`); normalising the sum shifts out at most one place more (`AdderIs`).

### 4.7 Fixed point and ray tracing

The theorems are of `RtSpec`, for every even word size from 8 to 32 bits.

**Intersection** (`HitsAlwaysGeometric`). `Holds(x, a)` says that the word x is what a
whole number a leaves modulo the word. Differences, sums and products of words hold the
differences, sums and products of what the words hold, wrapped or not, as long as the
points are whole numbers; so each of the four determinants holds the mixed product it
is named for, and a mixed product that fits is held exactly (`HoldsIs`). Only the
determinants need to fit. The signs are moved to the numerators without loss
(`OrientedIs`), and what the hit test then compares are the three sides of the
triangle the ray passes and the plane's distance, by the identities of mixed products
(`MixedProducts`).

**Reciprocal** (`ReciprocalAlwaysConverges`). With N the mantissa's one, m the mantissa
and r the estimate, the error is `E = N * N - 2 * m * r`. The linear estimate leaves
`17 * |E| <= N * (N + 170)` (`FirstError`: the parabola of the two constants, and what
they and the quotient truncate). A step takes E to at most `(E * E + 4 * N ^ 3) / N ^ 2`
(`NewtonError`), so the bounds of the next two errors have the denominators 289 and
83521; for N up to 2^31 the third leaves `2 * |E| < 9 * N` (`RefinedIs`), which after
scaling back to the determinant is the eight units of the property. The bounds also show
that no product overflows its word. They are the reason for the limit of 32 bits:
three steps would not do for 64.

### 4.8 What is only model-checked

* Liveness (`EverySnoopAnswered`, `EveryRequestCompletes`, `EveryRequestServed`,
  `NarrowServed`, `KeepsCommitting`, `KernelsExit`): the prover does not support
  fairness and ENABLED.
* The compiler (`KernelKeepsItsMeaning`, `TilesComputeTheProduct`,
  `RegistersAreReturned`): a recursion over a syntax tree, and the simulator's bitwise
  arithmetic.
* `TensorGoldenIsTheProduct`, a fold over a matrix product whose answer is exact only
  for operands like those of the instance, and `TraversalFindsNearest`, a recursion
  over a tree.
* `StimulusHitsItsCorner`, which is about the finite sets of vectors the generator
  draws and has no parameter to generalise over but the format.
* The findings, which are counterexamples.

They are checked on the instances of 3.1.

## 5. Plan

Written in this order, so that the behaviour the rest depends on comes first:

1. `CoherentBus`, `LineMemory`, their proofs, `MemPath`, `SmPipeline` (done); the
   compiler, its simulator, the golden models, the stimulus and the regression flow
   (done).
2. Proofs of every safety property of `CoherentBus`, `MemPath`, `SmPipeline` (those
   about results and operands for the programs named in 4.4) and `TestFlow`, and the
   refinement of `LineMemory` (done); the properties of scalar, FP8 and fixed-point
   arithmetic for every format and word size (done).
3. `FenceRing`: the command processor with the driver's ring (write pointer, wrap,
   fence sequence numbers, interrupt), over an abstract ring of commands that
   complete in order; composed with the flush sequencer. It covers the hazards of
   the ring's wrap and of a full ring.
4. `AsyncFifo`: the clock-crossing FIFO with both clocks, Gray pointers and two-stage
   synchronisers, refining a bounded queue; its registered read port.
5. `WordCrossbar`: arbitration and the shared response bus of the word crossbar, with
   the instruction cache as a client.
6. `NocRouter`: virtual channels, credits and XY routing of a small mesh. `DmaEngine`.

### Not modelled

Of the RTL: arithmetic, graphics and ray-tracing data paths, PHY timing, and blocks the
device does not instantiate, for the reasons given in `PROJECT.json`. Of the tools:
parsing (Python's own), the TBIN container, listing and command line of the compiler;
the packing of a BVH node into its bits and the conversions from floats; the samplers of
MESI and TMU coverage and the export; the generator's uniform filler and JSON files; the
other testbenches, drawing scripts and firmware, single passes that keep no state.

## 6. Running

    tlc -config BusSharing.cfg MCCoherentBus
    tlc -config MemPath.cfg MCMemPath
    tlc -config SmPipeline.cfg MCSmPipeline
    tlc -config Tools.cfg MCTools
    tlc -config TestFlow.cfg MCTestFlow
    tlapm CoherentBusProofs.tla
    tlapm DataProofs.tla
    tlapm MemPathProofs.tla
    tlapm SmPipelineProofs.tla
    tlapm TestFlowProofs.tla
    tlapm PowerProofs.tla
    tlapm FpProofs.tla
    tlapm RtProofs.tla

The other configurations run with the module `PROJECT.json` names.
