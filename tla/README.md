# mabda in TLA+

Formal models of mabda, the GPU foundation library (device, buffers, compute,
textures, render graph) written in Cyrius, with a wgpu backend, a native AMD
GFX9 backend over the amdgpu kernel driver, and a native NVIDIA backend, and of
the source gates (Python scripts under `src/scripts/`) that `make check` runs
over that code.  File names without a directory are `.cyr` sources under
`src/src/`; the line numbers each definition stands for are in `PROJECT.json`,
`map`.

* [Inventory](#inventory): the parts of the system
* [Modules](#modules): which module models what, and how
* [Runs](#runs): what TLC checks, on which instances
* [Fairness](#fairness)
* [Proofs](#proofs): what TLAPS proves and along which argument
* [What the checks show against the documentation](#what-the-checks-show-against-the-documentation)
* [Limits](#limits): assumptions, and what is only checked or not modelled
* [Plan](#plan)

## Inventory

mabda is a library called by one thread.  Concurrency comes from outside: the
rings of the GPU run beside the CPU thread and talk to it through timeline
points; the display raises a page-flip event; the kernel records a GPU reset
when it notices one.  Failure is everywhere: nearly every kernel or device call
can be refused, and the code must unwind or report.

| Component | State it keeps | Operations | What is hard | What makes it correct |
|---|---|---|---|---|
| Render graph: declaration and build (`render_graph.cyr`) | node vector with read and write lists, transient vector, `built`, cached schedule | `rg_add_*`, `rg_node_*`, `rg_build`, `rg_schedule`, `rg_release` | Kahn's counts with repeated declarations; a failed build leaves the graph usable; the build permutes the vector ids index | a built graph is in dependency order, only cycles are rejected, the schedule covers every dependency |
| Render graph: aliasing planner | slots, block size, per-transient offset | `rg_plan_aliasing_stats`, `_rg_plan_kind` | off-by-one on touching lifetimes, unused transients, second pass behind the first | transients alive together never share a byte; the block never exceeds separate allocations |
| Render graph: native multi-queue executor | walk position, remembered error, IB slice | `rg_execute_mq`, `_rg_execute_native_mq` | three rings overlap; a call may fail at every step; IB slices and timelines outlive an execution | dependencies are kept across rings, 0 is returned only if all nodes ran, every execution returns |
| Render graph: wgpu executor | one encoder | `rg_execute` | nodes the encoder skips | success means executed |
| Logical queues (`queue.cyr`, part of `backend_native.cyr`) | per kind: syncobj, point, one pending wait; a current-queue stash | `gpu_queue_get`, `gpu_queue_barrier`, `gpu_queue_wait_idle`, the `*_timeline` submit drivers | points that no job will signal, overwritten waits, slices rewritten in flight | a point never runs ahead of its queue; a stream is intact until it retires |
| amdgpu ioctl layer (`backend_native_amdgpu.cyr`) | none of its own | one function per ioctl | error codes, the reset check after a wait | refused calls change nothing |
| Native context (`context.cyr`, `backend_native.cyr`) | fd, context id, a dozen cached BOs, VAs and queues | `gpu_context_new_native`, `_backend_native_ctx_release` | a long acquisition that unwinds on failure | what was acquired is released exactly once |
| Native VA allocator | bump cursors and a free list | alloc and free of texture and render-target VAs | reuse after free, exhaustion | live ranges never overlap |
| Native buffers, textures, render passes | BO records, the bound texture, queued draws | create, write, read, release, begin, draw, end | partial failure while creating; a descriptor rewritten while a draw may read it | each draw sees its own bindings |
| PM4 and SDMA builders, embedded shaders | none | packet encoders, constant code | bit layout, chunk arithmetic | every byte copied once |
| KMS scanout and presentation (`backend_native_kms.cyr`, `surface_v3.cyr`) | front and back framebuffers, pending flip | configure, acquire, present, release | flip event against the next frame; failure after the flip was queued | never draw into the buffer on screen |
| NVIDIA backend (`backend_nvidia*.cyr`) | channel, VA cursor, fence sequence, pushbuffer | the same slots over nouveau | fence wait against reuse of the pushbuffer | work is retired before its memory is reused |
| wgpu backend and FFI | handles | thin wrappers | none of its own | external library |
| Backend slot table (`backend.cyr`) | table of functions | set and get | missing slots | a complete table before use |
| SPIR-V to GFX9 compiler (`spirv_*.cyr`, `mir.cyr`, `gfx9_*.cyr`) | MIR, register file, instruction list | lower, uniformity, select, wait insertion, allocation, encode | live ranges, outstanding loads, register pairs | a register is never given away while its value is wanted; no result is read before it arrived |
| Buffers, typed buffers, compute, ping-pong | handle, capacity, generation, front index | grow, write, swap | growth that fails halfway | the handle always designates a buffer of the stated capacity |
| Caches (shader, pipeline, bind group) | hash maps | get, set, get-or-compile | collisions, release of shared modules | the value found is the value stored |
| Profiler and GPU timestamps | averages, history window, query set | begin, end, resolve, map | history shifted at its cap | averages over the last frames |
| Surface lifecycle (wgpu) | format, size | configure, resize, acquire | outdated surfaces | reconfigured before the next frame |
| Textures and assets | handles | parse DDS, KTX2, PNG, JPEG, upload | failure between layers | a failed load leaks nothing |
| Render-state helpers, errors, capabilities, debug | none | descriptor builders, codes | none | - |
| Source gate: stack array writes (`scripts/check-stack-array-sizing.py`) | per function the summary of its writes through parameters | load, summarise, check, report | mutual recursion between summaries, guards, loop counters, aliases, sizes of system calls | a run of the scanned program never writes past an object the gate said was fine |
| Source gate: literal write lengths (`scripts/check-program-write-lengths.py`) | the wrappers found so far | scan, find wrappers, judge | wrappers of wrappers in any order, over several files | every counted write is judged, by the bytes of its literal |
| Source gate: compiler buffer sizing (`scripts/check-compiler-buffer-sizing.py`) | lines consumed, sites seen | scan, size, report | calls broken over lines, buffers of neighbouring functions, two capacities | a clean exit means no caller declares a buffer smaller than what the compiler writes |
| PM4 register audit and decode (`owned_state_audit.py`, `decode_ib.py`), memory-type report (`parse_mem.py`) | none | parse a capture, print | the audit compares the state at the last draw only | - |

How they interact.  A client builds a graph with the render-graph calls.
`rg_build` sorts it, asks the device for the transients and may run the
planner.  `rg_schedule` turns the sorted vector into batches and fence edges;
the executor walks them, calling the queue layer (`gpu_queue_get`,
`gpu_queue_barrier`, `gpu_queue_wait_idle`) and the dispatch slots of the
backend table.  The slots find the queue in the current-queue stash of the
context, stage a packet stream into the active slice of one shared
indirect-buffer BO, and submit it with the timeline wait and signal of the
queue.  The kernel and the rings signal the points.

The gates interact with nothing at run time.  They read the `.cyr` files and
give an exit status; what ties them to the rest is what the programs they have
passed do later.

## Modules

| Module | Models |
|---|---|
| `RGSchedule` | the pure part of `rg_schedule`: dependencies, fence edges, batches and their order |
| `QueueTimeline` | logical queues, timelines, pending waits, IB slices, the submit drivers; the rings (external) |
| `GraphExecutor` | `_rg_execute_native_mq`, composed with `QueueTimeline` (it extends it) |
| `TaskGraph` | what an execution promises a client, without queues, rings or barriers |
| `GraphExecutorInv` | the inductive strengthenings the proofs need, as state predicates |
| `GraphExecutorProofs` | the theorems about `GraphExecutor` |
| `AliasPlan` | the aliasing planner |
| `AliasPlanProofs` | the theorems about the planner |
| `RenderGraph` | declaring, building, planning, scheduling and releasing a graph; extends `RGSchedule` and `AliasPlan` |
| `RenderGraphProofs` | the theorems about it; extends `AliasPlanProofs` |
| `VaAllocator` | the GPU address regions of a native context and the slots that take from them |
| `VaAllocatorProofs` | the theorems about it |
| `ShaderIR` | the value and instruction records the compiler passes share |
| `RegAlloc` | `gfx9_regalloc`: live intervals, loop extension, allocation; extends `ShaderIR` |
| `ShaderBackend` | `gfx9_waitcnt` and `gfx9_emit_program` behind it; extends `RegAlloc` |
| `RegAllocProofs` | the theorems about the allocator |
| `Wave` | a wave running the emitted list (external machine); extends `ShaderBackend` |
| `WaveProofs` | from the allocator to the wave; extends `RegAllocProofs` |
| `Intervals` | the interval arithmetic of the stack gate, and what the operators yield |
| `IntervalsProofs` | the theorems about that arithmetic |
| `GateProgram` | the programs the stack gate reads, as its parser leaves them |
| `StackGate` | `check-stack-array-sizing.py`; extends `GateProgram` |
| `StackRun` | the scanned program itself, run after the gate (external language); extends `StackGate` |
| `WriteGate` | `check-program-write-lengths.py` |
| `SizingGate` | `check-compiler-buffer-sizing.py` |
| `GateProofs` | the theorems about the two; extends `WriteGate` and `SizingGate` |
| `MCGraphExecutor`, `MCRenderGraph`, `MCRanges`, `MCWave`, `MCGates` | the small instances |
| `MCExecClients` | the clients of the run `exec`; extends `MCGraphExecutor` |

### QueueTimeline and GraphExecutor

State.  Per queue kind: whether its `Queue` exists (`live`), `timeline_point`
(`point`), the pending wait (`pendOn`, `pendPt`).  Per context: the IB slice
cursor (`cursor`), the current-queue stash (`current`) and the content of each
slice (`ib`), named by the submission a stream was staged for.  Outside the
CPU: the highest point accepted (`submitted`), started and signalled per ring,
and the jobs in flight with the in-CS wait and slice each carries.  The
executor adds the graph, its program counter, the walk position, the batch
kinds still to be acquired or retired and the remembered error.

Steps.  One action per call the executor makes, because the rings run between
any two of them: `Begin`, `Acquire` (`gpu_queue_get`), `Barrier` (one per
incoming fence edge, in the order of the fence vector), `Dispatch` (the slot:
stage, take the pending wait, bump the point, submit, advance the slice),
`CopyWait` (a copy blocks until it retired), `EndWalk`, `Retire` (wait for each
queue).  A dispatch can be accepted, refused by the kernel after the point was
bumped, or rejected by the slot before it touches the queue; the walk goes on in
each case and remembers the failure, as the code does.  The rings start the
oldest job once its wait is signalled, and signal when it retires.

`nodePoint` is the only variable the code does not have: it remembers which
point each node's submission signals, so that properties can talk of nodes.

`GraphExecutor` implements `TaskGraph` under the mapping at the end of the
module: a node has begun when its ring started the point it signals, finished
when that point is signalled, and was skipped when the walk passed it without a
submission.

### RenderGraph and AliasPlan

`RenderGraph` follows `rg_build` loop by loop: `BuildBegin` computes the
in-degrees (one edge per matching pair of a write and a read declaration, as
the nested loops count them) and seeds the queue, `Pop` takes a node, `Relax`
handles one of its write declarations, and the drained queue leads to `Reject`
or to `Install` (permute the vector, scan lifetimes) and `Allocate`.  Positions
stay sequences where the order is the code's (the queue, the drain order, the
read and write lists with their repetitions).  `AliasPlan` places one transient
per step; the choice among transients of equal first use is left open because
the selection sort of the code leaves it to its swaps.

A transient's handle field is modelled by what it holds: the label pointer
that `rg_add_transient_*` stashes there, null, a live handle, and after
`rg_release` a freed handle or a label handed to the release call.

### VaAllocator

`va` is what the context keeps: the two bump cursors (zero until the first
allocation), the free list both regions share, and the note of the last
allocation that a roll-back reads.  `object` is the client's: per place the
region, address and size of what it holds there.  `lost` is not in the code; it
collects the ranges that nobody knows any more (unmapping failed, the list was
full, a mipped create failed), so that a property can say where every address
is.

The slots run on one thread and do not call each other, so each is one action:
`Create` (allocate, then succeed or roll back when the kernel refuses the buffer
object or its mapping; nothing happens when the region is full),
`CreateMippedFails` (no roll-back), `Release` (the range goes back to the list
only if it was unmapped), `GenerateMipmaps` (a shader that lives for the call).
Buffers, textures and shaders take from one region, render targets from the
other.  Inside, `Reused` takes the first entry of the exact span and moves the
last entry into its place, as the code does.

### RegAlloc, ShaderBackend and Wave

The back end of the shader compiler is three passes over one list of selected
instructions, and each pass is a loop of the model.  `RegAlloc`: `ScanIntervals`
extends the interval of every value an instruction defines or reads,
`ExtendOverLoop` looks at one branch, `RoundEnds` decides on another round, and
`Assign` gives the first definition of a value the lowest register, or aligned
pair, that is free; `Exhausted` is the overflow error.  `ShaderBackend`: `Splice`
decides on the wait in front of one instruction (the spliced list is kept as the
wait before each instruction, so positions keep their meaning), and
`EmitProgram`, `EmitRejected`, `Unresolved` are the outcomes of
`gfx9_emit_program`.  Ids, values and files are as in the code; an instruction
set of one member or two per encoding class stands for the 75 operations.  A
class is what the passes tell apart: how the operands are resolved, which file
the result is filed in (`FileOf`, from `gisel_writes_vgpr`) and which file and
registers the encoder writes (`WrittenFile`, `WrittenRegs`).  The last two are
not the first for two operations.  The scalar arithmetic shift right is filed as a
VGPR and encoded with an SGPR destination, so it is a class of its own; and
`V_MOV` of a 64-bit value writes the low register of its pair.  Bindings, and the
bits of an instruction, are left out.

`Wave` is what these passes are for.  It executes the list with the names of
values in the registers: an instruction overwrites the registers its encoding
names (`Overwritten`), whatever the allocator filed, a load's are
written when it returns, whoever holds them then, and every condition may go
either way.  The lists come from `MCWave`, well typed and in the shapes the
lowering produces.

### StackGate and StackRun

The stack gate looks for writes past a local array or scalar without running
anything.  `Summarise` is one turn of the inner loop of `build_summaries`: the
writes of one function (`FnEffects`: primitives, system calls, and the entries
of its callees in the caller's arguments) are resolved to a parameter, their
offset and width re-expressed over parameters, and merged into its summary.
`EndRound` decides on another round over all functions, `Check` compares the
writes of one function with the objects they land in, `Report` applies the
allowlist.  The value of an expression at a site is an interval or unknown
(`Intervals`); single-assignment locals, constants of other modules and counted
loops are resolved as `Ctx` does, with its depth limit; a write is only
considered where its path conditions (`Guards`, enclosing branches) can hold.

Programs are trees instead of tokens.  The `for` form is a `while` to the gate's
resolution as well; unary operators, `&`, `|`, `^`, negative right shifts and
enum layout are left out, and a system call's number stands for itself.

`StackRun` runs the function `t` of the same project once the gate has reported,
with any value in `Inputs` for what the gate calls opaque, and records which
bytes of which object each call really writes.  That the gate keeps its word is
then a relation between two machines: what it judged, and what was hit.

The model was compared with the script: the 1,196 projects of the run `gates`,
written out as source files, give the same findings and exit status as the
Python code does.

### WriteGate and SizingGate

`WriteGate` follows one file at a time: `VisitFunction` is one turn of the inner
loop of `find_wrappers`, `NextTable` goes from the file's own functions to those
of the files under `src/`, `EndPass` starts over while a pass added a wrapper,
`JudgeFile` judges the calls and literals.  Literals keep what decides about
their length: the form of each piece and the width of its code.  A number is what
the program writes (`n`) and whether the script can read it (`plain`): a
hexadecimal count is a number token whose value the script takes for none.

`SizingGate` scans line by line, as the script does: a call is found on its line
or across that line and the next (`ScanLine`), the enclosing function are the
lines between two headers, a buffer has the sizes declared for its name there.
What the compiler really writes for the capacities it is given
(`PipelineWrites`) is translated from the compiler's sources and is what the
verdicts are held against.  The script reads lines where the compiler reads text,
so its word depends on how the sources are laid out: one call to a line and below
the header of its function, a broken call that ends on the next line, the word
"assert" on the line of the call it is about, one context capacity to a function.
`SourcesAssumption` says so; every literal call of `mir_mod_init` in the repository
keeps to it, and the instances of `gates` do.

## Runs

| Run | Instance | Question |
|---|---|---|
| `exec` | 4 slices, and one of three clients. `faulty`: one execution of any graph of up to 3 nodes (all dependency relations and queue assignments with one foreign queue per consumer), a 4-node diamond, or a 2- or 3-node graph with rejected, overflowing and misrouted nodes, with all three faults. `large`: the good ones of these, and a graph of up to 2 nodes after it. `loop`: three graphs of up to 2 nodes. In the last two no call fails that can succeed | order, intact streams, honest completion, persistent points, slices reused by the next execution, rings that must not wait for each other, drained queues, refinement of `TaskGraph` |
| `exec_two_foreign` | all 3-node graphs, no faults | violated: dependency order with two foreign producers |
| `exec_slice_wrap` | 3 nodes, 2 slices | violated: more nodes than slices |
| `build` | 3 nodes, two sessions: `Ordering`, one read and one write each of two resources, 2 transients, 2 queues; `Repeating`, up to two reads and two writes of one resource, a texture or buffer, device present or null and refusing | sorted result, exact Kahn counts, only cycles rejected and without effect, complete schedule, safe plan |
| `ranges` | planner: up to 3 transients of two sizes and both kinds with every lifetime over 3 positions; addresses: 3 objects of two sizes, regions of 2 and 4½ units, a free list of 2 | planner soundness and cost; no address is given out twice or forgotten |
| `graph_release` | 2 nodes, a transient | violated: release after a rejected build |
| `compile` | 4,326 lists of up to 19 instructions: a straight line, an if on a scalar or per-lane condition, a loop with a phi, a loop that returns early, two nested loops, the sign masks of a signed division of a uniform value and of a constant; 4 vector and 2 scalar registers to hand out, an output list of 21 records | allocation, waits and emission against every path of a wave |
| `wave_skipped_wait` | ifs over loads and stores | violated: a wait that a branch skips |
| `wave_wide_phi` | loops with 64-bit values, in phis too; 8 vector registers | violated: the high half of a phi's pair is never written |
| `wave_scratch` | straight lines with 64-bit values | violated: the scratch register is a live high half |
| `gates` | one of the scripts on one input: 1,196 projects for the stack gate (a writer behind a guard, a forwarder in front of or behind it, a caller; 4 inputs), 562 trees for the write gate (a chain of three functions over one to three files), 1,452 listings for the sizing gate | what each verdict promises, against a run of the program, the writers of the tree, the bytes the compiler writes; the scripts end |
| `gate_guard` | a write inside the block of a guard that returns | violated: the write is taken for unreachable |

Why the bounds are enough.  A dependency violation needs a producer, a consumer
and at most one more node on a third queue or between them on one ring, so
three nodes reach every shape and the diamond adds two middle nodes that may
overlap.  A slice is reused either within one execution (more nodes than
slices: `exec_slice_wrap`) or by the next one (the clients `large` and `loop` of
`exec`: each later execution starts at slice 0 again, over queues and points of
the earlier ones; with a wait that returns too early TLC finds the slice
rewritten under a job in flight).
Kahn's algorithm goes wrong on two-cycles, three-cycles, out-of-order writers
and repeated declarations; each needs at most three nodes and two entries per
list.  Reuse of a slot takes two transients, the choice of the tightest slot a
third.  A range is given out twice when a reused one is rolled back, which takes
two objects and a list entry; three objects also fill a list of two, and the half
unit at the end of a region is a place where nothing fits.  A loop-carried mistake of the allocator needs a value from before the loop and
one defined in it; the fill slots give two of each around a phi, and 4 vector
registers make allocation fail for the lists that need more.  The list capacity
is just above the longest list with all its waits, so both outcomes of the
capacity check happen.  A program that retired, or was rejected, stops: the
compiler runs do not check deadlock.
A wrong summary needs a callee, a caller and one function between them that is
summarised before or behind its callee, so three functions in both orders; a
wrong wrapper a chain in which a later function is found first, over files in
either order; a wrong size two functions around each other or two capacities
that differ.
Deadlock is checked in the executor runs; it means there that no ring
and no CPU step is possible before the client stopped.  To the clients `large`
and `loop` that includes rings that wait for each other: the CPU's waits do not
time out there, so nothing takes it past them.  A job made to wait for a point
nobody signals, tried by hand, is found as a deadlock.

### Properties

* `DependencyOrder`: no node starts on its ring before every submitted node it
  depends on has retired.
* `StagedStreamIntact`: the stream of a job in flight is still in its slice.
* `CompletionContract`: 0 is returned only when every node has retired.
* `EveryRunReturns`: an execution that began returns, whatever fails, and also
  when nothing fails and so nothing times out.
* `ImplementsTaskGraph`: the refinement.
* `TimelineOrder`: signalled <= started <= submitted <= bumped per queue, jobs
  in flight exactly between.
* `CalmQueueIsIdle` (`DrainedQueueIsIdle` for the clients without faults): when
  everything accepted has retired, `gpu_queue_wait_idle` succeeds.
* `BuiltIsSorted`, `RejectsOnlyCycles`, `KahnExact`: the build.
* `ScheduleCoversDeps`: every dependency is kept by one queue's order or by a
  fence, and each node is in exactly one batch.
* `RejectedGraphIntact`: a rejected build leaves order and lifetimes alone.
* `PlanSound`, `PlanNoWorse`, `PlannedBytesSafe`: the planner by lifetimes, its
  cost, and its meaning for the nodes of a built graph.
* `RegionsPartitioned`: the addresses given out are divided among objects, free list
  and lost ranges, whatever kernel call fails.
* `NoRegisterSharedWhileLive`, `AllocatedInFile`: what the allocation promises.
* `IntervalsCoverLoops`, `OneRoundCloses`: the loop pass reaches its fixed point,
  and does so in its first round.
* `RunsAsFiled`: in a list that runs every result is written to the file it is
  filed in.  The scalar arithmetic shift right is not; it holds because its
  result is read at once by a scalar operation, which turns a VGPR operand down,
  so that the list is rejected.
* `ReadsFindTheirValue`: along every path, the registers an instruction reads
  were last written for the value it names.  It assumes that constants are
  materialised outside the allocated registers (`ScratchFree`): `wave_scratch`
  shows that they are not always.  In `compile` no phi carries a 64-bit value;
  `wave_wide_phi` shows what happens when one does.
* `StaleReadNeedsABranch`: data not yet loaded, or overwritten by a late load,
  is read only if a branch was taken since the load, or by a load nobody uses:
  as far as the linear placement of waits goes.  `wave_skipped_wait` shows the
  branch case.
* `RetiresDrained`: a wave retires with all its stores and loads landed, on every
  path, unless every memory instruction of the text stands below the `s_endpgm` it
  reached: `gfx9_waitcnt` looks at what stands above, and a program that returns
  early from a loop may come from below.  The shape `return` of `compile` is such a
  program.
* `ExecutedIsJudged`: a write the program makes through calls the gate resolved
  was compared, for that call, to its last byte.
* `CleanExitInBounds`: after exit 0 without an allowlist no such write leaves its
  object.
* `FindingsAreReal`: in a program the gate can read throughout, a finding whose
  conditions are decided is a write that happens.
* `ForwardersFound`, `WrappersWrite`: when a file is judged the wrappers are
  complete, and each writes through the two parameters noted for it.
* `CountsReported`: every hand count under `programs/` and every wrong count
  elsewhere is reported, however many functions lie between the literal and the
  write, and nothing else but counts the script cannot read (`UnreadableCount`):
  those are reported whether right or wrong.
* `CleanExitSized`, `DeficitsAreReal`: no buffer of a function is too small after
  exit 0, and none is reported that is not; `EverySiteOnce`: each call is counted
  once, however it is broken over lines.
* `GatesReport`: the scripts come to their report.
* `TypeOK`, `RGTypeOK`, `PlanTypeOK`, `WaveTypeOK`, `StackTypeOK`: ranges, the slice
  cursor among them, and for the last what an entry of a summary is made of.

Every property of a passing run has a mutant in `PROJECT.json` (an operator
next to the one it replaces, commented `Mutant:`) under which TLC finds it
violated.

## Fairness

`FairSpec` adds weak fairness of the CPU's steps as a whole and of each ring.
The CPU thread is not preempted forever, and each of its blocking calls returns
once the point it waits for is signalled or its deadline passes (a wait on a
point no job will signal fails, which is how the code learns of it).  A ring
whose oldest job has its wait satisfied runs it: submissions on one ring are
executed in order by the hardware.  `Begin` is not fair: nothing makes a client
execute another graph.  `ClientSpec` of `MCExecClients` is the same fairness for
the three clients.  In `MCGates` the write gate's and the sizing gate's steps
are weakly fair: a script runs until it ends.

## Proofs

`GraphExecutorProofs` proves, for every set of sorted graphs of any length,
any number of slices, any set of faults and any number of executions:

* `TypeCorrect`: `Spec => []TypeOK`.
* `TimelineOrdered`: `Spec => []TimelineOrder`.
* `CompletionHonest`: `Spec => []CompletionContract`.
* `DependencyOrdered`: `Spec => []DependencyOrder` when every graph has
  `OneForeignQueue`.  The run `exec_two_foreign` shows why the hypothesis is
  needed.
* `StreamsIntact`: `Spec => []StagedStreamIntact` when no graph has more nodes
  than there are slices and, if the client executes more than once, no submission
  is refused and no wait fails.  `exec_slice_wrap` shows why the first is needed;
  the second because a walk that ends early leaves jobs in flight under the next
  one, which starts at slice 0 again.
* `DrainedIsIdle`: `Spec => []DrainedQueueIsIdle` when no submission is refused.
  `exec` checks it for the clients to which nothing fails (`CalmQueueIsIdle`).
* `ExecutorImplements`: `Spec => ImplementsTaskGraph` when every graph has
  `OneForeignQueue`, whatever fails.

The argument.  `TimelineOrder` alone is not inductive: that a retiring ring
may advance `signalled` to `started` needs that a busy ring runs the oldest
job it still holds (`RingsRunOldest`); with types they form `TimelineInv`.
`DependencyOrder` follows from `OrderInv`, which carries the wait from the
barrier to the ring: barriers recorded so far cover the producers of the
current node (`PendingCovers`); the submission moves the pending wait into the
job (`JobWaitCovers`); a ring starts a job only when its wait is signalled; on
one queue, points ascend in walk order (`NodePointsAscend`) and a ring starts
its oldest job, so producers there have retired.  `NodePointsReached` ties the
points of the graph to accepted submissions, which is what lets a new execution
start from scratch over old timelines.  `CompletionContract` follows from
`ResultInv`: while nothing failed every node behind the walk was submitted
(`NothingSkipped`), the walk ends past the last node (`WalkComplete`) and each
queue visited at the end has retired its nodes (`VisitedRetired`), since its
point has reached them (`NodePointsBumped`).

`StagedStreamIntact` follows from `StreamInv`.  Within a walk the cursor stands at
the node (`CursorAtNode`, since the graph fits) and every job was staged behind it
(`StagedBehind`).  Across executions the reset of the cursor is safe because
nothing is in flight when one begins (`QuietStart`): every queue with a job is one
the walk used and will wait for (`UsedQueuesWaited`), and a wait that succeeds
means an idle queue since each bumped point carries a fence (`PointsFenced`).  The
last is also what `DrainedIsIdle` rests on: the driver bumps the point before the
kernel decides, so a refusal is the one way to a point no fence signals.

The refinement is proved step by step under `RefineInv`, which joins `OrderInv` and
`ResultInv`.  A ring that starts a job begins at most one node, whose producers have
finished because the job's wait has (`JobWaitCovers`) or because they are further
up its own ring; a retirement finishes at most one node; a dispatch that is
refused, or never gets to the queue, skips one that has not begun; the return of 0
finds all finished.  Every other step is a stutter, and `Begin` is the client's
next request.

Assumptions: `SlotsAssumption`, `FaultsAssumption`, `GraphsAssumption` (graphs
are sorted: what `rg_build` establishes, checked as `BuiltIsSorted` and proved as
`BuildSorts`) and
`MaxRunsAssumption`.  TLC evaluates them in each run.

`AliasPlanProofs` proves, for any number of transients of any size and lifetime
and any alignment:

* `PlanTypeCorrect`: `PlanSpec => []PlanTypeOK`.
* `PlannerSound`: `PlanSpec => []PlanSound`: two transients that are alive together,
  or of different kinds, never share bytes, and all lie inside the block.
* `PlannerNoWorse`: `PlanSpec => []PlanNoWorse`: the block is no larger than separate
  allocations, no more slots are counted than transients are in use, and every
  offset is aligned.

The argument.  `PlanIInv` follows the greedy planner placement by placement.
Besides types it says that the passes come in order (`PassesInOrder`), that
slots do not overlap (`SlotsApart`), that each placed transient lies inside its
slot and ended no later than the slot says (`PlacedInSlot`), and that the texture
pass works above everything the buffer pass opened (`BuffersBelow`).  A reused
slot ended before the newcomer begins, so those it shares bytes with are dead;
a new slot opens at the end of the block, above every slot.  The cost follows from
`Frugal` beside it: every slot was opened for an occupant of its own, which paid
for it in the naive sum, at an end of the block that is a multiple of the
alignment (`AlignedSum`, `AlignUpAligned`).  The assumption is `AlignAssumption`.

`RenderGraphProofs` proves, for any number of nodes, transients and declarations,
in any order, any resources and queues, and a device that may refuse:

* `GraphTypeCorrect`: `RGSpec => []RGTypeOK`.
* `KahnCorrect`: `RGSpec => []KahnExact`.
* `BuildSorts`: `RGSpec => []BuiltIsSorted`.
* `OnlyCyclesRejected`: `RGSpec => []RejectsOnlyCycles`.
* `RejectionHarmless`: `RGSpec => []RejectedGraphIntact`.
* `ScheduleComplete`: `RGSpec => []ScheduleCoversDeps`.
* `PlannedGraphSafe`: `RGSpec => []PlannedBytesSafe`.

The argument.  `RGIInv` has one part for each stage of a build.  `AsDeclared`
holds until the sorted vector stands; during the drain `KahnExact` says that
every count is the number of edges not yet relaxed, so that a position is queued
when its last edge goes and not before, and `DrainInOrder` that the writes still
to relax are the tail of the popped node's and that each popped position came
after all it depends on.  With an exact count of zero every producer was popped
(`PoppedFree`); an edge is relaxed once for each pair of declarations, which is
why repeated ones do no harm (`RelaxEdges`).  If the queue runs dry early, the
positions left all wait for one another: that set is the witness `CycleStays`
keeps, and why a rejection means a cycle.  Otherwise the drain order is a
permutation (`AllPopped`), and `SortedOnceInstalled` carries the sorted vector,
and lifetimes that enclose every use, through allocation, planning and release.
`ScheduleCurrent` ties a cached schedule to that vector.  `PlannedGraphSafe`
composes the two components: `PlanIInv`, from `AliasPlanProofs`, keeps apart the
bytes of transients alive together, and two whose lifetimes do not meet are used
by nodes one wholly before the other.  `build` checks the same properties on two
small sessions.  The assumptions are `GraphCallsAssumption` and `AlignAssumption`.

`VaAllocatorProofs` proves, for any two regions, one behind the other, any alignment,
list capacity, sizes and number of objects:

* `VaTypeCorrect`: `VaSpec => []VaTypeOK`.
* `RangesDivided`: `VaSpec => []RegionsPartitioned`.

The argument.  With types, `RegionsPartitioned` is inductive between slots, but
inside one a range is on its way: off the list or above the cursor, and not yet
an object's.  The lemmas therefore treat the range in hand like a lost one
(`TakeEntry`, `AdvanceCursor`), and then move it where the slot puts it
(`ToObject`, `ToList`, `RewindCursor`), or leave it lost; `FromObject` is the way
back.  `RollBackKeeps` is the delicate one: the cursor is rewound only for a
range that ends at it, a reused range returns to the list.  `RoundedProps` is why
a release, which rounds the kept size again, gives back the span that was
allocated.  The assumption is `VaAssumption`.

`RegAllocProofs` proves, for every instruction list, value table, register file
limits and number of ids (inputs as in `RegAllocInputs`):

* `RegAllocTypeCorrect`: `RegAllocSpec => []RegAllocTypeOK`.
* `LoopsCovered`: `RegAllocSpec => []IntervalsCoverLoops`.
* `OneRoundSuffices`: `RegAllocSpec => []OneRoundCloses`.
* `AllocationDisjoint`: `RegAllocSpec => []NoRegisterSharedWhileLive`.
* `AllocationInFile`: `RegAllocSpec => []AllocatedInFile`.

The argument.  `RegAllocInv` has one part per pass.  The interval pass keeps
`Covered`.  For the loop pass, `LoopsClosed` says that a back edge already
visited in text order stays closed: a later branch only moves ends that lie
inside its own loop to its own position, which is behind every earlier branch.
That is why one round is enough.  For the allocation, `PlacedInFile` says that a
register's free-at position is beyond the interval of each value that holds it,
and `SharersOrdered` that of two values with a common register one is only
defined after the other's interval has ended; a claim at `at` finds the register
free, so its former holders ended before, and all definitions of the newcomer
are still to come.  The assumptions are `ShaderCapsAssumption` and, among the
inputs, `CopiesAgree`: the definitions of a phi result all write one file.
Without it a value claimed in one file would be written in the other.

`WaveProofs` carries this to the running program:

* `ContainsAllocator`: `Spec => RegAllocSpec`, by step simulation, so the
  theorems above hold in the composed back end.
* `FiledRuns`: `Spec /\ SignMasksRead /\ ExtractsFiled => []RunsAsFiled`.
* `CompiledReads`: `Spec /\ Structured /\ Encodable => []ReadsFindTheirValue`, where
  `Encodable` is `SignMasksRead /\ ExtractsFiled /\ MovesFit`.
* `WaveTyped`: `Spec => []WaveTypeOK`: the spliced list stays within its capacity.
* `StaleReads`: `Spec /\ Structured /\ Encodable /\ LoadsBeforeReads =>
  []StaleReadNeedsABranch`.
* `Drains`: `Spec => []RetiresDrained`, for every list.

The argument.  `WaveInv` says that a value written on the path taken so far is
in its registers until its interval ends (`StillHeld`), and that the wave is
past the intervals of the values it was to follow (`PastThose`).  Executing an
instruction overwrites a value still wanted only if the two share a register;
then either the value's own interval was over before the instruction, or the
result's was, and neither is so.  A branch backwards leaves both parts standing
because no interval ends inside the loop it closes (`LoopsClosed`); this is the
place where the loop pass is needed.  `Structured` is what the lowering and the
selection give: labels are unique and the branch over a per-lane if leads
forward, since the loop pass does not look at that branch.  `SignMasksRead` and
`ExtractsFiled` are what the lowering gives, too: an arithmetic shift right comes
from `_signed_prep` only, which reads its result with a scalar exclusive or when it
is uniform, and an extract has the uniformity of its builtin.  `MovesFit`, that no
phi carries a 64-bit value, is not given by the lowering: it is a hypothesis
that the code would need, and `wave_wide_phi` is the program without it.  With
the three an instruction writes the registers its result is filed in
(`FiledRuns`); where the encoder rejects the list there is nothing to run.
`MCWave` starts from such lists only, so `compile` shows the same properties on
small ones.

The waits take two more invariants.  `WaitInv` is about the text alone: the pass
remembers each load no wait has followed (`Remembered`), so a read below a load has
a wait in front of it or between the two (`LoadsWaited`), and an `s_endpgm` below a
memory instruction waits for all (`EndsWait`).  `FlightInv` is about the wave: a
load in flight over which no branch was taken stands above with no wait since
(`FlightQuiet`), still owns its registers if anything reads it (`FlightHeld`), and so
only a load that a branch was taken over can overwrite another value
(`LateSkipped`).  `FlightHeld` is where waits and registers meet: an instruction
that takes the load's registers has no read of the load below it, so its last read
is above, where the wait in front of that read has emptied the queue.  This needs
`LoadsBeforeReads`: a result is used below its instruction, which holds since the
blocks of a SPIR-V function follow those that dominate them and what a loop carries
is a phi.  All lists of `MCWave` have it.  `Drains` needs neither hypothesis: when an
`s_endpgm` without a wait ends the wave, nothing above it in the text touches memory.

`IntervalsProofs` proves of the arithmetic of the stack gate, for all integers and
every operator modelled:

* `CombineSound`: the interval `Combine` gives for an operator contains every value
  the operator yields on values inside its operands.
* `CombineOrdered`: from ordered intervals `Combine` makes an ordered one or none.
* `CombineExact`: on known values `Combine` computes what the program computes, or
  cannot tell.
* `LastCountSound`: what `loop_counter` takes for the last value of a counter bounds
  every value the counter has below the bound of its loop.

The argument is by operator.  Products are monotone in each factor one way or the
other, quotients by range; shifts go back to these, with `Pow2` positive and
increasing.  `Pow2` is defined by recursion: that the function exists, and what it is
at `n`, is shown by taking the least `n` at which it would not be so (`Pow2Is`,
`Pow2Monotone`).

`GateProofs` proves of the write gate, for any number of files and functions in any
order:

* `WrappersComplete`: `WriteSpec => []ForwardersFound`.
* `WrappersOnlyWriters`: the wrappers lie in every set of writers that is closed
  under one more call, so nothing but a writer ever becomes one.
* `WrappersReallyWrite`: `WriteSpec => []WrappersWrite`.
* `CountsExact`: `WriteSpec => []CountsReported`.
* `SearchEnds`: `WriteSpec => [][Advances]_writeVars /\ []Bounded`: no behaviour takes
  infinitely many steps.

The argument.  During a pass `PassInv` says that if nothing was added so far,
every function in front of the current place that forwards to a known wrapper is
itself known; a pass that ends so has closed the set (`JudgeInv`), and wrappers
are never removed before the file is judged.

That the search stops is a ranking.  Each step moves forward the file, the step, the
set of wrappers, the flag that asks for a new pass, the table or the place in it, and
leaves those before it in this list alone (`Advances`); each has an end (`Bounded`),
the wrappers because their names are names of functions in scope.  That a step is
always possible before the end, and so the report comes, is `GatesReport`, and
model-checked.

`WrappersWrite` speaks of `Writers`, the functions that reach a write through at
most as many calls as there are functions in scope.  `ChainInv` counts: the wrappers
found so far all reach a write through at most as many calls as there are wrappers,
since a function that is added forwards to one that was there (`CallChainsFacts`: the
levels grow with the number of calls).  The names of the wrappers are names of
functions in scope, so the levels suffice.

`CountsReported` needs both directions and the way from the tables to the report.
When a file is judged, the wrappers and the writers are the same where no name is
ambiguous: what is a wrapper writes (`ChainInv`), and what writes is a wrapper, level
by level (`WritersNoted`, from `ForwardersFound`).  `decode` gives a literal the
bytes the compiler gives it (`WidthIsBytes`, `LengthIsBytes`), so a file is judged
rightly (`JudgedRight`: what is reported is to be reported, `Accountable`), and `ReportInv` carries the verdicts of the files already
judged, those in front of the current one, to the end.  `CountsReported` is about a
file whose names are not ambiguous (`Unambiguous`): different functions in scope have
different names, none is called `syscall` or `sys_write`, and none writes through two
pairs of its parameters.  The functions under `src/` have different names, and none
has one of these two.

The assumption is `TreesAssumption`: trees are nonempty lists, functions, parameters,
calls and arguments are lists, and the pieces of a literal that can be encoded have
the bytes UTF-8 gives their code point, an escape one byte: what the compiler makes
of them.

And of the sizing gate, for any files that keep to the form of the sources:

* `RealDeficits`: `SizingSpec => []DeficitsAreReal`.
* `ExitSized`: `SizingSpec => []CleanExitSized`.
* `SitesCounted`: `SizingSpec => []EverySiteOnce`.

The argument.  The lines `enclosing_fn` takes are the body of the function around a
line, as the compiler sees it (`EnclosingIsBody`), and what `check` asks of a buffer
is what the compiler writes there (`NeedIsWritten`, `WritesAreNeeds`: the numbers of
the script are those of the compiler); so a deficit is real.  That none is missed is
`ScanInv`: while nothing was reported, every call behind the scan fits
(`ScanNoted`), the one on a line that is passed over included, since it was found
with the line above it (`FoundAbove`); and a line is passed over exactly when its
call was found there (`ScanEaten`).  That the exit status speaks of the whole
listing is that the scan ends behind the last line of the last file
(`ScanPlace`).  `EverySiteOnce` says that the number of calls the script prints is
the number of places in all files at which a call is written.  `ScanCounted` adds to
the same invariant that the count so far is the number of places behind the scan:
each turn of the scan counts the place on its line if the line was not passed over,
and none otherwise (`TurnFinds`), and a line holds at most one (`CountedMember`,
`SitesOfFact`).  The assumption is `SourcesAssumption`.

Only model-checked, and out of the prover's reach:

* liveness under fairness: `EveryRunReturns`, `GatesReport` (of the latter the ranking
  of the write gate is proved, `SearchEnds`);
* what a recursive definition computes for every input: the stack gate evaluates
  expressions, resolves pointers and substitutes arguments along trees of any depth,
  as the Python code does, so `StackTypeOK`, `ExecutedIsJudged`, `CleanExitInBounds`
  and `FindingsAreReal` stay with TLC.  What is proved of that gate is the arithmetic
  it folds expressions with (`IntervalsProofs`).

## What the checks show against the documentation

Seven runs end in a counterexample on purpose.

* `exec_two_foreign`.  A queue has one pending-wait slot and a second barrier
  replaces the first, so a consumer with producers on two other queues waits
  for one of them (`backend_native.cyr:1422`, against `render_graph.cyr:1203`
  and `queue.cyr:218`).
* `exec_slice_wrap`.  The slice cursor wraps without a wait, so a graph with
  more nodes than slices rewrites a stream in flight (`backend_native.cyr:734`,
  against the comment above it and `render_graph.cyr:1207`).
* `graph_release`.  Until `rg_build` allocates, a transient's handle field
  holds its label pointer; a build that allocates nothing (cycle, no nodes,
  null device) leaves it there and `rg_release` passes it to the wgpu release
  call (`render_graph.cyr:1301`, against `render_graph.cyr:231`).

* `wave_skipped_wait`.  `gfx9_waitcnt` walks the text once and forgets the
  outstanding loads after each wait, though a branch can pass over the wait: a
  use behind the join reads a load in flight (`gfx9_waitcnt.cyr:99`, against
  line 8, "IMPOSSIBLE BY CONSTRUCTION").
* `wave_wide_phi`.  A phi of a 64-bit value is accepted, and the copy on each edge
  is one `v_mov_b32`, which moves the low half: a double carried around a loop has
  a high half nobody wrote (`spirv_lower.cyr:1159`, against 1174, "the actual
  copies were emitted on each predecessor's branch").
* `wave_scratch`.  The scratch register is `reg + 1` over the vector results, so
  for a 64-bit value on top it is the high half of its pair
  (`gfx9_compile.cyr:863`, against the comment at 855).
* `gate_guard`.  `path_conds` demands the negation of a returning guard at every
  later token, those of the guard's own block included, so a write there is taken
  for unreachable exactly when it is reached
  (`scripts/check-stack-array-sizing.py:243`, against lines 48-50, "sound, not
  heuristic").

Other disagreements met while modelling, not checked by a run of their own:

* `gisel_writes_vgpr` does not list the scalar arithmetic shift right
  (`gfx9_isel.cyr:180`, against 173-174, "the scalar ALU ops (S_*) write an SGPR"), so
  its result is filed as a VGPR and written to an SGPR (`gfx9_compile.cyr:671`).  The
  only source of the shift is the signed division, which reads it with a scalar
  exclusive or, and that is rejected (`BAD_SALU_OPERAND`): signed division and
  remainder of a uniform value, or by a constant, do not compile, where
  `CHANGELOG.md:2766` has the full family compiled.  That no list runs with the
  wrong register is `RunsAsFiled`, in `compile`.
* A hexadecimal count is a number to the write gate's lexer but is not read
  (`check-program-write-lengths.py:274`), so a correct `sys_write(1, "ab", 0x2)`
  outside `programs/` is reported, where the docstring (33-36) allows a count that
  equals the byte length.  `CountsReported` and `CountsExact` name these reports.
* A refused submission has already bumped the timeline point
  (`backend_native.cyr:669`), so a later `wait_idle` waits for a point nobody
  will signal (against `backend_native.cyr:1388`).  The model contains it, and
  `CalmQueueIsIdle` is therefore about the clients without faults.
* A graph added writers-first may be reordered by the FIFO drain
  (`render_graph.cyr:371`), where `docs/guides/render-graph.md:131` says
  in-order graphs keep insertion order.
* Node ids index the vector that the build permutes, so accessors called with
  an id after a build can answer for another node (`render_graph.cyr:223`, 977).
* `rg_build` returns 0 with a null handle when the device refused a transient
  (`render_graph.cyr:489`, against `docs/guides/render-graph.md:96`).
* `gfx9_regalloc.cyr:190` and the changelog say one round of the loop pass would
  leave an enclosing loop wrong; visiting the branches in text order closes
  nested loops in one round (`OneRoundCloses`), the second only confirms it.
* The greedy planner is not optimal, as `render_graph.cyr:528` calls it: it
  never enlarges a slot.
* Neither mipped create rolls its range back when creating the texture fails
  (`backend_native.cyr:1838`), where the other creates do ("Every post-VA-alloc
  error path reclaims", line 881): the range is lost for the context's lifetime.
* `backend_native.cyr:1873` says the downsample shader's range is leaked, and 1167
  that a shader module's is not reclaimed; both are given back (1947, 1186).
* The wait before an `s_endpgm` is decided by what stands above it in the text, so a
  wave that returns early from a loop, over a return placed above the loop's stores,
  retires with a store in flight (`gfx9_waitcnt.cyr:84`, against lines 11-13, "so the
  wave does not retire before its stores (and any smem) complete").
  `RetiresDrained` excepts that case, and only that one.
* `rg_transient_offset` answers 0, not -1, for a graph never planned
  (`render_graph.cyr:695`).

Limits of the gates met while modelling them:

* Stack gate: a local assigned once is a constant to it even where its address was
  passed on; increments inside a nested loop count once (`loop_counter`); an
  offset that is a range is folded to its upper end (`to_param_expr`); a loop that
  never runs gives a reversed interval and may be reported; names are compared
  without their scopes, so a local can stand for a global of the same name.  The
  instances of `gates` are programs in which these do not occur, or in which the
  call is among the skipped ones the properties except.
* Write gate: only the first forwarded pair of a function is kept, and a function of
  the file hides one of the same name under `src/`; `CountsReported` is stated for
  files without either, and without a function named like a system call
  (`Unambiguous`).  A system call number that is not written `1` or `SYS_WRITE`
  (`0x1`) is no write to the script, and none to the model's truth either.
* Sizing gate: a call within two lines of the word "assert" is skipped, calls over
  more than two lines and capacities that are no literals are not matched, a call
  on the header line of a one-line function is counted with the function before,
  and the sizes of `CC_HW` and `CC_ABI` are not checked.
* `owned_state_audit.py` looks at the register state at the last draw only, and
  never compares a register that the untextured pass writes too.

## Limits

* The client of `RenderGraph` makes its declarations before a successful
  build; calls after it are outside the model, and `rg_release` is called once,
  after an `rg_build`.
* The GPU is modelled by what the code relies on: in-order rings, in-CS waits,
  points signalled at retirement.  A GPU reset shows as a failing wait.
* Waits that fail leave jobs in flight; the client with faults therefore executes
  once, and several executions after a failed wait are on the plan.
* The gates' lexers are left out: their models start from parsed programs, lists of
  calls, and classified lines.  The three report scripts under
  `programs/diagnostics/` are tables and printing, and are not modelled.
* Payload bytes, packet bits, texture views and DOT output are left out.
* The components marked `not_modelled` in `PROJECT.json` say why, or where in
  the plan they stand.

## Plan

1. `SurfacePresent`: double buffering, the flip event, failure after a queued
   flip.
2. `QueueApi`: arbitrary client calls on queues, synchronous dispatch on slice
   0, `gpu_device_wait_idle`, the reset check, executions after a failed wait.
3. `AliasedGraph`: a planned graph under the multi-queue executor, whose
   overlapping queues the planner does not know of.
4. Context bring-up and unwinding, BO lifecycle, the render pass and its
   texture stash.
5. Compiler passes in front of the allocator: lowering (phi copies on edges,
   merge labels), uniformity, selection (per-lane ifs and the execution mask,
   condition codes between compare and branch), the ABI; then a wave over
   values against an interpreter of the input.
6. Growable and ping-pong buffers, caches, profiler; the NVIDIA backend's
   channel and fences; late client calls after a build.

Proofs to add: the stack gate's summaries, once expressions have a representation
over which the prover can do induction.
