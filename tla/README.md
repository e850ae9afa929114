# MegaKittens in TLA+

MegaKittens compiles a PyTorch function into one persistent CUDA kernel. The
function becomes an FX graph, the graph a DAG of ops, the DAG a flat list of
256-byte instructions with barriers in global memory, and one kernel launch
runs the list on all SMs. What goes wrong in it goes wrong quietly: a range
composed from the wrong base, a region that misses a row, a barrier that counts
one arrival too few, a page handed on while it is being read.

This directory holds a TLA+ model of the way from the FX graph to the running
kernel, TLC configurations that check it on small instances, and TLAPS proofs, for
every size: of the instruction pipeline, of the scheduler, and that the kernel, running
the scheduler's program of any graph, does to memory what the graph says. Paths below
are relative to the repository (`src/`).

## The system

| part | source | state | operations | hard about it |
|---|---|---|---|---|
| FX parser | `megakittens/fx_parser.py` | the DAG under construction | one handler per kind of FX node | in-place ops, views, results that no output stands for |
| DAG, optimizer | `megakittens/schema/dag.py`, `schema/tensor.py`, `dag_optimizer.py` | nodes with edges in both directions | prune, fold views, transposes and reshapes into ranges, validate | composing ranges, keeping both directions of the edges in step |
| instruction types | `megakittens/itypes/`, `schema/itype.py` | none | count, block indices, regions read and written, validation | 23 tilings by hand, with remainders and slices; two functions that must agree on the count |
| scheduler | `megakittens/scheduler.py` | storage pool, tensor table, barrier table | four phases, once per graph | storage reuse, in-place ops, barrier targets, padding |
| dispatcher | `megakittens/dispatcher.py` | tensors, barrier tensor, descriptor caches | `call`: bind inputs, zero barriers, launch | relaunch, rows to SMs, views of inputs |
| kernel compilation | `megakittens/jit/` | cubin files | load, compile, save | several processes, a crash between two files |
| kernel, controller | `csrc/megakittens.cuh`, `controller.cuh` | ring of two slots, mbarriers, CLC handles | fetch, page order, semaphores, publish, stop | parity waits, cluster of two CTAs, CLC queue |
| workers | `csrc/workers.cuh` | iteration, stage | wait, dispatch, finish | running up to two instructions apart |
| global barriers | `csrc/utils.cuh` | counters in global memory | wait (equality), arrive | overshoot, stale counters |
| op kernels | `csrc/itypes/` | pages, tensor memory, semaphores | loader, launcher, consumer, storer of each op | pages handed from op to op, order of waits, stores and arrivals |

How they interact. The backend calls parser, optimizer, `schedule` and builds a
`Dispatcher`; each `call` binds the caller's tensors, zeroes the barriers and
enqueues a launch on the current stream. In the kernel, each CTA has one
controller warp and eleven worker warps. The controller copies an instruction
into a slot of the ring and publishes it to all CTAs of the cluster; each
worker warp runs its role's function of the instruction's op; the op waits on
global barriers, moves data between global memory, pages and tensor memory, and
arrives at global barriers. SMs see each other only through those barriers.

What makes each part correct:

* pipeline: every warp runs every instruction of its CTA's stream once, in
  order, out of an intact slot; the CTAs of a cluster run matching rows; pages
  are numbered consistently; the kernel ends with nothing under way;
* scheduler: the barriers of its program order every pair of conflicting
  accesses, have reachable targets, and cannot form a cycle; outputs survive;
* launch and op protocol: a launch computes what the graph says, in whatever
  order the SMs run, and returns; so does the next launch;
* page and tensor-memory hand-over: each page is finished exactly once per
  instruction and never touched after;
* instruction types and region arithmetic: an op's instructions write its results
  completely and stay inside its operands; an instruction depends on exactly those
  that write what it reads;
* parser and optimizer: the DAG reads the elements the FX graph means, and what
  cannot be expressed is refused;
* cubin cache: what is loaded is what was saved.

All but the last are modelled.

## Modules

In the order in which a function passes through the parts they model:

| part | modules | what they rest on |
|---|---|---|
| FX graph to DAG | `TensorRanges`, `FxCompile` | PyTorch's views as strided views of a storage |
| DAG to instructions and regions | `AccessRegions`, `TileTypes`, `MatrixTypes`, `Llama70bTypes`, `Llama1bTypes`, `InstructionTypes`, `InstructionTypesProofs` | ranges as `TensorRanges` defines them |
| DAG to program | `Scheduling`, `ScheduledProgram`, `Scheduler` | regions as sets of cells |
| launch and barriers | `Megakernel`, `Dataflow` | the scheduler's programs, the instruction stream |
| instructions to warps | `InstructionPipeline`, `InstructionStream` | rows of instructions |
| pages and tensor memory | `OpProtocol`, `PageHandover`, `InstructionAlone`, `PagePool`, `PageSteps`, `TileOps`, `MatmulOps` | the ring of the pipeline |

### FX graph to DAG

`TensorRanges` is `schema/tensor.py`: ranges of four intervals, their composition,
chains of selects and slices (`FromSlice`), and where the elements of a tensor lie.
`FxCompile` is `backend.py` from the FX graph to the validated DAG, a state machine
whose steps are the parser's handlers and then the passes:

| action | source |
|---|---|
| `ParsePlaceholder`, `ParseGetitem`, `ParseSelect`, `ParseSlice`, `ParsePermute`, `ParseTranspose`, `ParseReshape`, `ParseReduceKeepdim`, `ParseCall`, `ParseOutput` | the handlers of `fx_parser.py`, with what they refuse |
| `LinkOutputs` | the loop after parsing that fills in `out_nodes` |
| `PruneDeadNodes`, `MergeViews`, `MergeTransposes`, `MergeReshapes` | the passes of `optimize_dag`, in their order |
| `Validate`, `ValidateItypes` | `DAG.validate`; the count of operands in `IType.validate`, and `Gemm.validate` (`MatmulFits`) |

Beside the DAG the state has what PyTorch means: each FX node's `values`, strided
views of the storage that a placeholder or a call owns. The code sees of them the
shape, and whether it is contiguous. The FX nodes are chosen while they are read, which
gives every graph of a menu of inputs, calls and views.

A permutation folded into a matmul becomes a flag of the matmul (`transposed`), whatever
it permuted, as in `merge_transpose_ops`. That pass asks `consumer not in
source.out_nodes` (`dag_optimizer.py:184`), and pydantic answers by comparing nodes field by field,
in both directions of the edges: `ThenCompared` follows a comparison to the two nodes it turns
on next, and `Endless` says that it comes back to a pair it is still comparing, where
Python raises a RecursionError.

Abstracted: dtypes and devices; `get_attr`, `call_module` and `call_method` nodes; the results of
calls are contiguous; the arguments of an auto-functionalised call are whole bases, not
views that it takes by itself; the granularities of a matmul's tiles, so that tensors of size
two can be multiplied (`InstructionTypes` has them); and Python's limit of frames for a
comparison that is long but ends.

### Instruction types

`AccessRegions` has what the types share: boxes, overlap, tiles, and
`box_to_linear_range`. `TileTypes`, `MatrixTypes`, `Llama70bTypes` and `Llama1bTypes` have,
for each type, the operators `...Outputs` (shapes of the results), `...Specs` (granularities),
`...Num`, `...Blocks`, `...Regions` and `...Ok` (`num_instructions`, `block_indices`,
`access_regions`, `validate`), and `...Inplace`, `...Built` where the type has them. An op is its
type, parameters, operands and results; an operand is a shape and a range of it.
The operators are on unbounded integers, as Python's are.

`InstructionTypes` runs a program of one op, or of two with an edge, through what
the scheduler does with them: `ListInstructions` (step 1 of `assign_barriers`), `MatchEdge`
(step 2: units, unit keys, linear ranges where a view lies between), `ValidateOp`
(`generate_instructions`, which validates an op as it emits its first instruction).
What raises is a step to `rejected`. Dtypes are left out but for element sizes, and
so is `block_itype` except for the width it gives o_proj's last block.
The programs it is about are those of `ProgramsAssumption` (see Proofs, below).

### Instruction pipeline

`InstructionPipeline` models one cluster of one or two CTAs: `controller_loop`,
the four worker loops, the start and final sync of `kernel`. One action per step
of the controller's loop body, in the source's order:

| action | source |
|---|---|
| `Reclaim` | step 0, wait for `instruction_finished`, invalidate semaphores |
| `FetchStatic`, `FetchFirst`, `ClcSchedule`, `ClcQuery` | step 1, the three ways to get a row; out of range is `Stop` |
| `Prepare` | steps 2 and 3, `pid_order` and semaphores |
| `Publish` | step 4, `tensor_commit` to all CTAs, advance |
| `WorkerTake`, `WorkerFinish` | the two halves of `MAKE_WORKER` around the handler |
| `KernelExit` | the final cluster sync |
| `DeliverCommit`, `ClcDeliver`, `LaunchElsewhere` | hardware: asynchronous arrivals, CLC responses, other clusters |

An mbarrier is a phase counter and a count of arrivals; `wait` compares the
PARITY of the phase, as the hardware does, so a model run can pass a wait it
should not. `tensor_commit` is asynchronous: an arrival is under way to each
CTA until `DeliverCommit`. A CLC request may always fail, whatever is left in
the grid. `issued` is a history variable; nothing reads it.

Steps 2 and 3 are one action because no other warp reads or writes what they
touch before step 4; the mbarrier waits are separate from the steps before them.
The comment lines inside the multi-line macro `MAKE_WORKER` (`workers.cuh:13` and
following) have no line continuation; the model takes the macro for what its
code lines say.

`InstructionStream` is the abstract specification: per CTA a growing stream that
ends with STOP, workers that take and retire its entries in order, at most LEAD
ahead of the slowest, and never before all CTAs have issued. No slots, no
parities, no arrivals. `Stream` in `InstructionPipeline` is the refinement mapping.

### Scheduler

`Scheduling` has the scheduler's four phases as operators on a DAG, one operator
per decision of the source (`Place`, `Alias`, `Fits`, `Reuse`, `Allocate`,
`MayReuse`, `OtherUsers`, `ReleaseTarget`, `Dependencies`, `Arrivals`, ...).
`Scheduler` runs them as a state machine, node by node, with the errors that end it,
and checks that the finished program keeps the promises of `ScheduledProgram`: who
waits for whom (`CompletedBefore`, `LoadedAfter`), `NoRaces`, `ExactTargets`,
`OutputsLast`, `Consistent`, `WellFormed`, and `FollowsGraph`, that its rows are the
graph's instructions in an order that follows the graph. These predicates on a program are
the interface between compiler and kernel: `Scheduler` checks them, and the proofs about
`Megakernel` use nothing else of a program.

What graphs the scheduler may be given is also said in `ScheduledProgram`, as
`Schedulable`, and is an assumption of both `Scheduler` and `Megakernel`:

* `Shaped`: nodes are sorted, edges lead to tensors of earlier nodes that are not the
  output node, in-place slots name an edge, an op has an instruction;
* `Functionalised`: a tensor is mutated by one slot of one node, and neither read
  afterwards nor returned (FX lists a mutated tensor as a new one);
* `InstructionsApart`: no two instructions of an op store to one cell, nor one to what
  another reads of the mutated operand (`OutputsWritten` and `InPlaceApart` of
  `InstructionTypes` are about this);
* `InputsFilled`: the caller's tensors have all the cells that are read.

For `OutputsKept` also `MutationsReturned`: each version of a mutated input is returned or
mutated again; otherwise the pool gets the caller's own storage, as only the input node itself is kept
out of it (`scheduler.py:156`). What `Schedulable` excludes and the code accepts: an
op without instructions ("Where the compiler's properties stop"), and ops of which several instructions
store to one part of a result (`SharedResults` of `InstructionTypes`).

Data is abstracted thus:

* a tensor is a set of cells, an instruction reads and writes cells of its
  tensors; two instructions overlap exactly if they share a cell, which is what
  `DependenciesExact` of `InstructionTypes` says of real regions;
* a storage is a number; a size stands for size and device. Several tensor
  metas on one storage (views, other dtypes) are one tensor;
* a data barrier is named by its producer and the set of producing instructions,
  which is the key `assign_barriers` deduplicates by; a reuse barrier by the
  release it stands for. The order of an instruction's waits, or arrivals, among
  themselves is not modelled (`SetToSeq`), nor that of a tensor's readers;
* an instruction carries, besides its barriers, the cells of storage it reads
  and writes and the tensor whose data each is to hold. That is not in the
  256 bytes; it is what the properties are about.

### Launch, barriers, op protocol

`Megakernel` puts a program of `Scheduling` on SMs. `Launch` is `Dispatcher.call`:
fresh barriers, the caller's inputs, everything else in memory stale (a launch
must not live off the data of the last one, although the buffers keep it). Rows
reach SMs by wave and block index (`StaticRows`) or through the work queue
(`FirstRows`, `Claim`). A warp runs the instructions of its SM in order, at most
LEAD ahead of any other warp of the cluster: precisely what `InstructionStream`
promises, so that the ring need not be modelled again.

What an op's warp does with an instruction is a script: a sequence of steps
`wait`, `load`, `loaded`, `store`, `stored`, `arrive`, in the order of the op's
code. Loads and stores are asynchronous. From `load` to `Deliver` the cells are
being read; from `Store` to `Stored` they are torn. The scripts are those of copy
and the elementwise ops (`TileLoader`, `TileConsumer`), the 70b rms op, reduce,
and the position increment. Tiles of one instruction are one load and one store.

`Dataflow` is the abstract specification: each instruction of the graph takes
effect once, after the tensors it reads are computed where it reads them, and
after every other reader of a tensor it mutates. `ImplementsDataflow` maps an
instruction's effect to the end of its store.

### Page and tensor-memory hand-over

`OpProtocol` is what one instruction does in the CTAs of a cluster, as a machine whose
states are records: `Advanced` (a step of a warp), `PassedOn`, `Retired`, `Delivered`,
`MultipliedOnce`, and `Goes`, the disjunction of them. It never waits for a page. It also
says what is asked of an instruction: `InTurn` (it uses a page after waiting for it and
before finishing it, finishes each once, signals no CTA that is behind it), `ReadsIntact`
(it reads what it put there itself) and `PassesPagesOn` (the release orders are one
permutation); an instruction is `Sound` if there is a set of states it does not leave, in
which these hold. `InstructionAlone` is that machine as a specification, for TLC.

`PageHandover` is what happens inside the SMs of one cluster when the op kernels
of consecutive instructions share the seven shared-memory pages and the tensor
memory. The machine is the same for all ops, with the semaphores, loads and
multiplications of `OpProtocol`: `Issue` is the controller (page order,
fresh semaphores, publication), `Advance` a step of a warp, `PassOn` a lane of the
loader that waits for a page the op does not use and finishes it, `Retire` a warp's
arrival on `instruction_finished`, `Deliver` and `Multiplied` the hardware. What a
warp does is data: a script, a sequence of steps. A step waits (pages by parity,
tensor memory by parity, dynamic semaphores by phase bit) and then acts: it finishes
pages, signals semaphores, starts loads or multiplications, stores, reads.

| module | scripts of |
|---|---|
| `PageSteps` | what a step is made of |
| `TileOps` | noop, copy, elementwise (one to three operands, one or two tiles), rmsnorm, the 70b rms op |
| `MatmulOps` | gemm, lm_head and o_proj_residual (one protocol), gate_silu, up_matmul: two CTAs, four stages |

The model keeps: mbarriers with phase, arrivals and bytes; loads and
multiplications that take effect later than they are started, and tear what they
write until then; multiplications that complete in order, read pages of both CTAs
by CTA 0's page numbers and write the tensor memory of both; the release orders
from the operands, tiles and iterations as the code computes them. It abstracts:

* what a page holds, to a tag per part (the instruction and which of its data);
  parts are as fine as the op's warps and stages divide a page;
* the tiles that signal one semaphore are one load;
* two of the consumer warps stand for their group: the ops divide pages evenly;
* waits on other SMs, which are `Megakernel`'s. Here an instruction's barriers
  always have their values, which allows more behaviours;
* a warp's last step includes its arrival on `instruction_finished`, as nothing it
  does in between is seen by others; the loader's leader meets its lanes first;
* the ring is LEAD sets of semaphores and page orders, reused as
  `InstructionPipeline` is proved to do.

`PagePool` is the abstract specification: each page goes from instruction to
instruction, every instruction has it once, and only the one that has it touches
it. `ImplementsPool` takes a page's holder to be the phase of its `page_finished`, and
its uses to be the reads of the warps, loads in flight and multiplications in
flight. Nothing in it depends on the release order: any permutation will do,
as long as the CTAs of a cluster agree, and a good one only makes pages free sooner.

`MCFxCompile`, `MCInstructionTypes`, `MCInstructionPipeline`, `MCScheduler`, `MCMegakernel`,
`MCPageHandover` and `MCInstructionAlone` give the instances.

## Runs

| run | what it asks | bounds |
|---|---|---|
| `compile` | edges registered both ways, same meaning, refused only with a reason | 6 menus: 1 or 3 inputs of 1 to 4 dimensions of size 1 or 2, up to 3 nodes (4 in one menu) |
| `itypes` | counts agree, regions inside, results written, in place apart, dependencies exact | 1020 programs of 1 or 2 ops of 23 types, 10 SMs |
| `pipeline_static` | slots intact, clusters start together, page orders replay | 2 CTAs, 2 workers, 6 waves, 3 pages |
| `pipeline_queue` | types, matching rows, exact waits, clean exit, implements `InstructionStream`, returns | 2 CTAs, 2 workers, 3 clusters of rows in the grid, 1 page |
| `scheduler` | `RaceFree`, `TargetsExact`, `WaitsForEarlierRows`, `OutputsKept` | 5556 graphs, below |
| `megakernel_queue` | reads settled, no overshoot, results, implements `Dataflow` | 2 SMs, 4 graphs, work queue, 3 warps |
| `megakernel_cluster` | types, returns | 1 cluster of 2, 3 graphs, static |
| `megakernel_reduce` | reads settled? No, for reduce | 2 SMs, 1 graph, static |
| `pages_tile` | pages intact, no late signal, implements `PagePool`, ends | 1 CTA, 11 programs of 2 or 3 tile ops |
| `pages_matmul` | pages intact, waits exact | 2 CTAs, 1 warpgroup, gemm then up_matmul of 2 iterations, gate_silu of 6 |
| `pages_alone` | is each instruction sound by itself, with complete sums that it reads in time? | 2 CTAs, 2 warpgroups; gemm of 2 and of 6 iterations, up_matmul of 1, copy, rmsnorm, one at a time |
| `pages_tensor` | tensor memory intact? No, for two multiplications in a row | 2 CTAs, 1 warpgroup, gemm of 1 iteration twice |

The `compile` run reads every function that a menu of `MCFxCompile` allows: a matrix
(`MCAny`) or a batch of two (`MCBatch`) under all calls and views with three nodes before the output;
a column (`MCColumn`), which has a dimension of size 1 behind a larger one; four
dimensions (`MCCube`) for the permutations that touch others than the last two; four nodes with fewer
calls (`MCViews`); and three inputs (`MCLayers`) for two layers that share a weight. Each node
is a call or a view of the latest tensor, in `MCLayers` of one of the latest two (the other
operand of a binary call may be any tensor; `window` is the bound). That is enough
for a view of a view of a view read by a call, for two views of one tensor that meet in
a call, for a view of one result of several, and for what is dead; tensors of size two
make a strict part of one element, a start that is not zero, and every negative index.
What `SameMeaning` compares is not ranges but elements: the offsets, in order, that
an edge's range walks through, for a `transposed` operand of a matmul with the last two
dimensions exchanged, against those PyTorch's strides walk through. It leaves out the operands
that are `Misfolded`, see below.

`RejectsUnsupported` is about the functions that parse, and has two halves. What is accepted needs
none of the six things that are `Unsupported`: a transposed tensor that anything but a
matmul reads, a reshape of a strict part, a strict part as a result, one tensor twice in a
call (FX lists it once, so an operand is missing; auto-functionalised calls keep both), a
matmul of part of a matrix, and what a select leaves of a dimension behind larger ones. And
what is rejected either needs one of them, or a permutation other than the exchange of the
last two dimensions (whose readers' ranges may or may not fit), or has two matmuls whose second
operands are transposes (`Twins`, whose comparison may or may not end).

The `itypes` run has, for every type, operands at the granularity, at several of them, with a
remainder where the type allows one, and, where the type looks at ranges, slices that start
elsewhere, layers other than the first and batches; more than 800 pairs have an edge, some
with a reshape between. The pairs include layer 1 of a cache of two, written by
`qkv_rope_append` and read by `attention_decode`. Causal attention has a head so long that two
fit in the L2 of the code's constant and three heads, which leaves an incomplete group.

Why these bounds are enough to be of interest. The pipeline's waits alternate
with period four (two slots, two parities): six waves go through each slot and
parity at least once more after a full period, and a waiter two phases late
would pass. Two workers suffice for one to be ahead of the other by all the ring
allows; every worker warp runs the same loop, so they are symmetric (symmetry is
off where temporal properties are checked). The queue run has other clusters
take rows (`LaunchElsewhere`), and failures at any request; its three clusters of
rows and the stop signal use each slot twice.

The scheduler run covers every graph of an input, four ops and an output, where
an op is elementwise, whole-tensor, in place, in place on a part, binary (also on
one tensor twice), or has two results, and reads the last two tensors: 5556 graphs.
Of these 3735 get a program; 1693 are rejected for lack of barrier slots (limits
of 3 and 3; the real ones are 16 and 8) and 128 for lack of tensor slots (5; really
256). Single-instruction ops make padding happen, a wave of two SMs makes reuse
happen after one or two ops. Graphs are functionalised as the FX tracer leaves
them: nothing reads a tensor after it was mutated, and a mutated graph input
is returned (TLC evaluates `DagsAssumption` for them).

The graphs of the megakernel runs are picked for what only barriers can order:
`Reuses`, where the storage of a tensor still being read on another SM is given
away; `Mutates`, where a tensor with another reader is mutated, as in
`tests/test_inplace.py`; `Unread`, a result nobody reads, with storage used
again and an operand used twice; `Increments`, where the graph's own input is
incremented. Launches repeat without bound: a state space that returns to
`Launch` covers every relaunch.

`RaceFree` deserves a word. It looks at the finished program alone, computes for
each row what must have completed before it loads and before it stores given
nothing but the barriers, and asks that every conflicting pair of accesses is
ordered, and that the order follows the graph. It does not depend on SM counts, claim
order or speeds. That it holds of every program is proved, and so is that the kernel's protocol
then delivers what the graph says; the runs check both.

The pages runs have seven pages, LEAD 2 as in `schema.cuh`, and programs chosen for
the seams: an op before itself, before one with more pages, before one with fewer,
and with one in between that never touches what the first still holds. Two
instructions are all that are ever in the ring; a third meets a page parity
that has come round. One to six iterations on four stages give the partial fill,
the partial drain and the refill. `pages_matmul` has one warpgroup, and `NUM_CONSUMERS`
is 2 in the code: with two of them in each of two CTAs an instruction alone is as
large as this run, which is why `pages_alone` has both groups and one
instruction at a time. One at a time is enough for sound instructions: what
`pages_alone` finds of each carries over to every program of them, by the theorems below.

`Disciplined` and `ImplementsPool` hold of gemm for even iteration counts. With an odd count, the drain
stage that finishes a page of B is not the last stage to have been used, so the
page's other half may still be read by a multiplication in flight: the page
protocol is broken for a moment. No data is, as the same lane of the next
instruction's loader is the next to write the page, and only after this lane has
waited for the other stages: `PagesIntact` holds for gemm of one and of three
iterations before gemm of one (the program of `pages_tensor`, checked for
`PagesIntact` instead). What keeps the page intact there is who writes it next.

What fails, and is expected to:

* `megakernel_reduce`: `reduce.cuh` writes its result (line 76) before it waits
  for the reuse barriers (line 82). `scheduler.py:212` says of an instruction's
  source barriers that they are waited for "before starting". With a result
  placed in storage whose reader is on another SM, that reader loads torn data.
* `pages_tensor`: only CTA 0's launcher waits for tensor memory (`gemm.cuh:128`), and
  `tensor_finish` (`schema.cuh:193`) arrives in the consumers' own CTA. The next
  multiplication overwrites CTA 1's tensor memory while its epilogue reads it.

Others have no run of their own:

* `gate_silu.cuh:74` and `qkv_rope_append.cuh:220` signal `tensor_finish` when the leader's
  own warpgroup has read its sums, without the group sync of the other epilogues;
  with gate_silu among the instructions of `pages_alone`, `TensorAlone` is violated within a
  few steps.
* A copy's consumer warps convert rows in place (`copy.cuh:89` and 95) with no group sync
  between the loads and the stores. When the element types differ in size, a row's
  new place is over rows of other warps; with `Converting` among the programs of `pages_tile`,
  `PagesIntact` is violated.
* The Noop that pads an odd op (`scheduler.py:451`) has the identity for a release order, the
  op need not; from then on the CTAs of the cluster have different page orders.
  `rms_pipeline.cuh:25` requires them to agree, and chooses a release order
  independent of the row count for that reason; the padding undoes it.

### Where the compiler's properties stop

Some properties of `InstructionTypes` have a condition, and each condition is something
the code neither refuses nor handles. The run's programs include these cases.

* `Comparable`, in `DependenciesExact`. Units are counted in as many dimensions as the
  producer's boxes have (`scheduler.py:297`): boxes of two dimensions (the 70b types) read by a
  type whose boxes have four are compared with the wrong dimensions, and dependencies are
  missed. A box that starts at no multiple of the unit is rounded down
  (`scheduler.py:303`): an rmsnorm of rows 4 to 12 of a copy misses one as well. Where it
  holds, `DependenciesHold` proves the dependencies exact.
* `Plain`, in the properties of regions. The model-specific types take operands for whole: the 70b types
  ignore where the rows of a sliced operand start, `lm_head` always reads layer 0,
  `attention_decode` takes the base page of K for V, `rms` reads batch 0 only;
  gemm takes the batch index of a broadcast operand out of its range; the last region of
  `rms_upgate_silu` passes the end of a result that is no multiple of its pieces.
* Ops without instructions. `validate` is called in the loop over an op's instructions
  (`scheduler.py:422`), so a gemm of 256 rows, or attention over 256 positions, has none, is accepted,
  and never writes its result. It is called once per icode, which is an itype with its source and destination
  tensors (`scheduler.py:420`): a second op with the same key but other metas is not validated
  either.

* `Misfolded`, in `SameMeaning`. `parse_transpose_node` takes any `aten.permute`
  (`fx_parser.py:425-430`), and `merge_transpose_ops` sets `transpose_a` or `transpose_b` whatever the
  permutation is (`dag_optimizer.py:171-174`). So `x.permute(0, 1) @ y` on square matrices is
  accepted and multiplies with the transpose of `x`, and so are `permute(1, 0, 2)` on a batch and a
  swap of the middle two of four dimensions, where the shapes fit. `ParsePermute` has
  them all, the run has accepted graphs of this kind, and without the condition
  `~Misfolded(args[e])` TLC finds `x.permute(0, 1) @ x` at once. It is the one thing known here that
  the passes accept and compute wrongly.

The passes refuse more than PyTorch's semantics ask for. The reasons are the disjuncts of
`Unsupported` and of `RejectsUnsupported`; some are surprising.

* `x + x`: FX lists one node for two operands, so the call has one edge.
* A select of a dimension of size 1 behind a larger one is contiguous and parses:
  `x.sum(-1, keepdim=True)[:, 0]`. Its range has the dimension still in it, while the reader's range
  is padded in front, so composing them raises "Composed range exceeds parent"
  (`tensor.py:182`, called at `dag_optimizer.py:58`). A reader of the first index only of the
  dimensions in front of it is accepted, and reads what is meant (`ReadsShifted`).
* Two layers with one transposed weight over inputs of one shape, `(x @ w.t())` and `(y @ w.t())`:
  comparing the matmuls at `dag_optimizer.py:184` leads through `in_nodes` to the two inputs, through
  their `out_nodes` back to the matmuls, and so on until Python raises a RecursionError. Whether a
  comparison ends depends on what else differs first, so `Twins` only names the pairs for which it may
  not.
* Negative dims of a permutation: the shape is computed as PyTorch does, but the padded
  permutation adds the padding to the negative dim (`fx_parser.py:430`), so for fewer than four
  dimensions it is no permutation any more, and its range may fit nothing.

The parser refuses, while it reads, a view that is not contiguous, an
empty one, and `select` with index -1. The docstring at `tensor.py:105` lets bounds be
negative with Python's meaning, but `parse_select_node` passes `end = index + 1`, which is 0 for
-1, is not counted from the end, and leaves an empty range: `x[-1]` is refused where
`x[-2]` is read as meant. `ParseSelect` does what the code does for both (the menus have
them); `RejectsUnsupported` is about the functions that parse, and no run checks the
docstring.

### Fairness

Safety runs assume none. `pipeline_queue` assumes weak fairness of each warp
(a resident warp is scheduled), of each asynchronous arrival and response, and
of the final sync; the rest of the grid may do anything, for ever.
`megakernel_cluster` assumes weak fairness of each warp, of claiming, of loads,
and of returning; the host need not launch again. `pages_tile` assumes weak fairness of
the controllers, of each warp and lane, of loads and of multiplications, all of
which are resident or in hardware. The spinning `barrier_wait` is a disabled action until
its barrier has the value, so weak fairness suffices; it relies on values that,
once reached, stay (`BarriersNeverPass`, `TargetsExact`).

Termination of a launch rests on something the code takes for granted and the
model states: the clusters of a wave are resident together. With
`WaitsForEarlierRows` the lowest unfinished row can then always run. It is checked
with the static schedule; with the work queue it would also need the CLC to hand
out clusters in increasing order, as `Claim` does.

## Proofs

| module | theorem | what it states |
|---|---|---|
| `InstructionPipelineProofs` | `PipelineTypes` | `Spec => []TypeOK` |
| | `ParityWaitsExact` | `Spec => []WaitsExact` |
| | `SlotsIntact` | `Spec => []SlotIntact` |
| | `ClusterIsPublished` | `Spec => []ClusterPublished` |
| | `PipelineImplementsStream` | `Spec => ImplementsStream` |
| | `ClusterRowsAgree` | `Spec => []ClusterRowsMatch` |
| | `NothingLeftInFlight` | `Spec => []NothingInFlightAtExit` |
| | `PageOrdersReplay` | `Spec => []PageOrderReplays` |
| `SchedulerProofs` | `ProgramsRaceFree` | `Spec => []RaceFree` |
| | `TargetsMatch` | `Spec => []TargetsExact` |
| | `WaitsGoBack` | `Spec => []WaitsForEarlierRows` |
| | `OutputsStay` | `Spec => []OutputsKept` |
| | `TypeCorrect` | `Spec => []TypeOK` |
| `MegakernelProofs` | `BarrierTargetsHold` | `Spec => []BarriersNeverPass` |
| | `ReadsHold` | `Spec => [](ReusesAwaited(..) => ReadsSettled)` |
| | `ResultsHold` | `Spec => [](ReusesAwaited(..) /\ Staffed(..) => ResultsReady)` |
| | `TypeCorrect` | `Spec => []TypeOK` |
| | `ExecutesTheGraph` | `Spec => ImplementsDataflow`, if all programs are `ReusesAwaited` and `Staffed` |
| `PageHandoverProofs` | `Invariance` | `SoundPrograms => (Spec => []IInv)` |
| | `TypesHold` | `SoundPrograms => (Spec => []TypeOK)` |
| | `PagesStayIntact` | `SoundPrograms => (Spec => []PagesIntact)` |
| | `PageWaitsAreExact` | `SoundPrograms => (Spec => []PageWaitsExact)` |
| | `SignalsAreInTime` | `SoundPrograms => (Spec => []NoLateSignal)` |
| | `HandoverImplementsPool` | `SoundPrograms => (Spec => ImplementsPool)` |
| | `MatmulPagesStayIntact` | `MatmulConfig /\ OnlyMatmuls =>` all of these but `Invariance` |
| `MatmulProofs` | `MatmulsAreSound` | `MatmulConfig`, `Iterations(n)`, `Epilogue(k)` imply `Sound(Matmuls(n, k))` |
| `InstructionAloneProofs` | `MatmulsDisciplined` | `MatmulConfig /\ OnlyMatmuls => (Spec => []Disciplined)` |
| | `MatmulsIntact` | `MatmulConfig /\ OnlyMatmuls => (Spec => []AloneIntact)` |
| | `GemmSumsComplete` | `MatmulConfig /\ OnlyGemms => (Spec => []TensorAlone)` |
| `InstructionTypesProofs` | `MatchBoxesExact`, `MatchLinearExact` | whom region matching makes a consumer wait for |
| | `TypesHold` | `Spec => []TypeOK` |
| | `DependenciesHold` | `Spec => []DependenciesExact` |
| | `CountsHold` | `Spec => []CountsAgree` |
| | `InPlaceHolds` | `Spec => []InPlaceApart` |

### The pipeline

For any finite set of worker warps, cluster size 1 or 2, either fetch mode, any number of
rows, pages and instruction types. The assumptions are those of `InstructionPipeline`:
`ConfigAssumption`, whose source is the static_asserts of `schema.cuh` and the
scheduler's padding, and that the release order of a type has each page once.

None of the properties is inductive: the phase of a barrier says nothing about
who has arrived. The inductive invariant `IInv` recovers all phases from the
iteration counters. Let `Uses(m, g)` be how many of the iterations
`0 .. m - 1` use ring slot `g`.

* `PublishedInv`: what controllers have published is what they have iterated.
* `ArrivalsInv`: on `instruction_arrived`, phases times cluster size plus
  pending count plus commits under way equal the uses of the slot by all
  controllers together. Arrivals are anonymous, so only their sum is known.
* `FinishesInv`: on `instruction_finished`, every worker has used the slot as often
  as there were phases, or once more, and those once more are the pending count.
* `OrderInv`: controllers are at most two ahead of their workers, workers never
  ahead of any controller's publications.
* `ClcInv`: the same accounting for the CLC barrier with its two ingredients,
  and what is in the handle.
* `SlotInv`: the slots hold the last two published rows.

`OrderInv` is what turns anonymous sums into facts about single CTAs: two
arrivals of one controller at one slot are two publications apart, so four
iterations, and no controller gets so far ahead of the slowest worker, which
itself waits for both. Each of the twelve actions has a lemma that it
preserves `IInv`; parity equals phase by `WaitsExact`, which follows.

The refinement proof takes `Reclaim`, `Prepare`, deliveries and CLC steps to
stutters, `Publish` and `Stop` to `Issue`, and the worker's halves to `Take` and
`Retire`. `Take` needs `IInv`: that the slot holds the stream's n-th row.

The second half of the module adds three invariants on top of `IInv`.

* `RowsInv`: whatever a controller has published or holds is what the latest answer of
  the CLC makes of it (`RowAt`), and the CTAs have one answer for each ring slot, there
  or under way. Rank 0 asks for the next use of a slot only when all workers of the
  cluster are through with the last, by which time every CTA has published it: so no
  CTA meets the answer to a later request.
* `ExitInv`: when the workers of a CTA have left, its stream has ended with the stop
  signal. Two streams of one cluster then have one length, by `ClusterRowsMatch`, and
  with nothing left to publish the sums of `ArrivalsInv` leave no commit under way.
* `PagesInv`: the page orders in the ring are the last two of the replay. `PageOrders`
  is recursive over the issued rows; the proof unfolds it one row at a time
  (`ChainExists`, `ChainAppend`), and needs no general induction principle.

### The scheduler

For every graph that is `Schedulable` and `MutationsReturned` (`DagsAssumption`), of any
number of nodes, edges and instructions, any limits, cluster size 1 or 2.

The state machine goes node by node; its invariant `IInv` says that `PassInv` holds of the
nodes done, and that a finished program is `Program` of graph and storages. `PassInv`
(first part of `SchedulingProofs`) is what makes reuse of storage safe:

* `SharedInv`: two tensors with one storage are of different nodes, and the node of the later one
  is behind all users of the earlier one, by releases it waits for; it may be a user itself
  only by mutating the one into the other. This is what one
  wants to know, and it is not inductive: when a storage is passed on a third time, the
  users of the first tensor have to be behind the newest node.
* `PoolInv`: an entry of the pool stands for the last tensor in its storage, names all its users and
  no two entries share storage. So whoever takes it waits for the storage's last tensor.
* `Behind`: what a release orders, transitively; it is the least such relation, written
  as "in every transitive relation that contains the releases". The node that stores the last tensor
  in a storage is a user of it, and was behind all earlier users.
* `ReleaseInv`: a release waits for ops before its reuser, and its target counts their
  instructions; `Fits` provides the first, by comparing the position of the last user with
  the start of the wave (`scheduler.py:120-123`).
* `AliasInv`, `CallersInv`: a mutated tensor stays in its storage; only versions of a caller's tensor
  share its storage.

`SchedulingProofs` then shows what the program made of such storages is: each instruction of the graph
has one row, at an offset that counts the padding (`RowsLaid`, an induction over the
concatenation of the ops' rows); which rows a row awaits (`AwaitedAre`); and that
`CompletedBefore`, a recursion over the rows, contains whatever is `Behind`
(`BehindPrecedes`). A conflict between two rows is one between two tensors in
one storage, hence ordered by `SharedInv` (`StoresOrdered`, `LoadIsSafe`, `StoreIsSafe`);
that what a row loads has been stored is by the data barriers, whose producers are those that
overlap (`LoadedIsStored`, with `AllMatched`, the check that raises at `scheduler.py:316`).
A target is exact because the arrivals at a barrier are in bijection with the
instructions that the target counts, an op once for each time a release lists it
(`DataTarget`, `ReuseTarget`).

The recursions (the pass, the offsets, the sums of counts) are recursive functions, not folds:
what one computes is shown by an induction over a set of naturals (`NatSet`), which is
as far as first-order backends go.

### The kernel and global memory

For any graphs, any number of SMs, cluster size, warps of the three roles, and either
way of handing out rows, and over any number of launches. The assumptions are
`SchedulingAssumption` and `MegakernelAssumption` on the constants, and
`GraphsAssumption`: the graphs are `Schedulable` and their ops among the modelled ones. The
kernel runs `Schedule(GRAPHS[g])`; that this keeps the promises of `ScheduledProgram` is the lemma
`ProgramPromises`, from the modules above, so the chain from a graph to what its kernel leaves in
memory is proved throughout. `ScheduledOps`, what the kernel has to know of an op beyond the promises, is
derived too: an op that stores before all its loads are in does not store where it
loads, since two tensors of one op share storage only if it mutates one
(`NotInPlace`).

Two theorems need more, and say so in their statement.

* `ReusesAwaited`: no reduction has a reuse barrier to wait for. Without it
  `ReadsSettled` is false: this is the finding of `megakernel_reduce`.
* `Staffed`: the warp that stores a row is among `WORKERS`. The constant lets a run
  leave out warps that no op of its graphs uses; without the storing warp nothing is
  ever stored, and the kernel returns all the same.

Properties like `ReadsSettled` are far from inductive: they relate a row's data to
stores of rows on other SMs, in a program of which only the promises are known. The
invariants build on each other.

* What the scripts are is established once (`GoodScript`, `EveryScript`): where an op
  waits for data, loads, stores and arrives, and that it does so in this order. The
  rest of `MegakernelProofs` knows the ops by this alone.
* `ControlInv` says that every row is claimed once, by the cluster it is aligned to, and
  how far each warp has come. `Taken`, the set of steps taken, is defined from it. Every
  action is shown to add one step to `Taken`, after those before it in the script, or to
  leave it alone; at return it has all steps of all rows. This is the only place where SMs, claims and
  waves occur.
* `SyncInv`: a barrier counts the arrivals in `Taken`, and a wait in `Taken` was for a
  barrier that has had them all. The count is exact since `Taken` grows by one step at
  a time; it cannot pass the target, as the target is the number of arrivals there are.
* `LoadInv`, `CompletedInv`: loads are under way between their two steps; a row is
  complete when its stores are.
* `OrderInv`: a row that has begun to store has `CompletedBefore` complete. It has waited
  for those it awaits, and what they waited for is in the invariant already.
  `CompletedBefore` is a recursive function of the row; the proof unfolds its defining
  equation, which the recursion theorem for functions on the naturals does not give
  here (it takes an operator), so it is derived by an induction over a set of naturals.
* `MemoryInv`: a cell holds what the last row to begin storing there stores, or
  is torn while it does; and this row is ordered behind all the others that have begun.
  `WriteSafe` says that the rows that store to a cell are ordered; `OrderInv` that the
  order is the order in time.

From these `NoRaces` gives `ReadsSettled`, `OutputsLast` gives `ResultsReady`, and
`FollowsGraph` gives the step of `Dataflow` for the end of every store.

### The page hand-over

For programs of any length, in a cluster of one or two CTAs, with any number of pages, warps
and parts, provided that every instruction is `Sound` (`SoundPrograms`). The ring has one or two
slots and the cluster one or two CTAs (`HandoverAssumption`, `ClusterAssumption`), which the static_asserts
of `schema.cuh:68` justify; nothing is assumed of the ops beyond `Sound`. The theorems thereby
separate what an op has to do, which concerns one kernel at a time and is checked by
`pages_alone` or proved (below), from what the hand-over then gives it, whoever runs before and after it.

The invariant `IInv` says that an instruction in a program runs as it would alone: there are states
`L[n]` of the instructions, each in the closed set of its instruction, page orders `P[n]`, and numbers `K[i]`
of the multiplications in flight, such that the cluster's state is what they make of it.

* `Counted`, `Windowed`: a controller is never more than `LEAD` instructions ahead of a warp of
  its CTA, and no warp is ahead of a controller of the cluster. `RingShaped`, `PageShaped`: the rest of the types.
* `Local`, `Aligned`: `L[n]` is in the closed set and is where the warps, lanes and semaphores of
  instruction `n` are, as long as its slot is not reused; until all controllers have published it, it is
  `Start`. So a step of a warp is a step of its instruction alone, with the same waits and signals.
* `Ordered`: each `P[n]` is a permutation, `P[n + 1]` follows from it by the release order of
  instruction `n` in whichever CTA, and it is what the ring's slots hold.
* `Handed`: a page's phase counts the instructions that have finished it. Instruction `n` has finished it
  if and only if the phase is `n + 2` or more, and has waited for it only if it is `n + 1` or more, so of two
  instructions at most one owns a page. For this a lane must not take one phase for another of
  the same parity. When instruction `n` is in the ring, instruction `n - 2` is behind the CTA, hence
  (`InTurn`) has finished all pages, and the phase is at least `n`; while a lane waits, `n`
  itself has not finished the page, and the phase is at most `n + 1`.
* `Kept`: where `L[n]` knows what it has put into a page it owns, it is there.
* `Loading`, `Queued`: loads and multiplications in flight are those of the states `L[n]`, in the page
  numbers of the SM; multiplications complete in the order of instructions.

Of the properties only the types are anything like inductive; `PagesIntact` follows from `Kept` and `Queued`,
`PageWaitsExact` from `Handed`, `NoLateSignal` from the clause of `InTurn` that nothing in flight signals a CTA
that is behind the instruction. A multiplication reads pages of both CTAs by CTA 0's page numbers: that
they are the right ones in CTA 1 is `PassesPagesOn` at every earlier instruction, and is where padding a
cluster's last wave with a Noop (above) goes wrong. The refinement of `PagePool` takes a step that finishes pages to
`HandOver` and all others to stutters or new uses by the holder.

### The multiplications

`Sound` is a hypothesis of the theorems above; for gemm (with lm_head and o_proj_residual, which have its
script) and gate_silu it is a theorem, for every even number of iterations. `MatmulConfig` is the
configuration of the code: clusters of two CTAs, seven pages, two consumer groups. So a program of such
instructions, `OnlyMatmuls`, needs no further hypothesis. TLC checks two and six iterations; what the number
decides is how often the four stages are used again, in which of them the drain begins, and the release order.

`Good`, the set of states the instruction does not leave, describes a state by how far the warps are: the loads
each CTA has issued and those that have landed, the multiplications started and done, the steps of the four consumers.

* `Counters`: the phase of each semaphore is that of the iteration it is for, which the number of loads
  landed or multiplications done gives. A wait looks at a parity: it is over only
  if the phase is the right one because of `Spread` (no loader is more than four iterations ahead of
  the multiplications) and `InFlight` (the launcher has started nothing whose inputs are in flight).
* `AllPages`: which pages the loader has waited for and finished, from the steps it has done. `PagesUsable`
  needs the even number: of two stages that share a page for B the drain reaches the second one last.
* `ContentsAre`, `SumsAre`: inputs that have landed stay until they are multiplied, sums and results until
  they are read. A load that goes to a stage again tears only what is multiplied, as the loader has waited
  for `inputs_finished`; results go to page 0, stage 0's, and the consumers wait for all multiplications.
* `Consuming`: the four consumers start after all multiplications and meet twice. That the leader
  does not finish page 0, nor gemm's leader tensor memory, before the other consumer of its CTA is through follows from this.

Two CTAs, two consumer groups and two kinds of data in flight make a step of one warp disturb few of these parts;
most lemmas say what one step does to one of them.

### The instruction types

For every program of one op or two with an edge, of operands of any shapes and ranges, on any
number of SMs. `ProgramsAssumption` says what a program is: ops of the 23 types on
tensors of torch (no empty dimension, no empty range), results that have the shape of the operand they are
in place of, as the resolvers give them, and regions that are boxes, lists of intervals that do not end
before they begin, at least one for each tensor. The last is about code, and is assumed of the
types; TLC evaluates the assumption on the thousand programs of the run.

The state machine is short, and its invariant `IInv` says that entries, regions and dependencies are what the operators
compute of the ops listed so far, and that ops validated are valid. What is hard is what the operators compute.

* `DependenciesHold`. The scheduler decides whether two regions share an element by cutting both into units, the
  greatest common divisor of all sizes, and looking for a common unit. Euclid's algorithm divides both its arguments
  (`EuclidDivides`), the fold over the sizes therefore all of them (`GcdDivides`). Between multiples of the unit the order of
  bounds is the order of their quotients (`UnitsLess`), so boxes overlap when they do in units
  (`InUnitsOverlap`) and intervals when their cells meet (`CellsMeet`). Bounds are multiples of the unit
  under `Comparable` only (above): sizes are, by the choice of the unit, but starts have to be.
  An empty box meets none, in the code as in `Overlap`.
* `CountsHold`. One lemma per type (`...Counted`): a product of loop bounds is the number of the loop's rounds
  (`CountersIs`), a flattened list of rows of one length has as many elements as rows and columns say (`FlattenRows`), and
  a range on multiples of a block has as many blocks as its extent (`BlocksOf`). The last is where `validate` is needed,
  which asks for starts and extents on the granularity (`AlignedIs`); the scheduler uses the count before it validates, and
  the property is about programs it accepts.
* `InPlaceHolds`. Two instructions of o_proj_residual differ in the row or the column block; tiles of different
  numbers are apart (`TilesApart`). For 8192 columns there are 36 blocks of 224 and a tail that is block 63 of 128
  columns: `OProjWide` derives the width from `Plain`, the shape of the result and the test in the code,
  `OProjColumnsApart` that block 63 of one size is behind block 35 of the other. The cache of the qkv types
  is no operand an instruction reads (`EmptyApart`), and pos_id_increment has one instruction.

`FoldSet`, `FoldLeft` and `FlattenSeq` are recursive functions under the hood. What one computes is shown by an
induction over the subsets of its argument (`FoldExists`, `FoldSetInduction`), which takes a set where the library's
theorems take an operator.

## Only model-checked

* Liveness: `Terminates`, in three parts. It is out of reach of these backends, and so
  is ENABLED.
* `FxCompile`, whose `TypeOK`, `EdgesAgree`, `SameMeaning` and `RejectsUnsupported` are about passes
  that fold over the nodes.
* `RegionsInside` and `OutputsWritten` of `InstructionTypes`, about the regions of each type and operand:
  that boxes cover a result, or that shares rounded by `Share` do, is nonlinear and different for
  each of the 23 types. That the regions are boxes at all, which the theorems take from
  `ProgramsAssumption`, TLC checks for every program of the run.
* `PageHandover`: that up_matmul, elementwise and rmsnorm are sound is checked by `pages_alone` for the
  instructions it lists, an enumeration of 549 430 states; the other tile ops only in programs
  (`pages_tile`), and gemm with odd iteration counts, which is not sound, only in those named above. Tensor memory: `TensorAlone` is
  about one instruction, and across instructions `TensorIntact` is false (`pages_tensor`).

## Not modelled

* The page protocols of attention, attention_decode, qkv_rope_append, the
  multiplication with half the tensor memory, and the llama1b ops; the barrier
  protocols of all ops but copy, elementwise, rms, reduce and increment. (The
  rms variant of `matvec_pipeline.cuh` names a variable, `state_kt` at line 325, that it
  does not define; it is not modelled as it stands.)
* The wait for tensor memory by the tile ops' launchers is modelled as the
  hand-over it is (`PassTensor`); allocation of tensor memory is not.
* The memory model below "an arrival follows the completed store": the arrival
  is a relaxed reduction after `store_async_wait` or a `__threadfence`.
* Views in the storage assignment of the scheduler: there a tensor is one storage.
* JIT, cubin cache, descriptors, argument packing, argument validation, dtypes.
* Arithmetic of the ops.

## Plan

In order, the most exposed first.

1. Further scripts of `PageHandover`: qkv_rope_append and the half-tensor-memory
   multiplication (shared loader, other release orders), attention and
   attention_decode (pages finished by loader, consumer or storer, depending on
   the number of key blocks; release order by the position), then the llama1b
   ops on `matvec_pipeline`. Properties as now; the seams between ops with odd
   iteration counts.
2. The barrier protocols of the llama1b and llama70b ops as further scripts of
   `Megakernel`: partial waits, arrivals before the end, missing reuse waits.
3. `CubinCache`: processes, two files, a crash between the writes
   (`jit/nvrtc_jit.py:55`).
4. Views in `Scheduling`: several tensor metas on one storage.
5. Proofs: `Sound` of the parametric tile ops, for any number of operands and tiles; `RegionsInside` and
   `OutputsWritten`, type by type; `EdgesAgree` of `FxCompile`.

## Running

In this directory, `tlc -workers 2 -config scheduler.cfg MCScheduler`, and likewise
for the other configurations with the module of the same family (`compile.cfg` with
`MCFxCompile`, `itypes.cfg` with `MCInstructionTypes`);
`tlapm InstructionPipelineProofs.tla`, and likewise for the other modules whose names end in
`Proofs`.
