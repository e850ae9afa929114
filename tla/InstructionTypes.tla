-------------------------- MODULE InstructionTypes --------------------------
(***************************************************************************)
(* schema/itype.py, and what scheduler.py asks of the instruction types:   *)
(* assign_barriers lists every op's instructions and regions and matches   *)
(* the regions along the edges, then build_instructions validates the ops. *)
(* A program is one op, or two with an edge from a result of the first to  *)
(* an operand of the second.                                               *)
(***************************************************************************)
EXTENDS TileTypes, MatrixTypes, Llama70bTypes, Llama1bTypes

CONSTANT PROGRAMS   \* records: the ops, and the edge or no edge

VARIABLES
  ops,      \* dag.nodes, without inputs and outputs
  edge,     \* <<slot, operand>>, or << >>
  entries,  \* node_block_entries of the ops listed so far
  regions,  \* node_regions of the same
  sources,  \* per instruction of the second op: instructions it waits for
  checked,  \* the number of ops validated
  status

vars == <<ops, edge, entries, regions, sources, checked, status>>

---------------------------------------------------------------------------
(***************************************************************************)
(* The instruction types by name.                                          *)
(***************************************************************************)
Outputs(type, args, src) ==
  CASE type = "copy" -> CopyOutputs(args, src)
    [] type = "elementwise_unary" -> UnaryOutputs(args, src)
    [] type = "elementwise_binary" -> BinaryOutputs(args, src)
    [] type = "rmsnorm" -> RmsnormOutputs(args, src)
    [] type = "reduce" -> ReduceOutputs(args, src)
    [] type = "gemm" -> GemmOutputs(args, src)
    [] type = "attention" -> AttentionOutputs(args, src)
    [] type = "pos_id_increment" -> IncrementOutputs(args, src)
    [] type = "gate_silu" -> GateOutputs(args, src)
    [] type = "up_matmul" -> UpOutputs(args, src)
    [] type = "lm_head" -> LmHeadOutputs(args, src)
    [] type = "o_proj_residual" -> OProjOutputs(args, src)
    [] type = "o_proj_residual_half_tmem" -> HalfTmemOutputs(args, src)
    [] type = "qkv_rope_append" -> QkvOutputs(args, src)
    [] type = "attention_decode" -> DecodeOutputs(args, src)
    [] type = "rms" -> RmsOutputs(args, src)
    [] type = "mat_vec_adds" -> MatVecOutputs(args, src)
    [] type = "attention_partial" -> PartialOutputs(args, src)
    [] type = "attention_partial_multi" -> MultiOutputs(args, src)
    [] type = "attention_reduction" -> ReductionOutputs(args, src)
    [] type = "rms_qkv_rope_append" -> AppendOutputs(args, src)
    [] type = "rms_upgate_silu" -> UpgateOutputs(args, src)
    [] type = "rms_lm_head" -> LogitsOutputs(args, src)

Specs(op) ==
  CASE op.type = "copy" -> CopySpecs(op)
    [] op.type = "elementwise_unary" -> UnarySpecs(op)
    [] op.type = "elementwise_binary" -> BinarySpecs(op)
    [] op.type = "rmsnorm" -> RmsnormSpecs(op)
    [] op.type = "reduce" -> ReduceSpecs(op)
    [] op.type = "gemm" -> GemmSpecs(op)
    [] op.type = "attention" -> AttentionSpecs(op)
    [] op.type = "pos_id_increment" -> IncrementSpecs(op)
    [] op.type = "gate_silu" -> GateSpecs(op)
    [] op.type = "up_matmul" -> UpSpecs(op)
    [] op.type = "lm_head" -> LmHeadSpecs(op)
    [] op.type = "o_proj_residual" -> OProjSpecs(op)
    [] op.type = "o_proj_residual_half_tmem" -> HalfTmemSpecs(op)
    [] op.type = "qkv_rope_append" -> QkvSpecs(op)
    [] op.type = "attention_decode" -> DecodeSpecs(op)
    [] op.type = "rms" -> RmsSpecs(op)
    [] op.type = "mat_vec_adds" -> MatVecSpecs(op)
    [] op.type = "attention_partial" -> PartialSpecs(op)
    [] op.type = "attention_partial_multi" -> MultiSpecs(op)
    [] op.type = "attention_reduction" -> ReductionSpecs(op)
    [] op.type = "rms_qkv_rope_append" -> AppendSpecs(op)
    [] op.type = "rms_upgate_silu" -> UpgateSpecs(op)
    [] op.type = "rms_lm_head" -> LogitsSpecs(op)

Num(op) ==
  CASE op.type = "copy" -> CopyNum(op)
    [] op.type = "elementwise_unary" -> UnaryNum(op)
    [] op.type = "elementwise_binary" -> BinaryNum(op)
    [] op.type = "rmsnorm" -> RmsnormNum(op)
    [] op.type = "reduce" -> ReduceNum(op)
    [] op.type = "gemm" -> GemmNum(op)
    [] op.type = "attention" -> AttentionNum(op)
    [] op.type = "pos_id_increment" -> IncrementNum(op)
    [] op.type = "gate_silu" -> GateNum(op)
    [] op.type = "up_matmul" -> UpNum(op)
    [] op.type = "lm_head" -> LmHeadNum(op)
    [] op.type = "o_proj_residual" -> OProjNum(op)
    [] op.type = "o_proj_residual_half_tmem" -> HalfTmemNum(op)
    [] op.type = "qkv_rope_append" -> QkvNum(op)
    [] op.type = "attention_decode" -> DecodeNum(op)
    [] op.type = "rms" -> RmsNum(op)
    [] op.type = "mat_vec_adds" -> MatVecNum(op)
    [] op.type = "attention_partial" -> PartialNum(op)
    [] op.type = "attention_partial_multi" -> MultiNum(op)
    [] op.type = "attention_reduction" -> ReductionNum(op)
    [] op.type = "rms_qkv_rope_append" -> AppendNum(op)
    [] op.type = "rms_upgate_silu" -> UpgateNum(op)
    [] op.type = "rms_lm_head" -> LogitsNum(op)

Blocks(op) ==
  CASE op.type = "copy" -> CopyBlocks(op)
    [] op.type = "elementwise_unary" -> UnaryBlocks(op)
    [] op.type = "elementwise_binary" -> BinaryBlocks(op)
    [] op.type = "rmsnorm" -> RmsnormBlocks(op)
    [] op.type = "reduce" -> ReduceBlocks(op)
    [] op.type = "gemm" -> GemmBlocks(op)
    [] op.type = "attention" -> AttentionBlocks(op)
    [] op.type = "pos_id_increment" -> IncrementBlocks(op)
    [] op.type = "gate_silu" -> GateBlocks(op)
    [] op.type = "up_matmul" -> UpBlocks(op)
    [] op.type = "lm_head" -> LmHeadBlocks(op)
    [] op.type = "o_proj_residual" -> OProjBlocks(op)
    [] op.type = "o_proj_residual_half_tmem" -> HalfTmemBlocks(op)
    [] op.type = "qkv_rope_append" -> QkvBlocks(op)
    [] op.type = "attention_decode" -> DecodeBlocks(op)
    [] op.type = "rms" -> RmsBlocks(op)
    [] op.type = "mat_vec_adds" -> MatVecBlocks(op)
    [] op.type = "attention_partial" -> PartialBlocks(op)
    [] op.type = "attention_partial_multi" -> MultiBlocks(op)
    [] op.type = "attention_reduction" -> ReductionBlocks(op)
    [] op.type = "rms_qkv_rope_append" -> AppendBlocks(op)
    [] op.type = "rms_upgate_silu" -> UpgateBlocks(op)
    [] op.type = "rms_lm_head" -> LogitsBlocks(op)

Regions(op, index) ==
  CASE op.type = "copy" -> CopyRegions(op, index)
    [] op.type = "elementwise_unary" -> UnaryRegions(op, index)
    [] op.type = "elementwise_binary" -> BinaryRegions(op, index)
    [] op.type = "rmsnorm" -> RmsnormRegions(op, index)
    [] op.type = "reduce" -> ReduceRegions(op, index)
    [] op.type = "gemm" -> GemmRegions(op, index)
    [] op.type = "attention" -> AttentionRegions(op, index)
    [] op.type = "pos_id_increment" -> IncrementRegions(op, index)
    [] op.type = "gate_silu" -> GateRegions(op, index)
    [] op.type = "up_matmul" -> UpRegions(op, index)
    [] op.type = "lm_head" -> LmHeadRegions(op, index)
    [] op.type = "o_proj_residual" -> OProjRegions(op, index)
    [] op.type = "o_proj_residual_half_tmem" -> HalfTmemRegions(op, index)
    [] op.type = "qkv_rope_append" -> QkvRegions(op, index)
    [] op.type = "attention_decode" -> DecodeRegions(op, index)
    [] op.type = "rms" -> RmsRegions(op, index)
    [] op.type = "mat_vec_adds" -> MatVecRegions(op, index)
    [] op.type = "attention_partial" -> PartialRegions(op, index)
    [] op.type = "attention_partial_multi" -> MultiRegions(op, index)
    [] op.type = "attention_reduction" -> ReductionRegions(op, index)
    [] op.type = "rms_qkv_rope_append" -> AppendRegions(op, index)
    [] op.type = "rms_upgate_silu" -> UpgateRegions(op, index)
    [] op.type = "rms_lm_head" -> LogitsRegions(op, index)

\* Mutant: the regions of one CTA of a pair.
RegionsOfPairs(op) ==
  LET blocks == Blocks(op) IN
  [i \in 1 .. CeilDiv(Len(blocks), 2) |-> Regions(op, blocks[2 * i - 1])]

RegionsOf(op) ==
  LET blocks == Blocks(op) IN [i \in DOMAIN blocks |-> Regions(op, blocks[i])]

Checks(op) ==
  CASE op.type = "copy" -> CopyOk(op)
    [] op.type = "elementwise_unary" -> UnaryOk(op)
    [] op.type = "elementwise_binary" -> BinaryOk(op)
    [] op.type = "rmsnorm" -> RmsnormOk(op)
    [] op.type = "reduce" -> ReduceOk(op)
    [] op.type = "gemm" -> GemmOk(op)
    [] op.type = "attention" -> AttentionOk(op)
    [] op.type = "gate_silu" -> GateOk(op)
    [] op.type = "up_matmul" -> UpOk(op)
    [] op.type = "lm_head" -> LmHeadOk(op)
    [] op.type = "o_proj_residual" -> OProjOk(op)
    [] op.type = "o_proj_residual_half_tmem" -> HalfTmemOk(op)
    [] op.type = "qkv_rope_append" -> QkvOk(op)
    [] op.type = "attention_decode" -> DecodeOk(op)
    [] op.type = "rms" -> RmsOk(op)
    [] op.type = "mat_vec_adds" -> MatVecOk(op)
    [] op.type = "rms_qkv_rope_append" -> AppendOk(op)
    [] op.type = "rms_upgate_silu" -> UpgateOk(op)
    [] op.type = "rms_lm_head" -> LogitsOk(op)
    [] OTHER -> TRUE

Inplace(op) ==
  CASE op.type = "pos_id_increment" -> IncrementInplace
    [] op.type = "o_proj_residual" -> OProjInplace
    [] op.type = "o_proj_residual_half_tmem" -> HalfTmemInplace
    [] op.type = "qkv_rope_append" -> QkvInplace
    [] op.type = "mat_vec_adds" -> MatVecInplace
    [] op.type = "rms_qkv_rope_append" -> AppendInplace
    [] OTHER -> {}

\* The resolvers of four types raise when the width has no tiling.
Built(op) ==
  CASE op.type = "gate_silu" -> GateBuilt(op)
    [] op.type = "up_matmul" -> UpBuilt(op)
    [] op.type = "o_proj_residual" -> OProjBuilt(op)
    [] op.type = "o_proj_residual_half_tmem" -> HalfTmemBuilt(op)
    [] OTHER -> TRUE

MakeOp(type, args, src) ==
  [type |-> type, args |-> args, src |-> src, dst |-> Outputs(type, args, src)]

\* validate of the base class: arity, dimensions, and sizes, starts and
\* extents that are multiples of the granularity.
Aligned(tensor, gran) ==
  /\ Len(gran) <= Len(tensor.shape) /\ Len(tensor.shape) <= NUM_DIMS
  /\ \A d \in DOMAIN gran :
       LET k == Len(gran) + 1 - d IN
       /\ Dim(tensor, k) % gran[d] = 0
       /\ Start(tensor, k) % gran[d] = 0 /\ Extent(tensor, k) % gran[d] = 0

SpecsMet(op) ==
  /\ Len(op.src) = Len(Specs(op).src) /\ Len(op.dst) = Len(Specs(op).dst)
  /\ \A t \in DOMAIN op.src : Aligned(op.src[t], Specs(op).src[t])
  /\ \A t \in DOMAIN op.dst : Aligned(op.dst[t], Specs(op).dst[t])

Valid(op) == SpecsMet(op) /\ Checks(op)

---------------------------------------------------------------------------
(***************************************************************************)
(* Step 2 of assign_barriers.  The boxes are cut into units, the greatest  *)
(* common divisor of the sizes in each dimension of the producer's boxes,  *)
(* or of the lengths of their linear intervals when a view lies between.   *)
(* Results are a sequence of sets of producers, or Unmatched, which names  *)
(* a producer there is none of.                                            *)
(***************************************************************************)
Unmatched == << {0} >>

Boxes(lists) == UNION {ToSet(lists[i]) : i \in DOMAIN lists}

\* Mutant: the units of the producer's boxes only.
UnitSizesProduced(produced, consumed, dims) ==
  [d \in 1 .. dims |-> Gcd({Size(box[d]) : box \in Boxes(produced)})]

UnitSizes(produced, consumed, dims) ==
  [d \in 1 .. dims |->
     Gcd({Size(box[d]) : box \in Boxes(produced) \cup Boxes(consumed)})]

InUnits(box, unit) ==
  Pad([d \in DOMAIN unit |-> <<box[d][1] \div unit[d], box[d][2] \div unit[d]>>])

MatchBoxes(produced, consumed) ==
  LET dims  == Len(produced[1][1])
      unit  == UnitSizes(produced, consumed, dims)
      made  == [p \in DOMAIN produced |-> {InUnits(b, unit) : b \in ToSet(produced[p])}]
      all   == UNION {made[p] : p \in DOMAIN made}
      used  == [c \in DOMAIN consumed |-> {InUnits(b, unit) : b \in ToSet(consumed[c])}]
  IN IF \/ produced = << >>
        \/ \E box \in Boxes(consumed) : Len(box) < dims
        \/ \E d \in 1 .. dims : unit[d] = 0
        \/ \E c \in DOMAIN used : \E b \in used[c] : ~Covered(b, all)
     THEN Unmatched
     ELSE [c \in DOMAIN consumed |->
             {p \in DOMAIN made : \E a \in made[p] : \E b \in used[c] : Overlap(a, b)}]

Intervals(boxes, shape) == UNION {LinearRanges(box, shape) : box \in ToSet(boxes)}

AllIntervals(lists, shape) == UNION {Intervals(lists[i], shape) : i \in DOMAIN lists}

Cells(intervals, unit) ==
  UNION {(interval[1] \div unit) .. (interval[2] \div unit) - 1 : interval \in intervals}

MatchLinear(produced, consumed, from, to) ==
  LET made == [p \in DOMAIN produced |-> Intervals(produced[p], from)]
      used == [c \in DOMAIN consumed |-> Intervals(consumed[c], to)]
      both == AllIntervals(produced, from) \cup AllIntervals(consumed, to)
      unit == Gcd({Size(interval) : interval \in both})
      madeCells == [p \in DOMAIN made |-> Cells(made[p], unit)]
      usedCells == [c \in DOMAIN used |-> Cells(used[c], unit)]
      all == UNION {madeCells[p] : p \in DOMAIN made}
  IN IF unit = 0 \/ \E c \in DOMAIN used : ~(usedCells[c] \subseteq all)
     THEN Unmatched
     ELSE [c \in DOMAIN consumed |->
             {p \in DOMAIN made : madeCells[p] \cap usedCells[c] # {}}]

---------------------------------------------------------------------------
(***************************************************************************)
(* The programs: ops on tensors of torch, with the parameters their        *)
(* constructors take; what an op works on in place is of one shape before  *)
(* and after.  Regions are boxes of every tensor the op is given.          *)
(***************************************************************************)
Interval == {x \in Nat \X Nat : x[1] <= x[2]}
BoxLists == Seq(Seq(Interval)) \ {<< >>}

Tensors ==
  [shape : Seq(Nat \ {0}),
   range : [1 .. NUM_DIMS -> {x \in Interval : x[1] < x[2]}]]

TYPES ==
  {"copy", "elementwise_unary", "elementwise_binary", "rmsnorm", "reduce", "gemm",
   "attention", "pos_id_increment", "gate_silu", "up_matmul", "lm_head",
   "o_proj_residual", "o_proj_residual_half_tmem", "qkv_rope_append",
   "attention_decode", "rms", "mat_vec_adds", "attention_partial",
   "attention_partial_multi", "attention_reduction", "rms_qkv_rope_append",
   "rms_upgate_silu", "rms_lm_head"}

IsOp(op) ==
  /\ op.type \in TYPES /\ op.src \in Seq(Tensors) /\ op.dst \in Seq(Tensors)
  /\ op.type = "copy" => op.args.from \in 1 .. 8 /\ op.args.to \in 1 .. 8
  /\ op.type \in {"elementwise_unary", "elementwise_binary"} => op.args.bytes \in 1 .. 8
  /\ \A pair \in Inplace(op) :
       pair[1] \in DOMAIN op.dst /\ pair[2] \in DOMAIN op.src =>
         op.dst[pair[1]].shape = op.src[pair[2]].shape

BoxesOf(op) ==
  {at \in [src : Seq(BoxLists), dst : Seq(BoxLists)] :
     Len(at.src) = Len(op.src) /\ Len(at.dst) = Len(op.dst)}

IsProgram(program) ==
  /\ DOMAIN program.ops \in {{1}, {1, 2}} /\ DOMAIN program.ops = 1 .. Len(program.ops)
  /\ \A n \in DOMAIN program.ops :
       LET op == program.ops[n] IN
       /\ IsOp(op)
       /\ Len(op.src) >= Len(Specs(op).src) => RegionsOf(op) \in Seq(BoxesOf(op))
  /\ program.edge # << >> =>
       /\ Len(program.ops) = 2
       /\ program.edge[1] \in DOMAIN program.ops[1].dst
       /\ program.edge[2] \in DOMAIN program.ops[2].src

ASSUME ProgramsAssumption ==
  SM_COUNT \in Nat \ {0} /\ \A program \in PROGRAMS : IsProgram(program)

---------------------------------------------------------------------------
Init ==
  \E program \in PROGRAMS :
    /\ ops = program.ops
    /\ edge = program.edge
    /\ entries = << >>
    /\ regions = << >>
    /\ sources = << >>
    /\ checked = 0
    /\ status = "listing"

\* Code that raises: the program is not compiled.
Raise ==
  /\ status' = "rejected"
  /\ UNCHANGED <<ops, edge, entries, regions, sources, checked>>

\* Step 1 of assign_barriers.  An operand torch passed twice is one edge, and
\* an op with fewer edges than operands fails here.
Listed == ops[Len(entries) + 1]

ListInstructions ==
  /\ status = "listing"
  /\ Len(Listed.src) >= Len(Specs(Listed).src)
  /\ entries' = Append(entries, Blocks(Listed))
  /\ regions' = Append(regions, RegionsOf(Listed))
  /\ status' = IF Len(entries) + 1 < Len(ops) THEN "listing"
               ELSE IF edge = << >> THEN "validating" ELSE "matching"
  /\ UNCHANGED <<ops, edge, sources, checked>>

MissOperand ==
  /\ status = "listing"
  /\ Len(Listed.src) < Len(Specs(Listed).src)
  /\ Raise

Produced == [p \in DOMAIN regions[1] |-> regions[1][p].dst[edge[1]]]
Consumed == [c \in DOMAIN regions[2] |-> regions[2][c].src[edge[2]]]
From == ops[1].dst[edge[1]].shape
To == ops[2].src[edge[2]].shape

Matched ==
  IF From = To THEN MatchBoxes(Produced, Consumed)
               ELSE MatchLinear(Produced, Consumed, From, To)

MatchEdge ==
  /\ status = "matching"
  /\ LET found == Matched IN
     IF found = Unmatched THEN Raise
     ELSE /\ sources' = found
          /\ status' = "validating"
          /\ UNCHANGED <<ops, edge, entries, regions, checked>>

\* build_instructions validates an op when it emits its first instruction:
\* an op without instructions is never looked at.
ValidateOp ==
  /\ status = "validating"
  /\ LET n == checked + 1 IN
     IF entries[n] = << >> \/ Valid(ops[n])
     THEN /\ checked' = n
          /\ status' = IF n = Len(ops) THEN "accepted" ELSE "validating"
          /\ UNCHANGED <<ops, edge, entries, regions, sources>>
     ELSE Raise

Next == ListInstructions \/ MissOperand \/ MatchEdge \/ ValidateOp

Spec == Init /\ [][Next]_vars
---------------------------------------------------------------------------
(***************************************************************************)
(* Properties.  Of an accepted program unless one says otherwise.          *)
(***************************************************************************)

\* Entries, regions and dependencies are there as far as the status says, for
\* every op and instruction.
TypeOK ==
  /\ status \in {"listing", "matching", "validating", "accepted", "rejected"}
  /\ Len(regions) = Len(entries) /\ Len(entries) <= Len(ops)
  /\ \A n \in DOMAIN regions :
       /\ DOMAIN regions[n] = DOMAIN entries[n]
       /\ \A i \in DOMAIN regions[n] :
            /\ DOMAIN regions[n][i].src = DOMAIN ops[n].src
            /\ DOMAIN regions[n][i].dst = DOMAIN ops[n].dst
  /\ checked \in 0 .. Len(ops) /\ (checked > 0 => status # "listing")
  /\ sources # << >> =>
       /\ DOMAIN sources = DOMAIN entries[2]
       /\ \A c \in DOMAIN sources : sources[c] \subseteq DOMAIN entries[1]

\* Operands that are stacks of layers, of which an op is given one.
Layered(type) ==
  CASE type \in {"gate_silu", "up_matmul", "qkv_rope_append", "rms"} -> {2}
    [] type \in {"o_proj_residual", "o_proj_residual_half_tmem", "mat_vec_adds"} -> {3}
    [] type \in {"attention_decode", "attention_partial", "rms_qkv_rope_append"} -> {2, 3}
    [] type = "rms_upgate_silu" -> {2, 3, 4}
    [] OTHER -> {}

General == {"copy", "elementwise_unary", "elementwise_binary", "rmsnorm",
            "reduce", "gemm", "attention"}

\* What validate does not look at and the regions take for granted: operands
\* of the model-specific types are whole but for one common layer, a batch is
\* not broadcast in a gemm, rms has no batch, the result of rms_upgate_silu is
\* made of whole pieces.
Layer(tensor) == Of(tensor, Len(tensor.shape))

Plain(op) ==
  LET layers == {Layer(op.src[t]) : t \in Layered(op.type)} IN
  /\ Cardinality(layers) <= 1
  /\ op.type \notin General =>
       \A t \in DOMAIN op.src :
         LET x == op.src[t] IN
         \A k \in 1 .. Len(x.shape) :
           Covers(x, k) \/ (t \in Layered(op.type) /\ k = Len(x.shape))
  /\ op.type = "gemm" =>
       \A k \in {3, 4} : Extent(op.src[1], k) = Extent(op.src[2], k)
  /\ op.type = "rms" => Len(op.src[1].shape) = 2
  /\ op.type = "rms_upgate_silu" => Dim(op.dst[1], 1) % Dim(op.src[1], 1) = 0

\* Ops of the accepted program that have instructions and meet Plain.
Compiled == IF status = "accepted" THEN {n \in DOMAIN ops : entries[n] # << >>} ELSE {}
Planned == {n \in Compiled : Plain(ops[n])}

\* num_instructions is what block_indices lists: the scheduler sizes barriers
\* and counts by the one and emits instructions by the other
\* (scheduler.py:264, 400).
CountsAgree == \A n \in Compiled : Num(ops[n]) = Len(entries[n])

\* Every box is inside what the op sees of the tensor, with starts and ends on
\* the granularity validate asks of the tensor; the boxes of one tensor in one
\* instruction are disjoint (itype.py:tile_regions).
BoxesProper(boxes, tensor, gran) ==
  /\ \A i \in DOMAIN boxes :
       /\ Inside(boxes[i], tensor.range)
       /\ \A k \in DOMAIN gran :
            LET side == boxes[i][Len(boxes[i]) - Len(gran) + k] IN
            side[1] % gran[k] = 0 /\ side[2] % gran[k] = 0
  /\ \A i, j \in DOMAIN boxes : i # j => ~Overlap(boxes[i], boxes[j])

RegionsInside ==
  \A n \in Planned : \A i \in DOMAIN regions[n] :
    LET op == ops[n]  at == regions[n][i] IN
    /\ \A t \in DOMAIN at.src : BoxesProper(at.src[t], op.src[t], Specs(op).src[t])
    /\ \A t \in DOMAIN at.dst : BoxesProper(at.dst[t], op.dst[t], Specs(op).dst[t])

\* The instructions of an op, the two CTAs of a pair taken as one.
Distinct(n) ==
  {<<entries[n][i], regions[n][i]>> : i \in DOMAIN entries[n]}

\* What an op writes of a result: all of it, or a layer of a cache.
Written(op, t) ==
  LET whole == op.dst[t].range
      layer == IF op.type \in {"qkv_rope_append", "rms_qkv_rope_append"}
               THEN Layer(op.src[IF op.type = "qkv_rope_append" THEN 2 ELSE 3]) ELSE <<0, 1>>
      Pages == IF op.type = "qkv_rope_append" THEN Tile(layer[1], LayerPages(op)) ELSE One(layer[1])
  IN IF t > 1 /\ op.type \in {"qkv_rope_append", "rms_qkv_rope_append"}
     THEN <<Pages>> \o Tail(whole) ELSE whole

\* The regions of an op's instructions are together what the op writes of each
\* result, and no part of a result is two instructions' to write.  Exceptions
\* to the second: chunks of mat_vec_adds add up in the same rows, and
\* rms_upgate_silu and rms_qkv_rope_append name whole pieces and heads that
\* several instructions fill.
SharedResults == {"mat_vec_adds", "rms_upgate_silu", "rms_qkv_rope_append"}

Volume(box) == Numel([d \in DOMAIN box |-> Size(box[d])])

OutputsWritten ==
  \A n \in Planned : \A t \in DOMAIN ops[n].dst :
    LET op    == ops[n]
        parts == {<<d[1], d[2].dst[t]>> : d \in Distinct(n)}
        boxes == UNION {{Pad(b) : b \in ToSet(part[2])} : part \in parts}
        each  == MapThenSumSet(LAMBDA part :
                   FoldLeft(LAMBDA sum, b : sum + Volume(b), 0, part[2]), parts)
    IN op.type # "pos_id_increment" =>
         /\ Covered(Written(op, t), boxes)
         /\ op.type \notin SharedResults => each = Volume(Written(op, t))

\* An op that works in place runs its instructions in any order, with no
\* barrier between them: what one overwrites, another does not read.
InPlaceApart ==
  \A n \in Planned : \A pair \in Inplace(ops[n]) :
    ops[n].type # "mat_vec_adds" =>
      \A d, e \in Distinct(n) :
        d[1] # e[1] =>
          \A a \in ToSet(d[2].dst[pair[1]]) : \A b \in ToSet(e[2].src[pair[2]]) :
            ~Overlap(a, b)

\* An instruction waits for exactly the instructions that write a part of what
\* it reads (scheduler.py:201), when the two types describe the tensor in the
\* same dimensions and begin their boxes on multiples of the common unit.
OnUnits(intervals) ==
  LET unit == Gcd({Size(interval) : interval \in intervals}) IN
  unit > 0 /\ \A interval \in intervals : interval[1] % unit = 0

BoxesOnUnits(boxes) ==
  /\ \A a, b \in boxes : Len(a) = Len(b)
  /\ \A box \in boxes : \A d \in DOMAIN box : OnUnits({b[d] : b \in boxes})

Comparable ==
  IF From = To
  THEN BoxesOnUnits(Boxes(Produced) \cup Boxes(Consumed))
  ELSE OnUnits(AllIntervals(Produced, From) \cup AllIntervals(Consumed, To))

Lines(boxes, shape) == {<<interval>> : interval \in Intervals(boxes, shape)}

ShareElement(made, used) == \E a \in made : \E b \in used : Overlap(a, b)

Reads(c, p) ==
  IF From = To
  THEN ShareElement(ToSet(Produced[p]), ToSet(Consumed[c]))
  ELSE ShareElement(Lines(Produced[p], From), Lines(Consumed[c], To))

DependenciesExact ==
  status = "accepted" /\ sources # << >> /\ Comparable =>
    \A c \in DOMAIN sources : sources[c] = {p \in DOMAIN entries[1] : Reads(c, p)}
====
