----------------------------- MODULE FxCompile -----------------------------
(***************************************************************************)
(* backend.py up to the validated DAG: fx_parser.py reads the FX graph node *)
(* by node, dag_optimizer.py folds away everything that only names a part  *)
(* or another shape of a tensor, schema/dag.py validates what is left.     *)
(*                                                                         *)
(* What PyTorch means by an FX node is in its `values`: a strided view of  *)
(* the storage that a placeholder or a call owns.  The code never sees     *)
(* more of it than the shape and whether it is contiguous.                 *)
(***************************************************************************)
EXTENDS TensorRanges, FiniteSets, Functions

\* What functions are made of.  Each of the MENUS is a record of
\*   inputs:  the shapes of example_inputs,
\*   calls:   the call targets, among DOMAIN Arity,
\*   selects: pairs <<dim, index>> of aten.select,
\*   slices:  triples <<dim, start, end>> of aten.slice,
\*   perms:   dims of aten.permute,
\*   shapes:  target shapes of aten.view,
\*   window:  bound, a node reads one of the last `window` nodes,
\*   ops:     bound, FX nodes between the placeholders and the output node.
CONSTANT MENUS

VARIABLES
  menu,     \* what the function at hand is made of
  fx,       \* the FX nodes read: [args, values], one value per aten output
  node,     \* the DAG's Node objects, in the order they were made
  order,    \* dag.nodes, as indices of `node`
  of,       \* fx_name_to_node: the Node of each FX node
  phase     \* the pass to come, or "accepted", "rejected"

vars == <<menu, fx, node, order, of, phase>>

---------------------------------------------------------------------------
(* PyTorch: tensors as views of storages, and the results of its ops.      *)

Tensor(root, shape) ==
  [root |-> root, shape |-> shape, strides |-> Strides(shape), offset |-> 0]

NoTensor == [root |-> "none"]

IsContiguous(v) ==
  \A d \in DOMAIN v.shape :
    v.shape[d] = 1 \/ v.strides[d] = Strides(v.shape)[d]

Index(dim, rank) == IF dim < 0 THEN dim + rank + 1 ELSE dim + 1

TorchSelect(v, dim, index) ==
  LET d == Index(dim, Len(v.shape)) IN
  [v EXCEPT !.shape = RemoveAt(@, d), !.strides = RemoveAt(@, d),
            !.offset = @ + v.strides[d] *
                         (IF index < 0 THEN index + v.shape[d] ELSE index)]

TorchSlice(v, dim, start, end) ==
  LET d == Index(dim, Len(v.shape))
      Bound(x, default) ==
        Clamp(IF x = None THEN default
              ELSE IF x < 0 THEN x + v.shape[d] ELSE x, 0, v.shape[d])
  IN [v EXCEPT !.shape[d] = Bound(end, @) - Bound(start, 0),
               !.offset = @ + v.strides[d] * Bound(start, 0)]

TorchPermute(v, dims) ==
  LET Permuted(s) == [d \in DOMAIN dims |-> s[Index(dims[d], Len(s))]] IN
  [v EXCEPT !.shape = Permuted(@), !.strides = Permuted(@)]

TorchView(v, shape) == [v EXCEPT !.shape = shape, !.strides = Strides(shape)]

Arity == [relu |-> 1, add |-> 2, matmul |-> 2, rms_norm |-> 1, pair |-> 1,
          increment |-> 1, append |-> 2, sum |-> 1, sum_keepdim |-> 1]

\* Calls of an op that mutates an argument reach the parser as
\* auto_functionalized_v2, with a copy of that argument among the results.
Functionalized == {"increment", "append"}

\* The shapes of the results of a call; << >> where there is no tensor.
Applicable(call, shapes) ==
  CASE call = "matmul" -> /\ Len(shapes[1]) = Len(shapes[2])
                          /\ Len(shapes[1]) >= 2
                          /\ Front(Front(shapes[1])) = Front(Front(shapes[2]))
                          /\ Last(shapes[1]) = Last(Front(shapes[2]))
    [] call = "add" -> shapes[1] = shapes[2]
    [] OTHER -> TRUE

ResultShapes(call, shapes) ==
  LET x == shapes[1] IN
  CASE call = "matmul" -> <<Append(Front(x), Last(shapes[2]))>>
    [] call = "rms_norm" -> <<x, Front(x) \o <<1>>>>
    [] call = "pair" -> <<x, x>>
    [] call = "increment" -> <<<< >>, x>>
    [] call = "append" -> <<x, shapes[2]>>
    [] call = "sum" -> <<Front(x)>>
    [] call = "sum_keepdim" -> <<Front(x) \o <<1>>>>
    [] OTHER -> <<x>>

---------------------------------------------------------------------------
(* The DAG.  An edge joins in_nodes, in_ranges and in_tensors, which always *)
(* have one length; out_ranges are the full ranges of out_tensors.          *)

Views == {"getitem", "select", "slice"}
Folded == Views \cup {"transpose", "view"}

Edge(n, slot, range, shape) ==
  [node |-> n, slot |-> slot, range |-> range, shape |-> shape]

\* An edge that reads all of what node n yields in a slot.
Whole(n, slot) ==
  LET shape == node[n].outs[slot] IN Edge(n, slot, FullRange(shape), shape)

\* `transposed` are the operands with Gemm's transpose_a and transpose_b,
\* `perm` the permutation of NUM_DIMS dimensions in a transpose's itype.
NewNode(itype, ins, outs) ==
  [itype |-> itype, ins |-> ins, outs |-> outs,
   users |-> [s \in DOMAIN outs |-> << >>],
   transposed |-> {}, perm |-> << >>, fx |-> Len(fx) + 1]

Init ==
  /\ menu \in MENUS
  /\ fx = << >> /\ node = << >> /\ order = << >> /\ of = << >>
  /\ phase = "parse"

Reject ==
  /\ phase' = "rejected"
  /\ UNCHANGED <<menu, node, order, of>>

\* One turn of the parsing loop: an FX node, and the Nodes it becomes.
Parsed(args, values, nodes) ==
  /\ fx' = Append(fx, [args |-> args, values |-> values])
  /\ node' = node \o nodes
  /\ order' = order \o [i \in DOMAIN nodes |-> Len(node) + i]
  /\ of' = Append(of, Len(node) + Len(nodes))
  /\ UNCHANGED <<menu, phase>>

ParsedOrRejected(args, values, accepted, nodes) ==
  IF accepted
  THEN Parsed(args, values, nodes)
  ELSE Reject /\ fx' = Append(fx, [args |-> args, values |-> values])

\* The FX nodes that are one tensor, and so may be an argument.
ReadsInputs == Len(fx) < Len(menu.inputs)
Tensors == {k \in DOMAIN fx : Len(fx[k].values) = 1}
Recent == {k \in Tensors : k > Len(fx) - menu.window}
Reads ==
  phase = "parse" /\ ~ReadsInputs /\ Len(fx) < Len(menu.inputs) + menu.ops

ParsePlaceholder ==
  /\ phase = "parse" /\ ReadsInputs
  /\ LET shape == menu.inputs[Len(fx) + 1]
         k     == Len(fx) + 1 IN
     Parsed(<< >>, <<Tensor(<<k, 1>>, shape)>>,
            <<NewNode("input", << >>, <<shape>>)>>)

\* extract_fx_node_outputs: the shapes of a node's results, or of those of
\* them that aten_output_indices names.  All must be contiguous tensors
\* of one dimension at least (a range has one to NUM_DIMS).
OutputsOk(values, picks) ==
  \A i \in (IF picks = << >> THEN DOMAIN values ELSE ToSet(picks)) :
    values[i] # NoTensor /\ values[i].shape # << >> /\ IsContiguous(values[i])

Outputs(values, picks) ==
  IF picks = << >> THEN [i \in DOMAIN values |-> values[i].shape]
  ELSE [i \in DOMAIN picks |-> values[picks[i]].shape]

\* aten_output_indices of the op's resolver: which result is which output.
Picks(call) ==
  CASE call = "rms_norm" -> <<1>> [] call = "increment" -> <<2>>
    [] call = "append" -> <<1, 2>> [] OTHER -> << >>

\* A node that names node k's output or part of it.
ParseView(k, itype, slot, range, v) ==
  ParsedOrRejected(<<k>>, <<v>>, range # NoRange /\ OutputsOk(<<v>>, << >>),
    <<NewNode(itype, <<Edge(of[k], slot, range, node[of[k]].outs[slot])>>,
              <<v.shape>>)>>)

\* parse_getitem_node: the output that yields the aten result, if any does.
ParseGetitem(k, i) ==
  LET picks  == Picks(node[of[k]].itype)
      slots  == IF picks = << >> THEN {i} \cap DOMAIN node[of[k]].outs
                ELSE {s \in DOMAIN picks : picks[s] = i}
      v      == fx[k].values[i]
  IN /\ v # NoTensor
     /\ IF slots = {} THEN ParsedOrRejected(<<k>>, <<v>>, FALSE, << >>)
        ELSE \E s \in slots :
               ParseView(k, "getitem", s,
                         FullRange(node[of[k]].outs[s]), v)

ParseSelect(k, dim, index) ==
  LET v == fx[k].values[1] IN
  /\ dim < Len(v.shape)
  /\ index \in -v.shape[Index(dim, Len(v.shape))]
                 .. v.shape[Index(dim, Len(v.shape))] - 1
  /\ ParseView(k, "select", 1,
       FromSlice(v.shape, "select", dim, index, index + 1),
       TorchSelect(v, dim, index))

ParseSlice(k, dim, start, end) ==
  LET v == fx[k].values[1] IN
  /\ dim < Len(v.shape)
  /\ ParseView(k, "slice", 1, FromSlice(v.shape, "slice", dim, start, end),
               TorchSlice(v, dim, start, end))

\* aten.permute, of any dims.  The Node gets its shape from them: nothing asks
\* for contiguity.  A negative dim counts from the end of the tensor in the
\* shape, but in `perm` from the dimension after the padding.
ParsePermute(k, dims) ==
  LET v   == fx[k].values[1]
      pad == NUM_DIMS - Len(dims)
      n   == NewNode("transpose", <<Whole(of[k], 1)>>,
                     <<TorchPermute(v, dims).shape>>) IN
  /\ Len(dims) = Len(v.shape)
  /\ Parsed(<<k>>, <<TorchPermute(v, dims)>>,
       <<[n EXCEPT !.perm = [d \in 1 .. NUM_DIMS |->
            IF d <= pad THEN d - 1 ELSE pad + dims[d - pad]]]>>)

\* aten.t, which PyTorch also accepts of a vector.
ParseTranspose(k) ==
  LET v == fx[k].values[1] IN
  CASE Len(v.shape) = 2 -> ParsePermute(k, <<1, 0>>)
    [] Len(v.shape) = 1 -> ParsedOrRejected(<<k>>, <<v>>, FALSE, << >>)
    [] OTHER -> FALSE

ParseReshape(k, shape) ==
  LET v == fx[k].values[1] IN
  /\ Numel(shape) = Numel(v.shape) /\ shape # v.shape /\ IsContiguous(v)
  /\ ParseView(k, "view", 1, FullRange(v.shape), TorchView(v, shape))

---------------------------------------------------------------------------
\* resolve_and_build_call_node: FX lists the nodes among a call's arguments
\* without repetition, the auto_functionalized handler with.
Sources(call, args) ==
  IF call \in Functionalized THEN args
  ELSE FoldLeft(LAMBDA s, k : IF Contains(s, k) THEN s ELSE Append(s, k),
                << >>, args)

CallNode(call, args, outs) ==
  LET sources == Sources(call, args) IN
  NewNode(call, [e \in DOMAIN sources |-> Whole(of[sources[e]], 1)], outs)

Results(call, args) ==
  LET shapes == ResultShapes(call, [i \in DOMAIN args |->
                                      fx[args[i]].values[1].shape])
  IN [i \in DOMAIN shapes |->
        IF call = "increment" /\ i = 1 THEN NoTensor
        ELSE Tensor(<<Len(fx) + 1, i>>, shapes[i])]

ParseCall(call, args) ==
  LET values == Results(call, args) IN
  /\ call # "sum_keepdim"
  /\ Len(args) = Arity[call]
  /\ Applicable(call, [i \in DOMAIN args |-> fx[args[i]].values[1].shape])
  /\ ParsedOrRejected(args, values, OutputsOk(values, Picks(call)),
       <<CallNode(call, args, Outputs(values, Picks(call)))>>)

\* parse_reduce_node: with keepdim, a reduction without and a view.
ParseReduceKeepdim(k) ==
  LET values  == Results("sum_keepdim", <<k>>)
      reduced == Front(fx[k].values[1].shape)
      view    == Edge(Len(node) + 1, 1, FullRange(reduced), reduced) IN
  /\ "sum_keepdim" \in menu.calls
  /\ ParsedOrRejected(<<k>>, values, reduced # << >>,
       <<CallNode("sum", <<k>>, <<reduced>>),
         NewNode("view", <<view>>, <<values[1].shape>>)>>)

ParseOutput(args) ==
  /\ phase = "parse" /\ ~ReadsInputs
  /\ fx' = Append(fx, [args |-> args, values |-> << >>])
  /\ node' = Append(node, NewNode("output",
                [e \in DOMAIN args |-> Whole(of[args[e]], 1)], << >>))
  /\ order' = Append(order, Len(node) + 1)
  /\ of' = Append(of, Len(node) + 1)
  /\ phase' = "link"
  /\ UNCHANGED menu

---------------------------------------------------------------------------
(* A graph is [order, node]; the passes are functions on graphs.           *)

AddUsers(g, edge, users) ==
  [g EXCEPT !.node[edge.node].users[edge.slot] = @ \o users]

LinkEdges(g, n) ==
  FoldLeft(LAMBDA h, edge : AddUsers(h, edge, <<n>>), g, g.node[n].ins)

Linked(g) == FoldLeft(LinkEdges, g, g.order)

\* Mutant: nodes go, their entries as users stay.
KeepUsers(g, kept) ==
  [order |-> SelectSeq(g.order, LAMBDA n : n \in kept), node |-> g.node]

\* Take nodes off the graph, and out of the users of those that stay.
Keep(g, kept) ==
  LET Kept(s) == SelectSeq(s, LAMBDA n : n \in kept) IN
  [order |-> Kept(g.order),
   node |-> [n \in DOMAIN g.node |->
               IF n \in kept
               THEN [g.node[n] EXCEPT !.users = [s \in DOMAIN @ |-> Kept(@[s])]]
               ELSE g.node[n]]]

SourcesOf(g, n) == {edge.node : edge \in ToSet(g.node[n].ins)}

\* Mutant: everything is alive.
AliveAll(g) == ToSet(g.order)

\* prune_dead_nodes: what the output node does not depend on goes.
Alive(g) ==
  FoldRight(LAMBDA n, alive :
              IF n \in alive THEN alive \cup SourcesOf(g, n) ELSE alive,
            g.order, {n \in ToSet(g.order) : g.node[n].itype = "output"})

Pruned(g) == Keep(g, Alive(g))

\* What a reader's edge to the folded node n becomes.
\* Where the last i with perm[i] = j puts j; an index from the end wraps.
Unpermute(range, perm) ==
  LET Places(j) == {i \in DOMAIN perm : perm[i] % NUM_DIMS = j - 1} IN
  [j \in DOMAIN range |->
     range[IF Places(j) = {} THEN 1 ELSE Max(Places(j))]]

ThroughRange(viewed, range) ==
  IF NoRange \in {viewed, range} THEN NoRange ELSE Compose(viewed, range)

Through(g, n, edge) ==
  LET view   == g.node[n]
      source == view.ins[1]
      shape  == g.node[source.node].outs[source.slot] IN
  CASE view.itype \in Views ->
         Edge(source.node, source.slot,
              ThroughRange(source.range, edge.range), shape)
    [] view.itype = "transpose" ->
         Edge(source.node, source.slot,
              ThroughRange(source.range,
                Unpermute(ThroughRange(FullRange(view.outs[1]), edge.range),
                          view.perm)),
              shape)
    [] view.itype = "view" ->
         Edge(source.node, source.slot, edge.range, view.outs[1])

\* The first place where two sequences differ, as far as both go; else 0.
Differ(s, t) == SelectInSeq(Zip(s, t), LAMBDA both : both[1] # both[2])

\* Whether a == b for two of the Nodes: pydantic compares them field by field in
\* the order of schema/dag.py, `id` last, so that the first two distinct Nodes
\* it meets on the way decide.  It is those two it goes on with, if any.
ThenCompared(g, pair) ==
  LET a == g.node[pair[1]]
      b == g.node[pair[2]]
      Ends(n)  == [e \in DOMAIN n.ins |-> <<n.ins[e].node, n.ins[e].slot>>]
      Kinds(n) == <<n.itype, n.perm, n.transposed>>
      edge     == Differ(Ends(a), Ends(b))
      slot     == Differ(a.users, b.users)
      reader   == Differ(a.users[slot], b.users[slot])
      distinct == IF edge # 0
                  THEN {<<a.ins[edge].node, b.ins[edge].node>>}
                  ELSE IF /\ a.ins = b.ins /\ a.outs = b.outs /\ slot # 0
                          /\ Len(a.users[slot]) = Len(b.users[slot])
                  THEN {<<a.users[slot][reader], b.users[slot][reader]>>}
                  ELSE {}
  IN {next \in distinct : Kinds(a) = Kinds(b) /\ next[1] # next[2]}

\* A comparison that comes back to a pair it is still comparing is endless:
\* Python gives up with a RecursionError.
Endless(g, pair) ==
  LET After[i \in Nat] ==
        IF i = 0 THEN {pair}
        ELSE UNION {ThenCompared(g, met) : met \in After[i - 1]}
  IN After[Len(g.node) * Len(g.node)] # {}

\* `consumer not in source.out_nodes` compares consumer c, which is in the list
\* where it is identical, with all before it.
LookupFails(g, users, c) ==
  \E i \in DOMAIN users :
    /\ c \notin ToSet(SubSeq(users, 1, i))
    /\ Endless(g, <<users[i], c>>)

\* Let reader c of the folded node n read n's source instead.  A transpose
\* sets a flag in the reader's itype, and registers it with the source once
\* only; an exception leaves NoRange.
Redirect(g, n, c) ==
  LET source    == g.node[n].ins[1]
      users     == g.node[source.node].users[source.slot]
      hits      == {e \in DOMAIN g.node[c].ins : g.node[c].ins[e].node = n}
      transpose == g.node[n].itype = "transpose"
      flagged   == [g EXCEPT !.node[c].transposed =
                      @ \cup IF transpose THEN hits ELSE {}]
      fails     == transpose /\ LookupFails(flagged, users, c)
      register  == IF ~transpose THEN [i \in 1 .. Cardinality(hits) |-> c]
                   ELSE IF Contains(users, c) THEN << >> ELSE <<c>>
      Rewrite(edge) == IF fails THEN [edge EXCEPT !.range = NoRange]
                       ELSE Through(g, n, edge)
  IN AddUsers([flagged EXCEPT !.node[c].ins =
                 [e \in DOMAIN @ |-> IF e \in hits THEN Rewrite(@[e])
                                     ELSE @[e]]],
              source, register)

Merge(g, n) ==
  FoldLeft(LAMBDA h, c : Redirect(h, n, c), g, g.node[n].users[1])

Merged(g, itypes) ==
  FoldLeft(LAMBDA h, n : IF h.node[n].itype \in itypes THEN Merge(h, n) ELSE h,
           g, g.order)

Without(g, itypes) ==
  Keep(g, {n \in ToSet(g.order) : g.node[n].itype \notin itypes})

Edges(g) == UNION {ToSet(g.node[n].ins) : n \in ToSet(g.order)}

OutputEdges(g) ==
  UNION {ToSet(g.node[n].ins) : n \in {x \in ToSet(g.order) :
                                         g.node[x].itype = "output"}}

SourceShape(g, edge) == g.node[edge.node].outs[edge.slot]

Graph == [order |-> order, node |-> node]

---------------------------------------------------------------------------
\* A pass over the graph, and the errors that end the compilation.
Pass(from, to, g, ok) ==
  /\ phase = from
  /\ IF ok
     THEN /\ phase' = to
          /\ node' = g.node /\ order' = g.order
          /\ UNCHANGED <<menu, fx, of>>
     ELSE Reject /\ UNCHANGED fx

LinkOutputs == Pass("link", "prune", Linked(Graph), TRUE)

PruneDeadNodes == Pass("prune", "views", Pruned(Graph), TRUE)

\* merge_getitem_select_slice_ops; the output may not be part of a tensor.
MergeViews ==
  LET merged == Merged(Graph, Views)
      g      == Without(merged, Views) IN
  Pass("views", "transposes", g,
       /\ \A edge \in Edges(merged) : edge.range # NoRange
       /\ \A edge \in OutputEdges(g) : IsFull(edge.range, edge.shape))

\* merge_transpose_ops; only a matmul can read a transposed tensor.
MergeTransposes ==
  LET transposes == {n \in ToSet(order) : node[n].itype = "transpose"}
      merged     == Merged(Graph, {"transpose"}) IN
  /\ phase = "transposes"
  /\ IF \A n \in transposes : \A c \in ToSet(node[n].users[1]) :
          node[c].itype = "matmul"
     THEN Pass("transposes", "reshapes", Without(merged, {"transpose"}),
               \A edge \in Edges(merged) : edge.range # NoRange)
     ELSE Reject /\ UNCHANGED fx

\* merge_view_ops; an output must have all elements of its source.
MergeReshapes ==
  LET g == Without(Merged(Graph, {"view"}), {"view"}) IN
  Pass("reshapes", "validate", g,
       \A edge \in OutputEdges(g) : Numel(edge.shape) = Numel(SourceShape(g, edge)))

\* Mutant: shapes are not compared.
EdgeInRange(g, edge) ==
  \A d \in DOMAIN edge.shape :
    edge.range[NUM_DIMS - Len(edge.shape) + d][2] <= edge.shape[d]

\* DAG.validate and _validate_topological.
EdgeOk(g, edge) ==
  LET pad == NUM_DIMS - Len(edge.shape) IN
  /\ Numel(edge.shape) = Numel(SourceShape(g, edge))
  /\ \A d \in 1 .. pad : edge.range[d] = <<0, 1>>
  /\ \A d \in DOMAIN edge.shape : edge.range[pad + d][2] <= edge.shape[d]

Position(g, n) == SelectInSeq(g.order, LAMBDA m : m = n)

EdgesRegistered(g) ==
  \A n \in ToSet(g.order) :
    /\ \A edge \in ToSet(g.node[n].ins) :
         /\ Position(g, edge.node) \in 1 .. Position(g, n) - 1
         /\ Contains(g.node[edge.node].users[edge.slot], n)
    /\ \A s \in DOMAIN g.node[n].users :
         \A c \in ToSet(g.node[n].users[s]) :
           /\ Contains(g.order, c)
           /\ \E edge \in ToSet(g.node[c].ins) :
                edge.node = n /\ edge.slot = s

Validate ==
  Pass("validate", "schedule", Graph,
       /\ \A n \in ToSet(order) : node[n].itype \notin Folded
       /\ \A edge \in Edges(Graph) : EdgeOk(Graph, edge)
       /\ EdgesRegistered(Graph))

\* Gemm.validate: along the sum, operands are read in full; the rows and
\* columns of the result are those of the tensors the operands are parts of.
MatmulFits(n) ==
  LET Dim(e, d) == IF e \in n.transposed THEN 7 - d ELSE d
      Extent(e, d) == FullRange(n.ins[e].shape)[Dim(e, d)]
      result == FullRange(n.outs[1]) IN
  /\ n.ins[1].range[Dim(1, 4)] = Extent(1, 4)
  /\ n.ins[2].range[Dim(2, 3)] = Extent(1, 4)
  /\ Extent(1, 3) = result[3] /\ Extent(2, 4) = result[4]

\* IType.validate, which the scheduler calls for every type it lists: the
\* number of tensors an op gets; and Gemm's own conditions.
ValidateItypes ==
  Pass("schedule", "accepted", Graph,
       \A n \in ToSet(order) :
         /\ node[n].itype \in DOMAIN Arity =>
              Len(node[n].ins) = Arity[node[n].itype]
         /\ node[n].itype = "matmul" => MatmulFits(node[n]))

ParseNode ==
  \/ \E k \in Recent :
       \/ \E s \in menu.selects : ParseSelect(k, s[1], s[2])
       \/ \E s \in menu.slices : ParseSlice(k, s[1], s[2], s[3])
       \/ ParseTranspose(k)
       \/ \E dims \in menu.perms : ParsePermute(k, dims)
       \/ \E shape \in menu.shapes : ParseReshape(k, shape)
       \/ ParseReduceKeepdim(k)
       \/ \E call \in menu.calls :
            \/ ParseCall(call, <<k>>)
            \/ \E j \in Tensors : \E args \in {<<j, k>>, <<k, j>>} :
                 ParseCall(call, args)
  \/ \E k \in DOMAIN fx \ Tensors :
       \E i \in DOMAIN fx[k].values : ParseGetitem(k, i)

Finished == phase \in {"accepted", "rejected"} /\ UNCHANGED vars

Next ==
  \/ ParsePlaceholder
  \/ Reads /\ ParseNode
  \/ \E k \in Tensors :
       \/ ParseOutput(<<k>>)
       \/ \E j \in Recent : j > k /\ ParseOutput(<<j, k>>)
  \/ LinkOutputs \/ PruneDeadNodes
  \/ MergeViews \/ MergeTransposes \/ MergeReshapes
  \/ Validate \/ ValidateItypes
  \/ Finished

Spec == Init /\ [][Next]_vars

---------------------------------------------------------------------------
\* Nodes and edges as pydantic's validators demand: intervals inside the
\* tensor the edge is said to read, slots that exist.
TypeOK ==
  /\ phase \in {"parse", "link", "prune", "views", "transposes", "reshapes",
                "validate", "schedule", "accepted", "rejected"}
  /\ order \in Seq(DOMAIN node) /\ IsInjective(order)
  /\ of \in Seq(DOMAIN node)
  /\ \A n \in DOMAIN node : \A edge \in ToSet(node[n].ins) :
       /\ edge.node \in 1 .. n - 1 /\ edge.slot \in DOMAIN node[edge.node].outs
       /\ \A d \in 1 .. NUM_DIMS :
            /\ 0 <= edge.range[d][1] /\ edge.range[d][1] < edge.range[d][2]
            /\ edge.range[d][2] <= FullRange(edge.shape)[d][2]

\* What the passes rewrite on one side of an edge they rewrite on the other:
\* after each of them the graph's edges are registered with both their nodes
\* and go forward, so that the scheduler may read them in either direction.
EdgesAgree ==
  phase \notin {"parse", "link", "rejected"} => EdgesRegistered(Graph)

\* What an edge of an accepted graph reads: whose storage, in which shape,
\* which elements in which order.  A matmul reads a transposed operand with
\* its last two dimensions exchanged.
ReadRoot(edge) ==
  LET picks == Picks(node[edge.node].itype) IN
  <<node[edge.node].fx, IF picks = << >> THEN edge.slot ELSE picks[edge.slot]>>

Exchange(s, transposed) ==
  IF transposed THEN [s EXCEPT ![3] = s[4], ![4] = s[3]] ELSE s

ReadElements(edge, transposed) ==
  LET sizes   == Exchange(EffectiveShape(edge.range), transposed)
      strides == Exchange(Strides(EffectiveShape(FullRange(edge.shape))),
                          transposed) IN
  <<ReadRoot(edge), sizes, Walk(sizes, strides, Offset(edge.range, edge.shape))>>

MeantElements(v) ==
  <<v.root, EffectiveShape(FullRange(v.shape)),
    Walk(v.shape, v.strides, v.offset)>>

\* The FX nodes the function's result depends on.
Needed ==
  FoldRight(LAMBDA k, needed :
              IF k \in needed THEN needed \cup ToSet(fx[k].args) ELSE needed,
            [k \in DOMAIN fx |-> k], {Len(fx)})

\* What an FX node asks for: the first Node made of it (a reduction with
\* keepdim becomes two).  And the FX node a chain of parts is a part of.
Made(k) == node[CHOOSE n \in DOMAIN node :
                  node[n].fx = k /\ \A m \in 1 .. n - 1 : node[m].fx < k]

Op(k) == Made(k).itype

Whose[k \in DOMAIN fx] == IF Op(k) \in Views THEN Whose[fx[k].args[1]] ELSE k

\* merge_transpose_ops takes any permutation for the exchange of the last two
\* dimensions.
ExchangesLastTwo(k) ==
  [d \in 1 .. NUM_DIMS |-> Made(k).perm[d] % NUM_DIMS] = <<0, 1, 3, 2>>

Misfolded(a) == Op(Whose[a]) = "transpose" /\ ~ExchangesLastTwo(Whose[a])

\* An accepted graph computes what the FX graph does.  It has the calls and
\* inputs the result depends on, each of them and no others: nothing dead,
\* nothing lost with a view.  And every op, and the output node, reads
\* precisely the elements PyTorch would hand it, in their order, whatever
\* views were folded on the way, except for permutations misfolded.
OnlyNeeded ==
  {node[n].fx : n \in ToSet(order)}
    = {k \in Needed : \E n \in DOMAIN node :
                        node[n].fx = k /\ node[n].itype \notin Folded}

ReadsMeant(n) ==
  LET args == fx[node[n].fx].args IN
  /\ DOMAIN node[n].ins = DOMAIN args
  /\ \A e \in DOMAIN args : ~Misfolded(args[e]) =>
       ReadElements(node[n].ins[e], e \in node[n].transposed)
         = MeantElements(fx[args[e]].values[1])

SameMeaning ==
  phase = "accepted" =>
    /\ OnlyNeeded
    /\ \A n \in ToSet(order) : node[n].itype # "input" => ReadsMeant(n)

\* A strict part of the tensor of a call or a placeholder.
StrictPart(v) ==
  Numel(v.shape) < Numel(fx[v.root[1]].values[v.root[2]].shape)

\* A select that leaves tensor a takes a dimension out of its argument's
\* shape; the code aligns shapes at their last dimension.  Node k reads
\* beyond what then is in one place if it reads more than the first index of the
\* dimensions in front.
ReadsShifted(k, a) ==
  LET whole == fx[fx[a].args[1]].values[1].shape
      v     == fx[a].values[1]
      gone  == SelectInSeq([d \in DOMAIN whole |-> RemoveAt(whole, d)],
                           LAMBDA shape : shape = v.shape)
      read  == IF Op(k) \in Views THEN fx[k].values[1] ELSE v IN
  read.offset - v.offset + Numel(read.shape)
    > Numel(SubSeq(v.shape, gone, Len(v.shape)))

\* A matmul's operand whose matrix is a strict part of a tensor's.
PartOfMatrix(a) ==
  LET Stored[k \in DOMAIN fx] == IF Op(k) \in {"select", "slice", "transpose"}
                                 THEN Stored[fx[k].args[1]] ELSE k
      Matrix(k) == LET shape == fx[k].values[1].shape IN
                   Last(shape) * Last(Front(shape))
  IN Matrix(a) < Matrix(Stored[a])

\* What the passes cannot express: a transposed tensor that anything but a
\* matmul reads, another shape of a strict part of a tensor, a strict part as
\* a result, an op with the same tensor twice, a matmul of part of a matrix, and
\* what a select of a dimension behind larger ones leaves.
Unsupported(k) ==
  \/ /\ Op(k) \notin Views \cup {"matmul"}
     /\ \E a \in ToSet(fx[k].args) : Op(Whose[a]) = "transpose"
  \/ /\ Op(k) \in {"view", "output"}
     /\ \E a \in ToSet(fx[k].args) : StrictPart(fx[a].values[1])
  \/ /\ Op(k) \in DOMAIN Arity \ Functionalized
     /\ ~IsInjective(fx[k].args)
  \/ /\ Op(k) = "matmul"
     /\ \E a \in ToSet(fx[k].args) : PartOfMatrix(a)
  \/ \E a \in ToSet(fx[k].args) : Op(a) = "select" /\ ReadsShifted(k, a)

\* Two matmuls whose second operands are transposes: merge_transpose_ops may not
\* come to an end comparing them.
Twins(k, l) ==
  /\ \A n \in {k, l} : Op(n) = "matmul" /\ Op(Whose[fx[n].args[2]]) = "transpose"
  /\ fx[k].args[1] # fx[l].args[1]

\* A parsed function is rejected for one of these reasons, and only if the
\* result depends on them; and it always is for those that are Unsupported: no
\* graph the passes cannot express gets past validation, and views in any
\* other combination are folded.
RejectsUnsupported ==
  Len(of) = Len(fx) =>
    /\ phase = "accepted" => \A k \in Needed : ~Unsupported(k)
    /\ phase = "rejected" =>
         \E k \in Needed :
           \/ Unsupported(k)
           \/ Op(k) = "transpose" /\ ~ExchangesLastTwo(k)
           \/ \E l \in Needed : Twins(k, l)
====
