--------------------------- MODULE AccessRegions ---------------------------
(***************************************************************************)
(* What the instruction types of itypes/ share.  An op is a record of its  *)
(* type, its parameters (args), its operands (src) and its results (dst);  *)
(* an operand is a shape and the range of it the op sees.  A box is a      *)
(* sequence of intervals, with as many dimensions as the type gives it.    *)
(* The regions of an instruction are a sequence of boxes per tensor.       *)
(***************************************************************************)
EXTENDS TensorRanges, FiniteSetsExt

CONSTANT SM_COUNT   \* get_sm_count

\* Dispatcher.PAGE_SIZE and NUM_PAGES.
PAGE_BYTES == 32768
PAGES == 7

CeilDiv(a, b) == (a + b - 1) \div b

\* Python's round(a / b): a half goes to the even neighbour.
Round(a, b) ==
  LET down == a \div b
      left == 2 * (a % b)
  IN IF left > b \/ (left = b /\ down % 2 = 1) THEN down + 1 ELSE down

Gcd(numbers) ==
  LET gcd[p \in Nat \X Nat] == IF p[2] = 0 THEN p[1] ELSE gcd[<<p[2], p[1] % p[2]>>]
  IN FoldSet(LAMBDA a, b : gcd[<<a, b>>], 0, numbers)

\* Counted from the last: shape[-k] and range[-k].
Dim(tensor, k) == tensor.shape[Len(tensor.shape) + 1 - k]
Of(tensor, k) == tensor.range[NUM_DIMS + 1 - k]
Start(tensor, k) == Of(tensor, k)[1]
Stop(tensor, k) == Of(tensor, k)[2]
Extent(tensor, k) == Size(Of(tensor, k))
Effective(tensor) == EffectiveShape(tensor.range)
Covers(tensor, k) == Of(tensor, k) = <<0, Dim(tensor, k)>>

Buffer(shape) == [shape |-> shape, range |-> FullRange(shape)]

\* The shape torch sees: the tensor's dimensions, each as wide as its range.
Seen(tensor) ==
  SubSeq(Effective(tensor), NUM_DIMS - Len(tensor.shape) + 1, NUM_DIMS)

\* The values of nested loop counters, in the order of the loops.
Counters(bounds) ==
  LET strides == Strides(bounds) IN
  [i \in 1 .. Numel(bounds) |->
     [d \in DOMAIN bounds |-> ((i - 1) \div strides[d]) % bounds[d]]]

\* Every instruction is issued once for each CTA of the pair.
Twice(s) == FlattenSeq([i \in DOMAIN s |-> <<s[i], s[i]>>])

\* Steps i of n blocks divided among `parts`.
Share(i, n, parts) == Round(i * n, parts)

Tile(i, size) == <<i * size, (i + 1) * size>>
One(i) == <<i, i + 1>>
EmptyBox(dims) == [d \in 1 .. dims |-> <<0, 0>>]
AtLeastEmpty(boxes, dims) == IF boxes = << >> THEN <<EmptyBox(dims)>> ELSE boxes

---------------------------------------------------------------------------
(***************************************************************************)
(* Boxes.  Two boxes of different dimensions are compared from the back,   *)
(* as tensors are.                                                         *)
(***************************************************************************)
Meets(a, b) == \A d \in DOMAIN a : a[d][1] < b[d][2] /\ b[d][1] < a[d][2]
IsEmpty(box) == \E d \in DOMAIN box : Size(box[d]) = 0
Overlap(a, b) ==
  ~IsEmpty(a) /\ ~IsEmpty(b) /\ Meets(Pad(a), Pad(b))
Within4(box, range) ==
  \A d \in 1 .. NUM_DIMS : range[d][1] <= box[d][1] /\ box[d][2] <= range[d][2]
Inside(box, range) == IsEmpty(box) \/ Within4(Pad(box), range)

\* Is the box, of four dimensions, in the union of the boxes?  The least cell
\* that is not has every coordinate at the box's start or at another's end.
Covered(box, boxes) ==
  LET met == {b \in boxes : Overlap(b, box)}
      Cuts(d) == {box[d][1]} \cup {x \in {b[d][2] : b \in met} : x < box[d][2]}
      Has(b, cell) == \A d \in 1 .. NUM_DIMS : b[d][1] <= cell[d] /\ cell[d] < b[d][2]
  IN \/ IsEmpty(box)
     \/ \A cell \in Cuts(1) \X Cuts(2) \X Cuts(3) \X Cuts(4) :
          \E b \in met : Has(b, cell)

\* box_to_linear_range: the intervals of a box in row-major storage.  A shape
\* of fewer dimensions is filled in front; of more, only the first count.
LinearRanges(box, shape) ==
  LET dims    == Len(box)
      sizes   == SubSeq([d \in 1 .. dims - Len(shape) |-> 1] \o shape, 1, dims)
      strides == Strides(sizes)
      full    == Min({d \in 1 .. dims + 1 :
                        \A e \in d .. dims : box[e] = <<0, sizes[e]>>})
      merged  == full - 1
      outer   == [d \in 1 .. merged - 1 |-> Size(box[d])]
      first   == FoldLeftDomain(LAMBDA sum, d : sum + box[d][1] * strides[d], 0, outer)
      bases   == Walk(outer, strides, first)
  IN IF full = 1 THEN {<<0, Numel(sizes)>>}
     ELSE {<<base + box[merged][1] * strides[merged],
             base + box[merged][2] * strides[merged]>> : base \in ToSet(bases)}
====
