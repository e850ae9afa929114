---------------------------- MODULE TensorRanges ----------------------------
(***************************************************************************)
(* schema/tensor.py: ranges of tensors.  A shape is a sequence of sizes, a *)
(* range a sequence of NUM_DIMS intervals <<start, stop>>, stop exclusive. *)
(* Strides other than 1 are never built: the parser refuses steps.         *)
(***************************************************************************)
EXTENDS Integers, Sequences, SequencesExt

NUM_DIMS == 4

\* Python's None for an absent bound of a slice, and what an exception leaves.
None == -1000
NoRange == << >>

\* TensorRange pads to NUM_DIMS dimensions in front.
Pad(ranges) == [d \in 1 .. NUM_DIMS - Len(ranges) |-> <<0, 1>>] \o ranges

FullRange(shape) == Pad([d \in DOMAIN shape |-> <<0, shape[d]>>])

Size(interval) == interval[2] - interval[1]

EffectiveShape(range) == [d \in DOMAIN range |-> Size(range[d])]

Numel(shape) == FoldLeft(LAMBDA n, size : n * size, 1, shape)

Shift(interval, by) == <<interval[1] + by, interval[2] + by>>

\* Mutants: the start of the outer range forgotten; bounds left as given.
ComposeRelative(first, second) ==
  IF \A d \in 1 .. NUM_DIMS : second[d][2] <= Size(first[d])
  THEN second ELSE NoRange

WithinAsGiven(x, size) == x

\* TensorRange.compose: `second` is relative to `first`.
Compose(first, second) ==
  LET composed == [d \in 1 .. NUM_DIMS |-> Shift(second[d], first[d][1])] IN
  IF \A d \in 1 .. NUM_DIMS : composed[d][2] <= first[d][2]
  THEN composed ELSE NoRange

\* from_slice_chain for the chains of one step the parser builds.  `end` and
\* `start` count from the end when negative, and are clamped to the size.
Clamp(x, low, high) == IF x < low THEN low ELSE IF x > high THEN high ELSE x

Within(x, size) == Clamp(x, 0, size)

FromSlice(shape, op, dim, start, end) ==
  LET d       == IF dim < 0 THEN dim + Len(shape) ELSE dim
      size    == shape[d + 1]
      Wrap(x) == IF x < 0 THEN x + size ELSE x
      first   == Wrap(IF start = None THEN 0 ELSE start)
      from    == Within(first, size)
      last    == Within(Wrap(IF end = None THEN size ELSE end), size)
  IN IF \/ d \notin 0 .. Len(shape) - 1
        \/ op = "select" /\ first \notin 0 .. size - 1
        \/ last <= from
     THEN NoRange
     ELSE [FullRange(shape) EXCEPT ![NUM_DIMS - Len(shape) + d + 1] =
             <<from, last>>]

IsFull(range, shape) == range = FullRange(shape)

---------------------------------------------------------------------------
\* Where the elements of a tensor lie in its storage: Strides of a contiguous
\* tensor, and the offsets of a strided box in row-major order.
Strides(shape) ==
  [d \in DOMAIN shape |-> Numel(SubSeq(shape, d + 1, Len(shape)))]

Walk(sizes, strides, offset) ==
  FoldLeftDomain(
    LAMBDA found, d :
      FlattenSeq([i \in DOMAIN found |->
                    [j \in 1 .. sizes[d] |-> found[i] + (j - 1) * strides[d]]]),
    <<offset>>, sizes)

\* The offset of the first element of a range.
Offset(range, shape) ==
  LET strides == Strides(EffectiveShape(FullRange(shape))) IN
  FoldLeftDomain(LAMBDA sum, d : sum + range[d][1] * strides[d], 0, range)
====
