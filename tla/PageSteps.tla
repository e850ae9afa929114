----------------------------- MODULE PageSteps -----------------------------
(***************************************************************************)
(* The steps op kernels consist of, for PageHandover.  While a warp is at  *)
(* a step it may touch the regions in `holds`; it leaves the step when all *)
(* of the step's waits are over, and then at once does the rest:           *)
(*                                                                         *)
(*   pages, tensor, waits   page_wait, tensor_wait, wait on semaphores     *)
(*   puts                   the regions it has written                     *)
(*   finishes, tensorFinish page_finish, tensor_finish                     *)
(*   signals                arrive and expect_bytes                        *)
(*   loads, mmas            what it starts asynchronously                  *)
(*                                                                         *)
(* A region is a part of a page: 0 and 1 are its halves, further parts     *)
(* small areas of it that an op uses for scratch.  A tag says what an op   *)
(* put there.                                                              *)
(***************************************************************************)
EXTENDS Integers, Sequences, FiniteSets

Step ==
  [holds |-> {}, tensorHolds |-> {}, pages |-> {}, tensor |-> FALSE,
   waits |-> {}, puts |-> {}, finishes |-> {},
   tensorFinish |-> FALSE, signals |-> {}, loads |-> {}, mmas |-> << >>]

Part(lid, part) == {<<lid, part>>}
Page(lid) == {<<lid, 0>>, <<lid, 1>>}

\* Regions with what is in them.
Tagged(regions, tag) == {[lid |-> r[1], part |-> r[2], tag |-> tag] : r \in regions}
TensorTagged(part, tag) == {[part |-> part, tag |-> tag]}

Wait(name, i, parity) == [sem |-> <<name, i>>, parity |-> parity]
Arrival(c, name, i) == [cta |-> c, sem |-> <<name, i>>, arrivals |-> 1, bytes |-> 0]

\* expect_bytes arrives, and a load counts down what it was told to expect.
Expect(c, name, i, bytes) ==
  [cta |-> c, sem |-> <<name, i>>, arrivals |-> 1, bytes |-> bytes]
LoadTo(regions, tag, c, name, i) ==
  [regions |-> regions, tag |-> tag, cta |-> c, sem |-> <<name, i>>, bytes |-> 1]

\* The semaphores of an op: [i -> count] under each name.
Counts(name, indices, count) == [sem \in {name} \X indices |-> count]

\* The launcher of an op without tensor memory.
PassTensor == <<[Step EXCEPT !.tensor = TRUE, !.tensorFinish = TRUE]>>

Nothing == << >>

====
