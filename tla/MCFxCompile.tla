---------------------------- MODULE MCFxCompile ----------------------------
(***************************************************************************)
(* Functions of one to three small tensors for FxCompile.                  *)
(***************************************************************************)
EXTENDS FxCompile

\* Everything there is, on a matrix and on a batch of two.
MCCalls == {"add", "matmul", "rms_norm", "pair", "increment", "append",
            "sum", "sum_keepdim"}
MCAny == [inputs |-> <<<<2, 2>>>>, calls |-> MCCalls,
          selects |-> {<<0, 1>>, <<0, -1>>, <<1, -2>>, <<1, 0>>, <<-1, 0>>},
          slices |-> {<<0, -1, 9>>, <<-1, None, 1>>},
          perms |-> {<<0, 1>>, <<-1, -2>>},
          shapes |-> {<<4>>, <<2, 2>>, <<4, 2>>}, window |-> 1, ops |-> 3]
MCBatch == [MCAny EXCEPT !.inputs = <<<<2, 2, 2>>>>,
                         !.perms = {<<0, 2, 1>>, <<1, 0, 2>>, <<2, 0, 1>>}]

\* A column: what a reduction leaves.
MCColumn == [MCAny EXCEPT !.inputs = <<<<2, 1>>>>,
                          !.calls = {"relu", "matmul", "sum_keepdim"}]

\* Permutations of four dimensions.
MCCube == [MCBatch EXCEPT !.inputs = <<<<2, 2, 2, 2>>>>, !.calls = {"matmul"},
                          !.shapes = {},
                          !.perms = {<<0, 1, 3, 2>>, <<0, 1, -1, -2>>,
                                     <<0, 2, 1, 3>>}]

\* Longer chains of views, and two layers with one transposed weight.
MCViews == [MCAny EXCEPT !.calls = {"matmul", "pair", "sum_keepdim"},
                         !.selects = {<<0, 1>>, <<1, 0>>}, !.perms = {<<0, 1>>},
                         !.ops = 4]
MCLayers == [MCAny EXCEPT !.inputs = <<<<2, 2>>, <<2, 2>>, <<2, 2>>>>,
                          !.calls = {"relu", "matmul"}, !.selects = {},
                          !.slices = {}, !.perms = {}, !.shapes = {},
                          !.window = 2]

MCMenus == {MCAny, MCBatch, MCColumn, MCCube, MCViews, MCLayers}
====
