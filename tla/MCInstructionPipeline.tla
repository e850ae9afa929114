----------------------- MODULE MCInstructionPipeline -----------------------
(***************************************************************************)
(* Instances of InstructionPipeline for TLC.  "Noop" and "Gemm" stand for  *)
(* the instruction types whose page release order is the identity, "Rms"   *)
(* for those that release their pages in another order.                    *)
(***************************************************************************)
EXTENDS InstructionPipeline, TLC

MCIcodes == {"Noop", "Gemm", "Rms"}

\* rms_pipeline.cuh and rmsnorm.cuh release page l + 1 first and page 0 last.
MCReleaseOrder ==
  [i \in MCIcodes |->
     [k \in LIDS |-> IF i = "Rms" THEN (k + 1) % NUM_PAGES ELSE k]]

\* An Rms, two others, then Rms again, every pair of rows the same type.
MCUniform ==
  [r \in ROWIDS |-> IF (r \div CLUSTER_SIZE) % 3 = 0 THEN "Rms" ELSE "Gemm"]

WarpSymmetry == Permutations(WORKERS)

====
