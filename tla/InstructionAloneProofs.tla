----------------------- MODULE InstructionAloneProofs -----------------------
(***************************************************************************)
(* The properties of InstructionAlone, for gemm and gate_silu with any     *)
(* even number of iterations: in all its states the instruction is as Good *)
(* says (MatmulProofs).                                                    *)
(***************************************************************************)
EXTENDS InstructionAlone, MatmulProofs

\* The instructions are gemms and gate_silus, or gemms only.
OnlyMatmuls ==
  \A i \in DOMAIN INSTRUCTIONS :
    \E n, k : Iterations(n) /\ Epilogue(k) /\ INSTRUCTIONS[i] = Matmuls(n, k)
OnlyGemms ==
  \A i \in DOMAIN INSTRUCTIONS :
    \E n : Iterations(n) /\ INSTRUCTIONS[i] = Matmuls(n, GEMM)

AloneInv ==
  /\ which \in DOMAIN INSTRUCTIONS
  /\ \A n, k : Iterations(n) /\ Epilogue(k) /\ inst = Matmuls(n, k) => Good(n, k, st)

LEMMA AloneInit ==
  ASSUME MatmulConfig, Init PROVE AloneInv
<1>1. which \in DOMAIN INSTRUCTIONS /\ st = Start(inst) BY DEF Init, inst
<1> QED BY <1>1, GoodStart DEF AloneInv

LEMMA AloneNext ==
  ASSUME MatmulConfig, AloneInv, [Next]_vars PROVE AloneInv'
<1>1. UNCHANGED vars => AloneInv' BY DEF vars, AloneInv, inst
<1>2. ASSUME Progress PROVE AloneInv'
  <2>1. which' = which /\ inst' = inst /\ Goes(inst, st, st') BY <1>2 DEF Progress, inst
  <2>2. ASSUME NEW n, NEW k, Iterations(n), Epilogue(k), inst = Matmuls(n, k)
        PROVE  Good(n, k, st')
    <3>1. Good(n, k, st) BY <2>2 DEF AloneInv
    <3>2. Goes(Matmuls(n, k), st, st') BY <2>1, <2>2
    <3> QED BY <2>2, <3>1, <3>2, GoodStep
  <2> QED BY <2>1, <2>2 DEF AloneInv
<1> QED BY <1>1, <1>2 DEF Next, Exit

LEMMA AloneInvariance ==
  ASSUME MatmulConfig PROVE Spec => []AloneInv
<1>1. Init => AloneInv BY AloneInit
<1>2. AloneInv /\ [Next]_vars => AloneInv' BY AloneNext
<1> QED BY <1>1, <1>2, PTL DEF Spec

\* gemm and gate_silu pass their seven pages on in one order in both CTAs, and
\* use each between page_wait and page_finish, the loads and multiplications in
\* flight included: for every even number of iterations.
THEOREM MatmulsDisciplined == MatmulConfig /\ OnlyMatmuls => (Spec => []Disciplined)
<1> SUFFICES ASSUME MatmulConfig, OnlyMatmuls PROVE Spec => []Disciplined OBVIOUS
<1>1. AloneInv => Disciplined
  <2> SUFFICES ASSUME AloneInv PROVE Disciplined OBVIOUS
  <2>1. PICK n, k : Iterations(n) /\ Epilogue(k) /\ inst = Matmuls(n, k)
    BY DEF AloneInv, OnlyMatmuls, inst
  <2>2. Good(n, k, st) BY <2>1 DEF AloneInv
  <2>3. InTurn(Matmuls(n, k), st) BY <2>1, <2>2, GoodIsInTurn
  <2>4. PassesPagesOn(Matmuls(n, k)) BY <2>1, MatmulsPassPagesOn
  <2> QED BY <2>1, <2>3, <2>4 DEF Disciplined
<1> QED BY <1>1, AloneInvariance, PTL

\* What they read in a page, or multiply, is what they loaded or stored there.
THEOREM MatmulsIntact == MatmulConfig /\ OnlyMatmuls => (Spec => []AloneIntact)
<1> SUFFICES ASSUME MatmulConfig, OnlyMatmuls PROVE Spec => []AloneIntact OBVIOUS
<1>1. AloneInv => AloneIntact
  <2> SUFFICES ASSUME AloneInv PROVE AloneIntact OBVIOUS
  <2>1. PICK n, k : Iterations(n) /\ Epilogue(k) /\ inst = Matmuls(n, k)
    BY DEF AloneInv, OnlyMatmuls, inst
  <2>2. Good(n, k, st) BY <2>1 DEF AloneInv
  <2>3. ReadsIntact(Matmuls(n, k), st) BY <2>1, <2>2, GoodIsInTurn
  <2> QED BY <2>1, <2>3 DEF AloneIntact
<1> QED BY <1>1, AloneInvariance, PTL

\* The consumers of a gemm read complete sums, before its CTA passes tensor
\* memory on.  (gate_silu finishes it when one of its two consumers is through.)
THEOREM GemmSumsComplete == MatmulConfig /\ OnlyGemms => (Spec => []TensorAlone)
<1> SUFFICES ASSUME MatmulConfig, OnlyGemms PROVE Spec => []TensorAlone OBVIOUS
<1>1. AloneInv => TensorAlone
  <2> SUFFICES ASSUME AloneInv PROVE TensorAlone OBVIOUS
  <2>1. PICK n : Iterations(n) /\ inst = Matmuls(n, GEMM)
    BY DEF AloneInv, OnlyGemms, inst
  <2>2. Epilogue(GEMM) BY DEF Epilogue
  <2>3. Good(n, GEMM, st) BY <2>1, <2>2 DEF AloneInv
  <2>4. SumsKept(Matmuls(n, GEMM), st) BY <2>1, <2>3, GemmKeepsSums
  <2> QED BY <2>1, <2>4 DEF TensorAlone, SumsKept
<1> QED BY <1>1, AloneInvariance, PTL
=============================================================================
