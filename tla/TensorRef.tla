------------------------------ MODULE TensorRef ------------------------------
(***************************************************************************)
(* The golden model of the tensor core array (tb/uvm/tensor_ref.py): the   *)
(* product of a processing element in each mode, and the output-stationary *)
(* matrix product.                                                         *)
(***************************************************************************)
EXTENDS TitanIsa, TensorArith, SequencesExt

\* Mutant: the byte is taken as unsigned.
ZeroExtend8(v) == v % 256

SignExtend8(v) == IF v % 256 >= 128 THEN (v % 256) - 256 ELSE v % 256

\* One product of a processing element: FP16, FP8 or a pair of INT8.
pe_product(act, wgt, mode, fmt) ==
    CASE mode = 0 -> fp16_to_fp32(fp16_mul(FP16, act, wgt))
      [] mode = 1 -> fp8_mul_to_fp32(act % 256, wgt % 256, fmt)
      [] mode = 3 -> Word(SignExtend8(act) * SignExtend8(wgt)
                          + SignExtend8(act \div 256) * SignExtend8(wgt \div 256))

\* C[i][j] = fold over k of the products, A and B as functions of <<row, column>>.
wmma_golden(A, B, M, N, K, mode, fmt) ==
    [c \in (1..M) \X (1..N) |->
        LET Accumulate(acc, k) ==
                LET p == pe_product(A[<<c[1], k>>], B[<<k, c[2]>>], mode, fmt)
                IN  IF mode = 3 THEN Word(acc + p) ELSE fp32_add(acc, p)
        IN  FoldLeft(Accumulate, IF mode = 3 THEN 0 ELSE FP32_ZERO, [k \in 1..K |-> k])]
=============================================================================
