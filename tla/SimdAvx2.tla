----------------------------- MODULE SimdAvx2 -----------------------------
(*****************************************************************************)
(* scl_ml_simd_avx2.c: vectors of 8 floats. The two halves of a register     *)
(* are combined first; what is added up afterwards are the 8 lanes of the    *)
(* combination, which holds every pair twice.                                *)
(*****************************************************************************)
EXTENDS SimdScalar

avx2_dot(c) == Reduce(8, c, Lanes(8), Mul)
\* Of each half only the first two accumulators are added.
avx2_dot_f(c) == Reduce(8, c, {0, 1, 4, 5}, Mul)
avx2_norm_l2_sq(c) == avx2_dot([c EXCEPT !.b = c.a])
avx2_norm_l2(c) == <<"sqrt", avx2_norm_l2_sq(c)>>
avx2_norm_l1(c) == Reduce(8, c, Lanes(8), Abs)
avx2_sum(c) == Reduce(8, c, Lanes(8), Element)

Avx2Extreme(c, better(_, _)) ==
  LET v == Tops(8, c, better)
      pair(l) == 2 * better(v[l], v[l + 4])
  IN Finish(8, c, better(Total(0..3, pair), v[4]), better)
avx2_max(c) == IF c.n = 0 THEN -FltMax ELSE Avx2Extreme(c, Bigger)
avx2_min(c) == IF c.n = 0 THEN FltMax ELSE Avx2Extreme(c, Smaller)
avx2_argmax(c) == ArgScan(8, c, Above)
avx2_argmin(c) == ArgScan(8, c, Below)
avx2_argminmax(c) == <<ArgScan(8, c, Below), ArgScan(8, c, Above)>>

avx2_add(c) == Each(8, c, Add, Add)
avx2_sub(c) == Each(8, c, Sub, Sub)
avx2_mul(c) == Each(8, c, Mul, Mul)
avx2_div(c) == Each(8, c, Div, Div)
avx2_abs(c) == Each(8, c, Abs, Abs)
avx2_fma(c) == Each(8, c, Fma, Fma)
avx2_add_s(c) == Each(8, c, AddS, AddS)
avx2_mul_s(c) == Each(8, c, MulS, MulS)
avx2_scale_add_s(c) == Each(8, c, ScaleAdd, ScaleAdd)

avx2_sigmoid(c) == Each(8, c, Sigmoid, Sigmoid)
avx2_tanh_fast(c) == Each(8, c, Tanh, Tanh)
avx2_gelu(c) == Each(8, c, Gelu, Gelu)
avx2_silu(c) == Each(8, c, SiluX86, Silu)
avx2_relu(c) == Each(8, c, Relu, Relu)
avx2_relu6(c) == Each(8, c, Relu6, Relu6)
avx2_leaky_relu(c) == Each(8, c, Leaky, Leaky)
avx2_elu(c) == Each(8, c, Elu, Elu)

avx2_fast_exp(x) == FusedExp(x, CvtX86)
avx2_softmax(c) == Shares(Exps(8, c, GuardedMax(8, c), avx2_fast_exp))
avx2_log_softmax(c) ==
  LET max == GuardedMax(8, c)
  IN LogShares(c, max, Exps(8, c, max, avx2_fast_exp))

avx2_vexp(c) == Each(8, c, ExpX86, Exp)
avx2_vlog(c) == Each(8, c, Log, Log)
avx2_vsqrt(c) == Each(8, c, Sqrt, Sqrt)
avx2_vrsqrt(c) == Each(8, c, RawRsqrt, Rsqrt)
avx2_vinv(c) == Each(8, c, RawInv, Inv)

avx2_dist_l2_sq(c) == Reduce(8, c, Lanes(8), SquareDiff)
avx2_dist_l1(c) == Reduce(8, c, Lanes(8), AbsDiff)
avx2_dist_cos(c) ==
  Cosine(Reduce(8, c, Lanes(8), Mul), Reduce(8, c, Lanes(8), Square),
         Reduce(8, c, Lanes(8), SquareB))
\* Each of the two maxima of four lanes is added four times.
avx2_dist_cheb(c) ==
  LET diff(i) == AbsDiff(c, i)
      top == [l \in Lanes(8) |->
                FoldSet(LAMBDA h, v : Bigger(v, diff(h + l)), 0, Heads(0, 8, c.n))]
      four(L) == 4 * Best({top[l] : l \in L}, Bigger)
  IN FoldSet(LAMBDA i, u : Bigger(u, diff(i)),
             four({0, 1, 4, 5}) + four({2, 3, 6, 7}), Upto(Rest(0, 8, c.n), c.n))
avx2_dist_matrix_l2_sq(c) == Pairwise(c, avx2_dist_l2_sq)
avx2_dist_matrix_cos(c) == Pairwise(c, avx2_dist_cos)
avx2_dist_matrix_l1(c) == Pairwise(c, avx2_dist_l1)

avx2_gemv(c) == LET row(e) == Reduce2(8, e, Mul) IN Gemv(c, row)
avx2_gemv_t(c) == GemvT(8, c)
avx2_gemm(c) == Gemm(8, c)

avx2_threshold(c) == Each(8, c, Threshold, Threshold)
avx2_threshold_sign(c) == Each(8, c, Sign, Sign)
avx2_hamming(c) == Reduce(2, c, Lanes(2), Popcount)
avx2_topk_indices(c) == scalar_topk_indices(c)
avx2_clamp(c) == Each(8, c, Clamp, Clamp)

-----------------------------------------------------------------------------
\* The slots that an AVX2 CPU takes over; two go back to the scalar code.
override_avx2(t) ==
  [k \in Kernels |-> CASE k \in {"axpy", "axpby"} -> "scalar"
                      [] k \in {"dist_l2", "sigmoid_f", "tanh_f", "exp_f"} -> t[k]
                      [] OTHER -> "avx2"]

avx2(k, c) ==
  CASE k = "dot" -> avx2_dot(c) [] k = "dot_f" -> avx2_dot_f(c)
    [] k = "norm_l2_sq" -> avx2_norm_l2_sq(c) [] k = "norm_l2" -> avx2_norm_l2(c)
    [] k = "norm_l1" -> avx2_norm_l1(c) [] k = "sum" -> avx2_sum(c)
    [] k = "max" -> avx2_max(c) [] k = "min" -> avx2_min(c) [] k = "argmax" -> avx2_argmax(c)
    [] k = "argmin" -> avx2_argmin(c) [] k = "argminmax" -> avx2_argminmax(c)
    [] k = "add" -> avx2_add(c) [] k = "sub" -> avx2_sub(c) [] k = "mul" -> avx2_mul(c)
    [] k = "div" -> avx2_div(c) [] k = "abs" -> avx2_abs(c) [] k = "fma" -> avx2_fma(c)
    [] k = "add_s" -> avx2_add_s(c) [] k = "mul_s" -> avx2_mul_s(c)
    [] k = "scale_add_s" -> avx2_scale_add_s(c) [] k = "sigmoid" -> avx2_sigmoid(c)
    [] k = "tanh_fast" -> avx2_tanh_fast(c) [] k = "gelu" -> avx2_gelu(c)
    [] k = "silu" -> avx2_silu(c) [] k = "relu" -> avx2_relu(c)
    [] k = "relu6" -> avx2_relu6(c) [] k = "leaky_relu" -> avx2_leaky_relu(c)
    [] k = "elu" -> avx2_elu(c) [] k = "softmax" -> avx2_softmax(c)
    [] k = "log_softmax" -> avx2_log_softmax(c) [] k = "vexp" -> avx2_vexp(c)
    [] k = "vlog" -> avx2_vlog(c) [] k = "vsqrt" -> avx2_vsqrt(c)
    [] k = "vrsqrt" -> avx2_vrsqrt(c) [] k = "vinv" -> avx2_vinv(c)
    [] k = "dist_l2_sq" -> avx2_dist_l2_sq(c) [] k = "dist_l1" -> avx2_dist_l1(c)
    [] k = "dist_cos" -> avx2_dist_cos(c) [] k = "dist_cheb" -> avx2_dist_cheb(c)
    [] k = "dist_matrix_l2_sq" -> avx2_dist_matrix_l2_sq(c)
    [] k = "dist_matrix_cos" -> avx2_dist_matrix_cos(c)
    [] k = "dist_matrix_l1" -> avx2_dist_matrix_l1(c) [] k = "gemv" -> avx2_gemv(c)
    [] k = "gemv_t" -> avx2_gemv_t(c) [] k = "gemm" -> avx2_gemm(c)
    [] k = "threshold" -> avx2_threshold(c) [] k = "threshold_sign" -> avx2_threshold_sign(c)
    [] k = "hamming" -> avx2_hamming(c) [] k = "topk_indices" -> avx2_topk_indices(c)
    [] k = "clamp" -> avx2_clamp(c)
=============================================================================
