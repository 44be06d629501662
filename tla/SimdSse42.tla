----------------------------- MODULE SimdSse42 -----------------------------
(*****************************************************************************)
(* scl_ml_simd_sse42.c: vectors of 4 floats.                                 *)
(*****************************************************************************)
EXTENDS SimdScalar

sse42_dot(c) == Reduce(4, c, Lanes(4), Mul)
sse42_dot_f(c) == Reduce(4, c, Lanes(4), Mul)
sse42_norm_l2_sq(c) == Reduce(4, c, Lanes(4), Square)
sse42_norm_l2(c) == <<"sqrt", sse42_norm_l2_sq(c)>>
sse42_norm_l1(c) == Reduce(4, c, Lanes(4), Abs)
sse42_sum(c) == Reduce(4, c, Lanes(4), Element)

\* Two neighbours are combined, both copies of both results are added up,
\* and the third lane is considered once more.
Sse42Sum(v, better(_, _)) ==
  better(2 * better(v[0], v[1]) + 2 * better(v[2], v[3]), v[2])
sse42_max(c) ==
  IF c.n = 0 THEN -FltMax ELSE Finish(4, c, Sse42Sum(Tops(4, c, Bigger), Bigger), Bigger)
sse42_min(c) ==
  IF c.n = 0 THEN FltMax ELSE Finish(4, c, Sse42Sum(Tops(4, c, Smaller), Smaller), Smaller)
sse42_argmax(c) == ArgScan(4, c, Above)
sse42_argmin(c) == ArgScan(4, c, Below)
sse42_argminmax(c) == <<ArgScan(4, c, Below), ArgScan(4, c, Above)>>

sse42_add(c) == Each(4, c, Add, Add)
sse42_sub(c) == Each(4, c, Sub, Sub)
sse42_mul(c) == Each(4, c, Mul, Mul)
sse42_div(c) == Each(4, c, Div, Div)
sse42_abs(c) == Each(4, c, Abs, Abs)
sse42_fma(c) == Each(4, c, Fma, Fma)
sse42_add_s(c) == Each(4, c, AddS, AddS)
sse42_mul_s(c) == Each(4, c, MulS, MulS)
sse42_scale_add_s(c) == Each(4, c, ScaleAdd, ScaleAdd)

sse42_sigmoid(c) == Each(4, c, Sigmoid, Sigmoid)
sse42_tanh_fast(c) == Each(4, c, Tanh, Tanh)
sse42_gelu(c) == Each(4, c, Gelu, Gelu)
sse42_relu(c) == Each(4, c, Relu, Relu)
sse42_relu6(c) == Each(4, c, Relu6, Relu6)
sse42_leaky_relu(c) == Each(4, c, Leaky, Leaky)
sse42_elu(c) == Each(4, c, Elu, Elu)

sse42_fast_exp(x) == FusedExp(x, CvtX86)
sse42_softmax(c) == Shares(Exps(4, c, GuardedMax(4, c), sse42_fast_exp))
sse42_log_softmax(c) ==
  LET max == GuardedMax(4, c)
  IN LogShares(c, max, Exps(4, c, max, sse42_fast_exp))

sse42_vexp(c) == Each(4, c, ExpX86, Exp)
sse42_vlog(c) == Each(4, c, Log, Log)
sse42_vsqrt(c) == Each(4, c, Sqrt, Sqrt)
sse42_vrsqrt(c) == Each(4, c, RawRsqrt, Rsqrt)
sse42_vinv(c) == Each(4, c, RawInv, Inv)

sse42_dist_l2_sq(c) == Reduce(4, c, Lanes(4), SquareDiff)
sse42_dist_l1(c) == Reduce(4, c, Lanes(4), AbsDiff)
sse42_dist_cos(c) ==
  Cosine(Reduce(4, c, Lanes(4), Mul), Reduce(4, c, Lanes(4), Square),
         Reduce(4, c, Lanes(4), SquareB))
sse42_dist_cheb(c) ==
  LET diff(i) == AbsDiff(c, i)
      top == [l \in Lanes(4) |->
                FoldSet(LAMBDA h, v : Bigger(v, diff(h + l)), 0, Heads(0, 4, c.n))]
  IN FoldSet(LAMBDA i, u : Bigger(u, diff(i)), Sse42Sum(top, Bigger), Upto(Rest(0, 4, c.n), c.n))
sse42_dist_matrix_l2_sq(c) == Pairwise(c, sse42_dist_l2_sq)
sse42_dist_matrix_cos(c) == Pairwise(c, sse42_dist_cos)
sse42_dist_matrix_l1(c) == Pairwise(c, sse42_dist_l1)

sse42_gemv(c) == LET row(e) == Reduce2(4, e, Mul) IN Gemv(c, row)
sse42_gemv_t(c) == GemvT(4, c)
sse42_gemm(c) == Gemm(4, c)

sse42_threshold(c) == Each(4, c, Threshold, Threshold)
sse42_threshold_sign(c) == Each(4, c, Sign, Sign)
sse42_hamming(c) == Reduce(1, c, Lanes(1), Popcount)
sse42_topk_indices(c) == scalar_topk_indices(c)
sse42_clamp(c) == Each(4, c, Clamp, Clamp)

-----------------------------------------------------------------------------
override_sse42(t) ==
  [k \in Kernels |-> IF k \in {"axpy", "axpby", "silu", "dist_l2", "sigmoid_f", "tanh_f", "exp_f"}
                     THEN t[k] ELSE "sse42"]

sse42(k, c) ==
  CASE k = "dot" -> sse42_dot(c) [] k = "dot_f" -> sse42_dot_f(c)
    [] k = "norm_l2_sq" -> sse42_norm_l2_sq(c) [] k = "norm_l2" -> sse42_norm_l2(c)
    [] k = "norm_l1" -> sse42_norm_l1(c) [] k = "sum" -> sse42_sum(c)
    [] k = "max" -> sse42_max(c) [] k = "min" -> sse42_min(c)
    [] k = "argmax" -> sse42_argmax(c) [] k = "argmin" -> sse42_argmin(c)
    [] k = "argminmax" -> sse42_argminmax(c) [] k = "add" -> sse42_add(c)
    [] k = "sub" -> sse42_sub(c) [] k = "mul" -> sse42_mul(c) [] k = "div" -> sse42_div(c)
    [] k = "abs" -> sse42_abs(c) [] k = "fma" -> sse42_fma(c) [] k = "add_s" -> sse42_add_s(c)
    [] k = "mul_s" -> sse42_mul_s(c) [] k = "scale_add_s" -> sse42_scale_add_s(c)
    [] k = "sigmoid" -> sse42_sigmoid(c) [] k = "tanh_fast" -> sse42_tanh_fast(c)
    [] k = "gelu" -> sse42_gelu(c) [] k = "relu" -> sse42_relu(c)
    [] k = "relu6" -> sse42_relu6(c) [] k = "leaky_relu" -> sse42_leaky_relu(c)
    [] k = "elu" -> sse42_elu(c) [] k = "softmax" -> sse42_softmax(c)
    [] k = "log_softmax" -> sse42_log_softmax(c) [] k = "vexp" -> sse42_vexp(c)
    [] k = "vlog" -> sse42_vlog(c) [] k = "vsqrt" -> sse42_vsqrt(c)
    [] k = "vrsqrt" -> sse42_vrsqrt(c) [] k = "vinv" -> sse42_vinv(c)
    [] k = "dist_l2_sq" -> sse42_dist_l2_sq(c) [] k = "dist_l1" -> sse42_dist_l1(c)
    [] k = "dist_cos" -> sse42_dist_cos(c) [] k = "dist_cheb" -> sse42_dist_cheb(c)
    [] k = "dist_matrix_l2_sq" -> sse42_dist_matrix_l2_sq(c)
    [] k = "dist_matrix_cos" -> sse42_dist_matrix_cos(c)
    [] k = "dist_matrix_l1" -> sse42_dist_matrix_l1(c) [] k = "gemv" -> sse42_gemv(c)
    [] k = "gemv_t" -> sse42_gemv_t(c) [] k = "gemm" -> sse42_gemm(c)
    [] k = "threshold" -> sse42_threshold(c)
    [] k = "threshold_sign" -> sse42_threshold_sign(c) [] k = "hamming" -> sse42_hamming(c)
    [] k = "topk_indices" -> sse42_topk_indices(c) [] k = "clamp" -> sse42_clamp(c)
=============================================================================
