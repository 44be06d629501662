----------------------------- MODULE SimdNeon -----------------------------
(*****************************************************************************)
(* scl_ml_simd_neon.c: vectors of 4 floats on ARM.                           *)
(*****************************************************************************)
EXTENDS SimdScalar

neon_dot(c) == Reduce(4, c, Lanes(4), Mul)
neon_dot_f(c) == Reduce(4, c, Lanes(4), Mul)
neon_norm_l2_sq(c) == neon_dot([c EXCEPT !.b = c.a])
neon_norm_l2(c) == <<"sqrt", neon_norm_l2_sq(c)>>
neon_norm_l1(c) == Reduce(4, c, Lanes(4), Abs)
neon_sum(c) == Reduce(4, c, Lanes(4), Element)

\* vmaxvq_f32, vminvq_f32
NeonBest(v, better(_, _)) == Best({v[l] : l \in Lanes(4)}, better)
neon_max(c) ==
  IF c.n = 0 THEN -FltMax ELSE Finish(4, c, NeonBest(Tops(4, c, Bigger), Bigger), Bigger)
neon_min(c) ==
  IF c.n = 0 THEN FltMax ELSE Finish(4, c, NeonBest(Tops(4, c, Smaller), Smaller), Smaller)
neon_argmax(c) == ArgScan(4, c, Above)
neon_argmin(c) == ArgScan(4, c, Below)
neon_argminmax(c) == <<ArgScan(4, c, Below), ArgScan(4, c, Above)>>

neon_add(c) == Each(4, c, Add, Add)
neon_sub(c) == Each(4, c, Sub, Sub)
neon_mul(c) == Each(4, c, Mul, Mul)
neon_div(c) == Each(4, c, Div, Div)
neon_abs(c) == Each(4, c, Abs, Abs)
neon_fma(c) == Each(4, c, Fma, Fma)
neon_add_s(c) == Each(4, c, AddS, AddS)
neon_mul_s(c) == Each(4, c, MulS, MulS)
neon_scale_add_s(c) == Each(4, c, ScaleAdd, ScaleAdd)

neon_sigmoid(c) == Each(4, c, Sigmoid, Sigmoid)
neon_tanh_fast(c) == Each(4, c, Tanh, Tanh)
neon_gelu(c) == Each(4, c, Gelu, Gelu)
neon_silu(c) == Each(4, c, SiluArm, Silu)
neon_relu(c) == Each(4, c, Relu, Relu)
neon_relu6(c) == Each(4, c, Relu6, Relu6)
neon_leaky_relu(c) == Each(4, c, Leaky, Leaky)
neon_elu(c) == Each(4, c, Elu, Elu)

neon_fast_exp(x) == FusedExp(x, CvtArm)
neon_softmax(c) == Shares(Exps(4, c, GuardedMax(4, c), neon_fast_exp))
neon_log_softmax(c) ==
  LET max == GuardedMax(4, c)
  IN LogShares(c, max, Exps(4, c, max, neon_fast_exp))

neon_vexp(c) == Each(4, c, ExpArm, Exp)
neon_vlog(c) == Each(4, c, Log, Log)
\* Newton's steps on the estimate of 1/sqrt(x), infinite at 0, multiply it by x.
NeonRsqrt(c, i) == IF c.a[i] > 0 THEN <<"rsqrt", c.a[i]>> ELSE <<"nan">>
NeonSqrt(c, i) ==
  IF c.a[i] > 0 THEN <<"sqrt", c.a[i]>> ELSE IF c.a[i] = 0 THEN <<"nan">> ELSE Num(0)
neon_vsqrt(c) == Each(4, c, NeonSqrt, Sqrt)
neon_vrsqrt(c) == Each(4, c, NeonRsqrt, Rsqrt)
neon_vinv(c) == Each(4, c, RawInv, Inv)

neon_dist_l2_sq(c) == Reduce(4, c, Lanes(4), SquareDiff)
neon_dist_l1(c) == Reduce(4, c, Lanes(4), AbsDiff)
neon_dist_cos(c) ==
  Cosine(Reduce(4, c, Lanes(4), Mul), Reduce(4, c, Lanes(4), Square),
         Reduce(4, c, Lanes(4), SquareB))
neon_dist_cheb(c) ==
  LET diff(i) == AbsDiff(c, i)
      top == [l \in Lanes(4) |->
                FoldSet(LAMBDA h, v : Bigger(v, diff(h + l)), 0, Heads(0, 4, c.n))]
  IN FoldSet(LAMBDA i, u : Bigger(u, diff(i)), NeonBest(top, Bigger), Upto(Rest(0, 4, c.n), c.n))
neon_dist_matrix_l2_sq(c) == Pairwise(c, neon_dist_l2_sq)
neon_dist_matrix_cos(c) == Pairwise(c, neon_dist_cos)
neon_dist_matrix_l1(c) == Pairwise(c, neon_dist_l1)

neon_gemv(c) == LET row(e) == Reduce2(4, e, Mul) IN Gemv(c, row)
neon_gemv_t(c) == GemvT(4, c)
neon_gemm(c) == Gemm(4, c)

neon_threshold(c) == Each(4, c, Threshold, Threshold)
neon_threshold_sign(c) == Each(4, c, Sign, Sign)
neon_hamming(c) == Reduce(4, c, Lanes(4), Popcount)
neon_topk_indices(c) == scalar_topk_indices(c)
neon_clamp(c) == Each(4, c, Clamp, Clamp)

neon_dist_l2(c) == <<"sqrt", neon_dist_l2_sq(c)>>

-----------------------------------------------------------------------------
override_neon(t) ==
  [k \in Kernels |-> IF k \in {"axpy", "axpby", "sigmoid_f", "tanh_f", "exp_f"} THEN t[k] ELSE "neon"]

neon(k, c) ==
  CASE k = "dot" -> neon_dot(c) [] k = "dot_f" -> neon_dot_f(c)
    [] k = "norm_l2_sq" -> neon_norm_l2_sq(c) [] k = "norm_l2" -> neon_norm_l2(c)
    [] k = "norm_l1" -> neon_norm_l1(c) [] k = "sum" -> neon_sum(c)
    [] k = "max" -> neon_max(c) [] k = "min" -> neon_min(c) [] k = "argmax" -> neon_argmax(c)
    [] k = "argmin" -> neon_argmin(c) [] k = "argminmax" -> neon_argminmax(c)
    [] k = "add" -> neon_add(c) [] k = "sub" -> neon_sub(c) [] k = "mul" -> neon_mul(c)
    [] k = "div" -> neon_div(c) [] k = "abs" -> neon_abs(c) [] k = "fma" -> neon_fma(c)
    [] k = "add_s" -> neon_add_s(c) [] k = "mul_s" -> neon_mul_s(c)
    [] k = "scale_add_s" -> neon_scale_add_s(c) [] k = "sigmoid" -> neon_sigmoid(c)
    [] k = "tanh_fast" -> neon_tanh_fast(c) [] k = "gelu" -> neon_gelu(c)
    [] k = "silu" -> neon_silu(c) [] k = "relu" -> neon_relu(c)
    [] k = "relu6" -> neon_relu6(c) [] k = "leaky_relu" -> neon_leaky_relu(c)
    [] k = "elu" -> neon_elu(c) [] k = "softmax" -> neon_softmax(c)
    [] k = "log_softmax" -> neon_log_softmax(c) [] k = "vexp" -> neon_vexp(c)
    [] k = "vlog" -> neon_vlog(c) [] k = "vsqrt" -> neon_vsqrt(c)
    [] k = "vrsqrt" -> neon_vrsqrt(c) [] k = "vinv" -> neon_vinv(c)
    [] k = "dist_l2_sq" -> neon_dist_l2_sq(c) [] k = "dist_l1" -> neon_dist_l1(c)
    [] k = "dist_cos" -> neon_dist_cos(c) [] k = "dist_cheb" -> neon_dist_cheb(c)
    [] k = "dist_matrix_l2_sq" -> neon_dist_matrix_l2_sq(c)
    [] k = "dist_matrix_cos" -> neon_dist_matrix_cos(c)
    [] k = "dist_matrix_l1" -> neon_dist_matrix_l1(c) [] k = "gemv" -> neon_gemv(c)
    [] k = "gemv_t" -> neon_gemv_t(c) [] k = "gemm" -> neon_gemm(c)
    [] k = "threshold" -> neon_threshold(c) [] k = "threshold_sign" -> neon_threshold_sign(c)
    [] k = "hamming" -> neon_hamming(c) [] k = "topk_indices" -> neon_topk_indices(c)
    [] k = "clamp" -> neon_clamp(c) [] k = "dist_l2" -> neon_dist_l2(c)
=============================================================================
