---------------------------- MODULE SimdAvx512 ----------------------------
(*****************************************************************************)
(* scl_ml_simd_avx512.c: vectors of 16 floats.                               *)
(*****************************************************************************)
EXTENDS SimdScalar

avx512_dot(c) == Reduce(16, c, Lanes(16), Mul)
avx512_dot_f(c) == Reduce(16, c, Lanes(16), Mul)
avx512_norm_l2_sq(c) == avx512_dot([c EXCEPT !.b = c.a])
avx512_norm_l2(c) == <<"sqrt", avx512_norm_l2_sq(c)>>
avx512_norm_l1(c) == Reduce(16, c, Lanes(16), Abs)
avx512_sum(c) == Reduce(16, c, Lanes(16), Element)

\* _mm512_reduce_max_ps, _mm512_reduce_min_ps
Avx512Best(v, better(_, _)) == Best({v[l] : l \in Lanes(16)}, better)
avx512_max(c) ==
  IF c.n = 0 THEN -FltMax ELSE Finish(16, c, Avx512Best(Tops(16, c, Bigger), Bigger), Bigger)
avx512_min(c) ==
  IF c.n = 0 THEN FltMax ELSE Finish(16, c, Avx512Best(Tops(16, c, Smaller), Smaller), Smaller)
avx512_argmax(c) == ArgScan(16, c, Above)
avx512_argmin(c) == ArgScan(16, c, Below)
avx512_argminmax(c) == <<ArgScan(16, c, Below), ArgScan(16, c, Above)>>

avx512_add(c) == Each(16, c, Add, Add)
avx512_sub(c) == Each(16, c, Sub, Sub)
avx512_mul(c) == Each(16, c, Mul, Mul)
avx512_div(c) == Each(16, c, Div, Div)
avx512_abs(c) == Each(16, c, Abs, Abs)
avx512_fma(c) == Each(16, c, Fma, Fma)
avx512_add_s(c) == Each(16, c, AddS, AddS)
avx512_mul_s(c) == Each(16, c, MulS, MulS)
avx512_scale_add_s(c) == Each(16, c, ScaleAdd, ScaleAdd)

avx512_sigmoid(c) == Each(16, c, Sigmoid, Sigmoid)
avx512_tanh_fast(c) == Each(16, c, Tanh, Tanh)
avx512_gelu(c) == Each(16, c, Gelu, Gelu)
avx512_silu(c) == Each(16, c, SiluX86, Silu)
avx512_relu(c) == Each(16, c, Relu, Relu)
avx512_relu6(c) == Each(16, c, Relu6, Relu6)
avx512_leaky_relu(c) == Each(16, c, Leaky, Leaky)
avx512_elu(c) == Each(16, c, Elu, Elu)

avx512_fast_exp(x) == FusedExp(x, CvtX86)
avx512_softmax(c) == Shares(Exps(16, c, GuardedMax(16, c), avx512_fast_exp))
avx512_log_softmax(c) ==
  LET max == GuardedMax(16, c)
  IN LogShares(c, max, Exps(16, c, max, avx512_fast_exp))

avx512_vexp(c) == Each(16, c, ExpX86, Exp)
avx512_vlog(c) == Each(16, c, Log, Log)
avx512_vsqrt(c) == Each(16, c, Sqrt, Sqrt)
avx512_vrsqrt(c) == Each(16, c, RawRsqrt, Rsqrt)
avx512_vinv(c) == Each(16, c, RawInv, Inv)

avx512_dist_l2_sq(c) == Reduce(16, c, Lanes(16), SquareDiff)
avx512_dist_l1(c) == Reduce(16, c, Lanes(16), AbsDiff)
avx512_dist_cos(c) ==
  Cosine(Reduce(16, c, Lanes(16), Mul), Reduce(16, c, Lanes(16), Square),
         Reduce(16, c, Lanes(16), SquareB))
avx512_dist_cheb(c) ==
  LET diff(i) == AbsDiff(c, i)
      top == [l \in Lanes(16) |->
                FoldSet(LAMBDA h, v : Bigger(v, diff(h + l)), 0, Heads(0, 16, c.n))]
  IN FoldSet(LAMBDA i, u : Bigger(u, diff(i)), Avx512Best(top, Bigger), Upto(Rest(0, 16, c.n), c.n))
avx512_dist_matrix_l2_sq(c) == Pairwise(c, avx512_dist_l2_sq)
avx512_dist_matrix_cos(c) == Pairwise(c, avx512_dist_cos)
avx512_dist_matrix_l1(c) == Pairwise(c, avx512_dist_l1)

avx512_gemv_NoTail(c) ==
  LET row(e) == Reduce2(16, [e EXCEPT !.n = Rest(0, 16, e.n)], Mul) IN Gemv(c, row)
avx512_gemv(c) == LET row(e) == Reduce2(16, e, Mul) IN Gemv(c, row)
avx512_gemv_t(c) == GemvT(16, c)
avx512_gemm(c) == Gemm(16, c)

avx512_threshold(c) == Each(16, c, Threshold, Threshold)
avx512_threshold_sign(c) == Each(16, c, Sign, Sign)
avx512_hamming(c) == Reduce(2, c, Lanes(2), Popcount)
avx512_topk_indices(c) == scalar_topk_indices(c)
avx512_clamp(c) == Each(16, c, Clamp, Clamp)

-----------------------------------------------------------------------------
override_avx512(t) ==
  [k \in Kernels |-> CASE k = "dist_l2" -> "scalar"
                      [] k \in {"axpy", "axpby", "sigmoid_f", "tanh_f", "exp_f"} -> t[k]
                      [] OTHER -> "avx512"]

avx512(k, c) ==
  CASE k = "dot" -> avx512_dot(c) [] k = "dot_f" -> avx512_dot_f(c)
    [] k = "norm_l2_sq" -> avx512_norm_l2_sq(c) [] k = "norm_l2" -> avx512_norm_l2(c)
    [] k = "norm_l1" -> avx512_norm_l1(c) [] k = "sum" -> avx512_sum(c)
    [] k = "max" -> avx512_max(c) [] k = "min" -> avx512_min(c)
    [] k = "argmax" -> avx512_argmax(c) [] k = "argmin" -> avx512_argmin(c)
    [] k = "argminmax" -> avx512_argminmax(c) [] k = "add" -> avx512_add(c)
    [] k = "sub" -> avx512_sub(c) [] k = "mul" -> avx512_mul(c) [] k = "div" -> avx512_div(c)
    [] k = "abs" -> avx512_abs(c) [] k = "fma" -> avx512_fma(c)
    [] k = "add_s" -> avx512_add_s(c) [] k = "mul_s" -> avx512_mul_s(c)
    [] k = "scale_add_s" -> avx512_scale_add_s(c) [] k = "sigmoid" -> avx512_sigmoid(c)
    [] k = "tanh_fast" -> avx512_tanh_fast(c) [] k = "gelu" -> avx512_gelu(c)
    [] k = "silu" -> avx512_silu(c) [] k = "relu" -> avx512_relu(c)
    [] k = "relu6" -> avx512_relu6(c) [] k = "leaky_relu" -> avx512_leaky_relu(c)
    [] k = "elu" -> avx512_elu(c) [] k = "softmax" -> avx512_softmax(c)
    [] k = "log_softmax" -> avx512_log_softmax(c) [] k = "vexp" -> avx512_vexp(c)
    [] k = "vlog" -> avx512_vlog(c) [] k = "vsqrt" -> avx512_vsqrt(c)
    [] k = "vrsqrt" -> avx512_vrsqrt(c) [] k = "vinv" -> avx512_vinv(c)
    [] k = "dist_l2_sq" -> avx512_dist_l2_sq(c) [] k = "dist_l1" -> avx512_dist_l1(c)
    [] k = "dist_cos" -> avx512_dist_cos(c) [] k = "dist_cheb" -> avx512_dist_cheb(c)
    [] k = "dist_matrix_l2_sq" -> avx512_dist_matrix_l2_sq(c)
    [] k = "dist_matrix_cos" -> avx512_dist_matrix_cos(c)
    [] k = "dist_matrix_l1" -> avx512_dist_matrix_l1(c) [] k = "gemv" -> avx512_gemv(c)
    [] k = "gemv_t" -> avx512_gemv_t(c) [] k = "gemm" -> avx512_gemm(c)
    [] k = "threshold" -> avx512_threshold(c)
    [] k = "threshold_sign" -> avx512_threshold_sign(c) [] k = "hamming" -> avx512_hamming(c)
    [] k = "topk_indices" -> avx512_topk_indices(c) [] k = "clamp" -> avx512_clamp(c)
=============================================================================
