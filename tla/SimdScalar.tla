----------------------------- MODULE SimdScalar -----------------------------
(***************************************************************************)
(* scl_ml_simd_scalar.c: the kernel of every slot as a plain loop, and the *)
(* reference the vector kernels are compared with.                         *)
(***************************************************************************)
EXTENDS SimdLoops, Sequences

LOCAL Loop(c, f(_, _)) == [i \in Upto(0, c.n) |-> f(c, i)]
LOCAL SumOf(c, f(_, _)) == LET g(i) == f(c, i) IN Total(Upto(0, c.n), g)

scalar_dot(c) == SumOf(c, Mul)
scalar_dot_f(c) == SumOf(c, Mul)
scalar_norm_l2_sq(c) == SumOf(c, Square)
scalar_norm_l2(c) == <<"sqrt", scalar_norm_l2_sq(c)>>
scalar_norm_l1(c) == SumOf(c, Abs)
scalar_axpy(c) == Loop(c, Axpy)
scalar_axpby(c) == Loop(c, Axpby)

FltMax == 1000000
scalar_sum(c) == SumOf(c, Element)
scalar_max(c) == FoldSet(LAMBDA i, m : Bigger(m, c.a[i]), -FltMax, Upto(0, c.n))
scalar_min(c) == FoldSet(LAMBDA i, m : Smaller(m, c.a[i]), FltMax, Upto(0, c.n))
scalar_argmax(c) == IF c.n = 0 THEN 0 ELSE Winner(Upto(0, c.n), c, Above)
scalar_argmin(c) == IF c.n = 0 THEN 0 ELSE Winner(Upto(0, c.n), c, Below)
scalar_argminmax(c) == <<scalar_argmin(c), scalar_argmax(c)>>

scalar_add(c) == Loop(c, Add)
scalar_sub(c) == Loop(c, Sub)
scalar_mul(c) == Loop(c, Mul)
scalar_div(c) == Loop(c, Div)
scalar_abs(c) == Loop(c, Abs)
scalar_fma(c) == Loop(c, Fma)
scalar_add_s(c) == Loop(c, AddS)
scalar_mul_s(c) == Loop(c, MulS)
scalar_scale_add_s(c) == Loop(c, ScaleAdd)

scalar_sigmoid(c) == Loop(c, Sigmoid)
scalar_relu(c) == Loop(c, Relu)
scalar_relu6(c) == Loop(c, Relu6)
scalar_leaky_relu(c) == Loop(c, Leaky)
scalar_elu(c) == Loop(c, Elu)
scalar_tanh_fast(c) == Loop(c, Tanh)
scalar_gelu(c) == Loop(c, Gelu)
scalar_silu(c) == Loop(c, Silu)

\* The logarithm of a vanished exponential is minus infinity.
scalar_softmax_impl(c, do_log) ==
  LET max == FoldSet(LAMBDA i, u : Bigger(u, c.a[i]), c.a[0], Upto(1, c.n))
      e == Exps(1, c, max, fast_exp)
  IN IF ~do_log THEN Shares(e)
     ELSE [i \in Upto(0, c.n) |-> IF e[i] = Num(0) THEN <<"-inf">> ELSE LogShares(c, max, e)[i]]
scalar_softmax(c) == scalar_softmax_impl(c, FALSE)
scalar_log_softmax(c) == scalar_softmax_impl(c, TRUE)

scalar_vexp(c) == Loop(c, Exp)
scalar_vlog(c) == Loop(c, Log)
scalar_vsqrt(c) == Loop(c, Sqrt)
scalar_vrsqrt(c) == Loop(c, Rsqrt)
scalar_vinv(c) == Loop(c, Inv)

scalar_dist_l2_sq(c) == SumOf(c, SquareDiff)
scalar_dist_l2(c) == <<"sqrt", scalar_dist_l2_sq(c)>>
scalar_dist_l1(c) == SumOf(c, AbsDiff)
scalar_dist_cos(c) == Cosine(SumOf(c, Mul), SumOf(c, Square), SumOf(c, SquareB))
scalar_dist_cheb(c) == FoldSet(LAMBDA i, m : Bigger(m, AbsDiff(c, i)), 0, Upto(0, c.n))
scalar_dist_matrix_l2_sq(c) == Pairwise(c, scalar_dist_l2_sq)
scalar_dist_matrix_cos(c) == Pairwise(c, scalar_dist_cos)
scalar_dist_matrix_l1(c) == Pairwise(c, scalar_dist_l1)

scalar_gemv(c) == Gemv(c, scalar_dot)
scalar_gemv_t(c) == GemvT(1, c)
scalar_gemm(c) == Gemm(1, c)

scalar_threshold(c) == Loop(c, Threshold)
scalar_threshold_sign(c) == Loop(c, Sign)
scalar_hamming(c) == SumOf(c, Popcount)
scalar_sigmoid_f(c) == Sigmoid(c, 0)
scalar_tanh_f(c) == Tanh(c, 0)
scalar_exp_f(c) == Exp(c, 0)
scalar_clamp(c) == Loop(c, Clamp)

\* heap is a function on 0..k-1; the loop moves the larger child up.
RECURSIVE heap_sift_down(_, _, _, _)
heap_sift_down(heap, vals, k, idx) ==
  LET left == 2 * idx + 1
      right == left + 1
      larger == IF right < k /\ vals[heap[right]] > vals[heap[left]] THEN right ELSE left
  IN IF left >= k \/ vals[heap[idx]] >= vals[heap[larger]] THEN heap
     ELSE heap_sift_down([heap EXCEPT ![idx] = heap[larger], ![larger] = heap[idx]],
                         vals, k, larger)

RECURSIVE Heapify(_, _, _, _), Offer(_, _, _, _, _)
Heapify(heap, vals, k, i) ==
  IF i = 0 THEN heap ELSE Heapify(heap_sift_down(heap, vals, k, i - 1), vals, k, i - 1)
Offer(heap, vals, k, i, n) ==
  IF i = n THEN heap
  ELSE Offer(IF vals[i] < vals[heap[0]]
             THEN heap_sift_down([heap EXCEPT ![0] = i], vals, k, 0) ELSE heap,
             vals, k, i + 1, n)
\* c.m is k.
scalar_topk_indices(c) ==
  LET k == Smaller(c.n, c.m)
  IN IF k = 0 THEN [i \in {} |-> 0]
     ELSE Offer(Heapify([i \in Upto(0, k) |-> i], c.a, k, k \div 2), c.a, k, k, c.n)

-----------------------------------------------------------------------------
Kernels == {"dot", "dot_f", "norm_l2_sq", "norm_l2", "norm_l1", "axpy", "axpby", "sum", "max",
  "min", "argmax", "argmin", "argminmax", "add", "sub", "mul", "div", "abs", "fma", "add_s",
  "mul_s", "scale_add_s", "sigmoid", "relu", "relu6", "leaky_relu", "elu", "tanh_fast", "gelu",
  "silu", "softmax", "log_softmax", "vexp", "vlog", "vsqrt", "vrsqrt", "vinv", "dist_l2_sq",
  "dist_l2", "dist_l1", "dist_cos", "dist_cheb", "dist_matrix_l2_sq", "dist_matrix_cos",
  "dist_matrix_l1", "gemv", "gemv_t", "gemm", "threshold", "threshold_sign", "hamming",
  "sigmoid_f", "tanh_f", "exp_f", "topk_indices", "clamp"}

override_scalar == [k \in Kernels |-> "scalar"]

scalar(k, c) ==
  CASE k = "dot" -> scalar_dot(c) [] k = "dot_f" -> scalar_dot_f(c)
    [] k = "norm_l2_sq" -> scalar_norm_l2_sq(c) [] k = "norm_l2" -> scalar_norm_l2(c)
    [] k = "norm_l1" -> scalar_norm_l1(c) [] k = "axpy" -> scalar_axpy(c)
    [] k = "axpby" -> scalar_axpby(c) [] k = "sum" -> scalar_sum(c)
    [] k = "max" -> scalar_max(c) [] k = "min" -> scalar_min(c)
    [] k = "argmax" -> scalar_argmax(c) [] k = "argmin" -> scalar_argmin(c)
    [] k = "argminmax" -> scalar_argminmax(c) [] k = "add" -> scalar_add(c)
    [] k = "sub" -> scalar_sub(c) [] k = "mul" -> scalar_mul(c) [] k = "div" -> scalar_div(c)
    [] k = "abs" -> scalar_abs(c) [] k = "fma" -> scalar_fma(c)
    [] k = "add_s" -> scalar_add_s(c) [] k = "mul_s" -> scalar_mul_s(c)
    [] k = "scale_add_s" -> scalar_scale_add_s(c) [] k = "sigmoid" -> scalar_sigmoid(c)
    [] k = "relu" -> scalar_relu(c) [] k = "relu6" -> scalar_relu6(c)
    [] k = "leaky_relu" -> scalar_leaky_relu(c) [] k = "elu" -> scalar_elu(c)
    [] k = "tanh_fast" -> scalar_tanh_fast(c) [] k = "gelu" -> scalar_gelu(c)
    [] k = "silu" -> scalar_silu(c) [] k = "softmax" -> scalar_softmax(c)
    [] k = "log_softmax" -> scalar_log_softmax(c) [] k = "vexp" -> scalar_vexp(c)
    [] k = "vlog" -> scalar_vlog(c) [] k = "vsqrt" -> scalar_vsqrt(c)
    [] k = "vrsqrt" -> scalar_vrsqrt(c) [] k = "vinv" -> scalar_vinv(c)
    [] k = "dist_l2_sq" -> scalar_dist_l2_sq(c) [] k = "dist_l2" -> scalar_dist_l2(c)
    [] k = "dist_l1" -> scalar_dist_l1(c) [] k = "dist_cos" -> scalar_dist_cos(c)
    [] k = "dist_cheb" -> scalar_dist_cheb(c)
    [] k = "dist_matrix_l2_sq" -> scalar_dist_matrix_l2_sq(c)
    [] k = "dist_matrix_cos" -> scalar_dist_matrix_cos(c)
    [] k = "dist_matrix_l1" -> scalar_dist_matrix_l1(c) [] k = "gemv" -> scalar_gemv(c)
    [] k = "gemv_t" -> scalar_gemv_t(c) [] k = "gemm" -> scalar_gemm(c)
    [] k = "threshold" -> scalar_threshold(c)
    [] k = "threshold_sign" -> scalar_threshold_sign(c) [] k = "hamming" -> scalar_hamming(c)
    [] k = "sigmoid_f" -> scalar_sigmoid_f(c) [] k = "tanh_f" -> scalar_tanh_f(c)
    [] k = "exp_f" -> scalar_exp_f(c) [] k = "topk_indices" -> scalar_topk_indices(c)
    [] k = "clamp" -> scalar_clamp(c)
=============================================================================
