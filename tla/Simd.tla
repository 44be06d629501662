-------------------------------- MODULE Simd --------------------------------
(***************************************************************************)
(* The kernel table of libs/ml (scl_ml_simd_core.c): one slot per kernel,  *)
(* filled for the machine the library finds itself on, and the calls that  *)
(* are made through it.                                                    *)
(***************************************************************************)
EXTENDS SimdAvx2, SimdSse42, SimdAvx512, SimdNeon

CONSTANTS
  Machines,   \* the instruction sets a processor may have
  Sizes,      \* element counts
  BigSizes,   \* row lengths of gemv and gemm, beyond a tile
  Peaks       \* values of the one element that stands out

VARIABLES
  hw,         \* this machine's instruction sets
  table,      \* scl_ml_simd: kernel -> file that provides it
  call,       \* the call made, or NoCall
  result      \* what it returned or wrote

vars == <<hw, table, call, result>>

NoCall == [k |-> "none"]
Unset == [k \in Kernels |-> "null"]

-----------------------------------------------------------------------------
\* Bit 19 of the first leaf is SSE4.1.  FMA is not looked at.
scl_ml_cpu_features(h) ==
  LET found == {f \in {"AVX2", "AVX512F", "AVX512DQ", "AVX512BW", "NEON"} : f \in h}
                 \cup {f \in {"SSE42"} : "SSE41" \in h}
  IN IF "AVX512F" \in found THEN found ELSE found \ {"AVX512BW", "AVX512DQ"}

\* The overrides replace slots, in this order.  SVE is not compiled in.
scl_ml_simd_init_impl(h) ==
  LET caps == scl_ml_cpu_features(h)
      sse == IF "SSE42" \in caps THEN override_sse42(override_scalar) ELSE override_scalar
      neo == IF "NEON" \in caps THEN override_neon(sse) ELSE sse
      avx == IF "AVX2" \in caps THEN override_avx2(neo) ELSE neo
  IN IF "AVX512F" \in caps THEN override_avx512(avx) ELSE avx

Run(isa, k, c) ==
  CASE isa = "scalar" -> scalar(k, c)
    [] isa = "sse42" -> sse42(k, c)
    [] isa = "neon" -> neon(k, c)
    [] isa = "avx2" -> avx2(k, c)
    [] isa = "avx512" -> avx512(k, c)

\* What the compiler may use in each file (its target attributes or flags).
Needs(isa) ==
  CASE isa = "sse42" -> {"SSE41", "SSE42"}
    [] isa = "neon" -> {"NEON"}
    [] isa = "avx2" -> {"AVX2", "FMA"}
    [] isa = "avx512" -> {"AVX512F", "AVX512BW", "AVX512DQ"}
    [] OTHER -> {}

-----------------------------------------------------------------------------
(* The arguments.  The memory behind an array's last element holds values  *)
(* larger and smaller than any in it.                                      *)

Matrix == {"gemv", "gemv_t", "gemm"}
Table == {"dist_matrix_l2_sq", "dist_matrix_cos", "dist_matrix_l1"}
Memory(len, f(_)) ==
  [i \in 0..(len + 16) |-> IF i < len THEN f(i) ELSE IF i % 2 = 0 THEN 1000 ELSE -1000]

Arguments(q) ==
  LET len == CASE q.k = "gemm" -> q.n * q.n [] q.k \in Matrix -> 2 * q.n
               [] q.k \in Table -> 2 * q.p [] OTHER -> q.n
      peaked(i) == IF i = q.p THEN q.v ELSE (i % 3) - 1
      plain(i) == (2 * i) % 3
  IN [a |-> Memory(len, peaked), b |-> Memory(len, plain), z |-> Memory(len, plain), n |-> q.n,
      s |-> IF q.k = "clamp" THEN -31 ELSE 2, t |-> 3,
      m |-> IF q.k = "topk_indices" THEN q.p + 1 ELSE 2, d |-> q.p]

-----------------------------------------------------------------------------
Init ==
  /\ hw \in Machines
  /\ table = Unset
  /\ call = NoCall
  /\ result = Num(0)

\* Under pthread_once: only the first call runs init_impl.
scl_ml_simd_init ==
  /\ table = Unset
  /\ table' = scl_ml_simd_init_impl(hw)
  /\ UNCHANGED <<hw, call, result>>

\* A kernel whose instructions the machine does not have ends the process.
Ready == call = NoCall /\ table # Unset
Call(q) ==
  /\ Needs(table[q.k]) \subseteq hw
  /\ call' = q
  /\ result' = Run(table[q.k], q.k, Arguments(q))
  /\ UNCHANGED <<hw, table>>

Return ==
  /\ call # NoCall
  /\ call' = NoCall /\ result' = Num(0)
  /\ UNCHANGED <<hw, table>>

\* A peak at each position; the matrix kernels have a row length instead.
Next ==
  \/ scl_ml_simd_init
  \/ /\ Ready
     /\ \/ \E k \in Kernels \ (Matrix \cup Table), n \in Sizes :
             \E p \in 0..(IF n = 0 THEN 0 ELSE n - 1), v \in Peaks :
               Call([k |-> k, n |-> n, p |-> p, v |-> v])
        \/ \E k \in Table, d \in Sizes, v \in Peaks : Call([k |-> k, n |-> 2, p |-> d, v |-> v])
        \/ \E k \in Matrix, n \in BigSizes, v \in Peaks : Call([k |-> k, n |-> n, p |-> n, v |-> v])
  \/ Return

Spec == Init /\ [][Next]_vars

-----------------------------------------------------------------------------
\* The instruction sets that scl_ml_simd_init_impl takes for granted: it installs
\* the kernels for SSE4.2 on SSE4.1's bit, those for AVX2 without asking for FMA
\* and those for AVX-512 without asking for BW and DQ.
Untested == {"SSE42", "FMA", "AVX512BW", "AVX512DQ"}

\* Once initialised, no slot is empty, and the only instructions a slot's kernel
\* may miss on this machine are of the sets that are never asked for.
SlotsRunnable ==
  table # Unset => \A k \in Kernels : table[k] # "null" /\ Needs(table[k]) \ hw \subseteq Untested

\* Where a kernel is known to differ from the scalar one, by call and, in the
\* kernels that treat every element alone, by lane.
Width(isa) == CASE isa = "avx512" -> 16 [] isa = "avx2" -> 8 [] isa = "scalar" -> 1 [] OTHER -> 4
Argument(k) == k \in {"argmax", "argmin", "argminmax"}
Differs(isa, k, c) ==
  \/ k \in {"max", "min"} /\ c.n \in 1..(Width(isa) - 1)   \* the first load runs past the end
  \/ Argument(k) /\ c.n \in 1..(Width(isa) - 1)
  \/ isa \in {"avx2", "sse42"} /\ k \in {"max", "min"} /\ c.n > 0     \* lanes are added
  \/ isa \in {"avx2", "sse42"} /\ k = "dist_cheb" /\ c.n >= Width(isa)
  \/ isa = "avx2" /\ k = "dot_f" /\ c.n >= 8
LaneDiffers(isa, k, c, i) ==
  \/ k = "log_softmax" /\ isa # "scalar" /\ scalar_log_softmax(c)[i] = <<"-inf">>
  \/ /\ i < Rest(0, Width(isa), c.n) /\ isa # "scalar"
     /\ \/ k = "silu" /\ c.a[i] # 0            \* exp(x) for exp(-x)
        \/ k = "vrsqrt" /\ c.a[i] <= 0
        \/ k = "vinv" /\ c.a[i] = 0
        \/ k = "vexp" /\ c.a[i] >= 90          \* wraps to 0 instead of infinity
        \/ isa = "neon" /\ k = "vsqrt" /\ c.a[i] = 0

PerElement == {"add", "sub", "mul", "div", "abs", "fma", "add_s", "mul_s", "scale_add_s", "sigmoid",
  "relu", "relu6", "leaky_relu", "elu", "tanh_fast", "gelu", "silu", "softmax", "log_softmax",
  "vexp", "vlog", "vsqrt", "vrsqrt", "vinv", "threshold", "threshold_sign", "clamp", "axpy", "axpby"}

\* A kernel computes what the scalar loop computes, for every length around the
\* vector width and every position of an outstanding element: no element is
\* left out, taken twice, or read beyond the end.  Excepted are the kernels that
\* do not (Differs, LaneDiffers).  An index found need not be the same one, as
\* long as the element there is.
KernelsAgree ==
  call # NoCall =>
    LET k == call.k
        isa == table[k]
        c == Arguments(call)
        ref == scalar(k, c)
    IN \/ Differs(isa, k, c)
       \/ k \in PerElement /\ \A i \in Upto(0, c.n) : LaneDiffers(isa, k, c, i) \/ result[i] = ref[i]
       \/ k \in {"argmax", "argmin"} /\ c.a[result] = c.a[ref]
       \/ k = "argminmax" /\ \A e \in 1..2 : c.a[result[e]] = c.a[ref[e]]
       \/ k \notin PerElement /\ ~Argument(k) /\ result = ref

\* The indices chosen are those of the k smallest elements, none twice.
TopkChoosesSmallest ==
  call.k = "topk_indices" =>
    LET c == Arguments(call)
        chosen == {result[i] : i \in DOMAIN result}
    IN /\ Cardinality(chosen) = Smaller(c.m, c.n)
       /\ \A i \in chosen, j \in Upto(0, c.n) \ chosen : c.a[i] <= c.a[j]
=============================================================================
