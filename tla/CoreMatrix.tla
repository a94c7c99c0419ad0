----------------------------- MODULE CoreMatrix -----------------------------
(***************************************************************************)
(* CoreMark's matrix benchmark (coremark/core_matrix.c).  An N by N matrix *)
(* is a function on 0..N*N-1, as in the code's memory.  Elements of A and  *)
(* B are signed 16-bit (MATDAT), those of C and all sums signed 32-bit     *)
(* (MATRES), which no input of the benchmark makes overflow.               *)
(***************************************************************************)
EXTENDS CoreUtil

Cells(N) == 0..(N * N - 1)

MatrixClip(x, low) == IF low THEN U8(x) ELSE U16(x)
MatrixBig(x) == S16(61440 | U16(x))
BitExtract(x, from, to) == (x \div 2^from) % 2^to

(* The largest N for which three matrices, of 2, 2 and 4 bytes per element *)
(* and so 8*N*N bytes, are smaller than the block.  Faulty form: the first *)
(* N for which they are not.                                               *)
RECURSIVE DimFrom(_, _)
DimFrom(i, blksize) == IF i * i * 8 < blksize THEN DimFrom(i + 1, blksize) ELSE i - 1
MatrixDimPast(blksize) == DimFrom(0, blksize) + 1

MatrixDim(blksize) == DimFrom(0, blksize)

(* C's % rounds towards zero.                                              *)
Rem65536(x) == IF x >= 0 THEN x % 65536 ELSE -((-x) % 65536)

(* core_init_matrix: the seed runs through the cells, multiplied by the    *)
(* cell's order, and gives B's element and, clipped to a byte, A's.        *)
InitMatrix(blksize, seed) ==
  LET N == MatrixDim(blksize)
      seeds[order \in 0..(N * N)] ==
        IF order = 0 THEN (IF seed = 0 THEN 1 ELSE seed)
        ELSE Rem65536(order * seeds[order - 1])
      Run == [order \in 0..(N * N) |-> seeds[order]]
      b == [c \in Cells(N) |-> S16(MatrixClip(Run[c + 1] + c + 1, FALSE))]
  IN [N |-> N, B |-> b, A |-> [c \in Cells(N) |-> MatrixClip(S16(b[c] + c + 1), TRUE)]]

(* An element keeps the low 16 bits of the sum.                            *)
AddConst(A, val) == [c \in DOMAIN A |-> S16(A[c] + val)]

(* Sum of term[0..n-1].                                                    *)
RECURSIVE SumTo(_, _)
SumTo(term, n) == IF n = 0 THEN 0 ELSE term[n - 1] + SumTo(term, n - 1)

MulConst(A, val) == [c \in DOMAIN A |-> A[c] * val]

(* Only the first N cells of the result are written.                       *)
MulVect(N, C, A, B) ==
  [c \in Cells(N) |->
     IF c < N THEN SumTo([j \in 0..(N - 1) |-> A[c * N + j] * B[j]], N) ELSE C[c]]

MulMatrix(N, A, B) ==
  [c \in Cells(N) |->
     SumTo([k \in 0..(N - 1) |-> A[(c \div N) * N + k] * B[k * N + (c % N)]], N)]

MulMatrixBitExtract(N, A, B) ==
  [c \in Cells(N) |->
     SumTo([k \in 0..(N - 1) |->
              LET tmp == A[(c \div N) * N + k] * B[k * N + (c % N)]
              IN BitExtract(tmp, 2, 4) * BitExtract(tmp, 5, 7)], N)]

(* matrix_sum: the running total is cut when it passes clipval, which      *)
(* counts ten; otherwise an element larger than the one before counts one. *)
MatrixSum(N, C, clipval) ==
  LET acc[c \in 0..(N * N)] ==
        IF c = 0 THEN [tmp |-> 0, prev |-> 0, ret |-> 0]
        ELSE LET a == acc[c - 1]
                 cur == C[c - 1]
             IN IF a.tmp + cur > clipval
                THEN [tmp |-> 0, prev |-> cur, ret |-> S16(a.ret + 10)]
                ELSE [tmp |-> a.tmp + cur, prev |-> cur,
                      ret |-> S16(a.ret + (IF cur > a.prev THEN 1 ELSE 0))]
  IN acc[N * N].ret

(* matrix_test and core_bench_matrix: the matrix A it leaves behind and    *)
(* the checksum of the four results.  Faulty form: A keeps the constant.   *)
BenchMatrixKept(mat, val, crc) ==
  [A |-> AddConst(mat.A, val), crc |-> Crc16(0, crc)]

BenchMatrix(mat, val, crc) ==
  LET N == mat.N
      clipval == MatrixBig(val)
      A == AddConst(mat.A, val)
      c1 == MulConst(A, val)
      c2 == MulVect(N, c1, A, mat.B)
      c3 == MulMatrix(N, A, mat.B)
      c4 == MulMatrixBitExtract(N, A, mat.B)
      Add(C, sum) == Crc16(MatrixSum(N, C, clipval), sum)
  IN [A |-> AddConst(A, -val), crc |-> Crc16(Add(c4, Add(c3, Add(c2, Add(c1, 0)))), crc)]
=============================================================================
