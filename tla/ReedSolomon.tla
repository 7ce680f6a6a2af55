---------------------------- MODULE ReedSolomon ----------------------------
(***************************************************************************)
(* Erasure coding, crates/dc-tvu/src/gf256.rs and reed_solomon.rs: the     *)
(* field GF(2^8) by its tables of logarithms, the Cauchy matrix, the       *)
(* encoder, and the decoder up to one column of its matrix inversion.      *)
(*                                                                         *)
(* A shred's payload is a function from its columns to bytes, a matrix a   *)
(* function from its rows to functions from its columns to bytes.          *)
(***************************************************************************)
EXTENDS Integers, FiniteSets, FiniteSetsExt

Byte == 0 .. 255

(* Logarithms to the base 2 of the bytes, in order from 0.                 *)
LOG == <<
    0,   0,   1,  25,   2,  50,  26, 198,   3, 223,  51, 238,  27, 104, 199,  75,
    4, 100, 224,  14,  52, 141, 239, 129,  28, 193, 105, 248, 200,   8,  76, 113,
    5, 138, 101,  47, 225,  36,  15,  33,  53, 147, 142, 218, 240,  18, 130,  69,
   29, 181, 194, 125, 106,  39, 249, 185, 201, 154,   9, 120,  77, 228, 114, 166,
    6, 191, 139,  98, 102, 221,  48, 253, 226, 152,  37, 179,  16, 145,  34, 136,
   54, 208, 148, 206, 143, 150, 219, 189, 241, 210,  19,  92, 131,  56,  70,  64,
   30,  66, 182, 163, 195,  72, 126, 110, 107,  58,  40,  84, 250, 133, 186,  61,
  202,  94, 155, 159,  10,  21, 121,  43,  78, 212, 229, 172, 115, 243, 167,  87,
    7, 112, 192, 247, 140, 128,  99,  13, 103,  74, 222, 237,  49, 197, 254,  24,
  227, 165, 153, 119,  38, 184, 180, 124,  17,  68, 146, 217,  35,  32, 137,  46,
   55,  63, 209,  91, 149, 188, 207, 205, 144, 135, 151, 178, 220, 252, 190,  97,
  242,  86, 211, 171,  20,  42,  93, 158, 132,  60,  57,  83,  71, 109,  65, 162,
   31,  45,  67, 216, 183, 123, 164, 118, 196,  23,  73, 236, 127,  12, 111, 246,
  108, 161,  59,  82,  41, 157,  85, 170, 251,  96, 134, 177, 187, 204,  62,  90,
  203,  89,  95, 176, 156, 169, 160,  81,  11, 245,  22, 235, 122, 117,  44, 215,
   79, 174, 213, 233, 230, 231, 173, 232, 116, 214, 244, 234, 168,  80,  88, 175 >>

(* Powers of 2, in order of the exponent.                                   *)
ALOG == <<
    1,   2,   4,   8,  16,  32,  64, 128,  29,  58, 116, 232, 205, 135,  19,  38,
   76, 152,  45,  90, 180, 117, 234, 201, 143,   3,   6,  12,  24,  48,  96, 192,
  157,  39,  78, 156,  37,  74, 148,  53, 106, 212, 181, 119, 238, 193, 159,  35,
   70, 140,   5,  10,  20,  40,  80, 160,  93, 186, 105, 210, 185, 111, 222, 161,
   95, 190,  97, 194, 153,  47,  94, 188, 101, 202, 137,  15,  30,  60, 120, 240,
  253, 231, 211, 187, 107, 214, 177, 127, 254, 225, 223, 163,  91, 182, 113, 226,
  217, 175,  67, 134,  17,  34,  68, 136,  13,  26,  52, 104, 208, 189, 103, 206,
  129,  31,  62, 124, 248, 237, 199, 147,  59, 118, 236, 197, 151,  51, 102, 204,
  133,  23,  46,  92, 184, 109, 218, 169,  79, 158,  33,  66, 132,  21,  42,  84,
  168,  77, 154,  41,  82, 164,  85, 170,  73, 146,  57, 114, 228, 213, 183, 115,
  230, 209, 191,  99, 198, 145,  63, 126, 252, 229, 215, 179, 123, 246, 241, 255,
  227, 219, 171,  75, 150,  49,  98, 196, 149,  55, 110, 220, 165,  87, 174,  65,
  130,  25,  50, 100, 200, 141,   7,  14,  28,  56, 112, 224, 221, 167,  83, 166,
   81, 162,  89, 178, 121, 242, 249, 239, 195, 155,  43,  86, 172,  69, 138,   9,
   18,  36,  72, 144,  61, 122, 244, 245, 247, 243, 251, 235, 203, 139,  11,  22,
   44,  88, 176, 125, 250, 233, 207, 131,  27,  54, 108, 216, 173,  71, 142,   1 >>

(* The exclusive or of two bytes, as a table: bit by bit without a carry.  *)
XorBit(a, b, p) == p * ((a \div p + b \div p) % 2)

Xor == [a \in Byte |-> [b \in Byte |->
          XorBit(a, b, 1) + XorBit(a, b, 2) + XorBit(a, b, 4) + XorBit(a, b, 8)
            + XorBit(a, b, 16) + XorBit(a, b, 32) + XorBit(a, b, 64) + XorBit(a, b, 128)]]

(* gf_sub is the same operation.                                           *)
GfAdd(a, b) == Xor[a][b]

(* Multiplication by the generator 2, with 0x11D taken off on an overflow.  *)
Twice(a) == IF a < 128 THEN 2 * a ELSE GfAdd(2 * a - 256, 29)

(* The entries of the tables, which start at 0.                            *)
Log(a) == LOG[1 + a]
Alog(e) == ALOG[1 + e]

(* What gf256.rs says of its tables, entry by entry: who starts at 1 and   *)
(* keeps doubling meets the bytes from 1 to 255 in the order of ALOG, and  *)
(* LOG tells at which step each.                                           *)
ASSUME TablesAssumption ==
  /\ Alog(0) = 1 /\ Alog(255) = 1
  /\ \A e \in 0 .. 254 : /\ Alog(e) \in 1 .. 255 /\ Log(Alog(e)) = e
                         /\ Alog(e + 1) = Twice(Alog(e))
  /\ \A a \in 1 .. 255 : Log(a) \in 0 .. 254 /\ Alog(Log(a)) = a

(* Faulty variant, for the mutation runs: the exponent is not reduced.     *)
GfMulWide(a, b) ==
  IF a = 0 \/ b = 0 THEN 0 ELSE Alog((Log(a) + Log(b)) % 256)

GfMul(a, b) ==
  IF a = 0 \/ b = 0 THEN 0 ELSE Alog((Log(a) + Log(b)) % 255)

GfInv(a) == IF a = 0 THEN 0 ELSE Alog(255 - Log(a))

(* The sum of f[0] to f[n - 1].                                            *)
GfSum(f, n) ==
  LET sum[k \in 0 .. n] == IF k = 0 THEN 0 ELSE GfAdd(sum[k - 1], f[k - 1]) IN sum[n]

-----------------------------------------------------------------------------
(* Indexes are cut to a byte before they are added.                        *)
CauchyMatrix(num_data, num_code) ==
  [i \in 0 .. num_code - 1 |-> [j \in 0 .. num_data - 1 |->
     GfInv(GfAdd(i % 256, (num_data + j) % 256))]]

(* All payloads as long as the first.                                      *)
Encode(data, cauchy) ==
  [i \in DOMAIN cauchy |-> [c \in DOMAIN data[0] |->
     GfSum([j \in DOMAIN data |-> GfMul(data[j][c], cauchy[i][j])], Cardinality(DOMAIN data))]]

(* Step 1 of decode: the row of a data shred is a unit vector, that of a   *)
(* code shred its row of the Cauchy matrix.                                *)
ReceivedMatrix(rows, cauchy, num_data) ==
  [r \in 0 .. num_data - 1 |->
     IF rows[r] < num_data
     THEN [j \in 0 .. num_data - 1 |-> IF j = rows[r] THEN 1 ELSE 0]
     ELSE cauchy[rows[r] - num_data]]

(* gf_matrix_invert starts from the matrix with the identity beside it.    *)
Augmented(matrix) ==
  LET n == Cardinality(DOMAIN matrix)
  IN  [i \in 0 .. n - 1 |-> [j \in 0 .. 2 * n - 1 |->
         IF j < n THEN matrix[i][j] ELSE IF j = n + i THEN 1 ELSE 0]]

Pivots(aug, col) == {row \in DOMAIN aug : row >= col /\ aug[row][col] # 0}

(* One column: the first row with an entry there is brought up, scaled to  *)
(* one, and subtracted from every other row.                               *)
Eliminate(aug, col) ==
  LET pivot == Min(Pivots(aug, col))
      swapped == [aug EXCEPT ![col] = aug[pivot], ![pivot] = aug[col]]
      inv == GfInv(swapped[col][col])
      scaled == [j \in DOMAIN aug[col] |-> GfMul(swapped[col][j], inv)]
  IN  [row \in DOMAIN aug |->
         IF row = col THEN scaled
         ELSE [j \in DOMAIN scaled |->
                 GfAdd(swapped[row][j], GfMul(swapped[row][col], scaled[j]))]]

(* Step 3 reads every received payload over the length of the first one;   *)
(* a shorter one is an index out of bounds.                                *)
ReadsPastEnd(received) ==
  \E k \in DOMAIN received : ~(DOMAIN received[0] \subseteq DOMAIN received[k])

(* Faulty variant, for the mutation runs: the matrix itself is used.       *)
RecoveredUninverted(aug, received) ==
  [i \in DOMAIN aug |-> [c \in DOMAIN received[0] |->
     GfSum([k \in DOMAIN aug |-> GfMul(aug[i][k], received[k][c])], Cardinality(DOMAIN aug))]]

(* The right half of the augmented matrix times the received payloads.     *)
Recovered(aug, received) ==
  LET n == Cardinality(DOMAIN aug)
  IN  [i \in DOMAIN aug |-> [c \in DOMAIN received[0] |->
         GfSum([k \in DOMAIN aug |-> GfMul(aug[i][n + k], received[k][c])], n)]]
=============================================================================
