----------------------------- MODULE EpochMath -----------------------------
(***************************************************************************)
(* The arithmetic of opencl_miner.cpp that turns a block's compact nBits   *)
(* into targets (bits_to_target64, bits_to_target256) and an epoch into a  *)
(* dataset seed (adaptivepow_get_seed on the CPU, the seed block of        *)
(* adaptivepow_opencl_generate_dag on the GPU).                            *)
(*                                                                         *)
(* 64- and 256-bit values do not fit TLC's integers; they are modelled by  *)
(* their bytes, least significant first, which is exact here: every shift *)
(* in this code is by a multiple of 8 bits.  The state is the input under *)
(* examination; each step examines another one.                            *)
(***************************************************************************)
EXTENDS Naturals, Bitwise

CONSTANTS
    Sizes,    \* values of nSize = nBits >> 24 to examine
    Words,    \* values of nWord = nBits & 0x007fffff to examine
    Epochs    \* epochs to examine

\* Byte k of a uint32 x (x >> 8k & 0xFF): 0 from byte 4 up.
ByteOf(x, k) == IF k >= 4 THEN 0 ELSE (x \div (256 ^ k)) % 256

\* A value of n bytes given by the function b from byte index to byte.
Bytes(n, b(_)) == [k \in 0 .. (n - 1) |-> b(k)]

\* x >> 8k on an n-byte value.
ShrBytes(v, k) ==
    [j \in DOMAIN v |-> IF j + k \in DOMAIN v THEN v[j + k] ELSE 0]

Ones64 == Bytes(8, LAMBDA k : 255)
Zero64 == Bytes(8, LAMBDA k : 0)

(***************************************************************************)
(* bits_to_target64 (lines 700-711).  For nSize > 3 the shift count        *)
(* (nSize - 3) * 8 reaches 64 at nSize = 11; shifting a 64-bit value that  *)
(* far is undefined, and the x86-64 and AArch64 shift instructions the     *)
(* build emits use the count modulo 64.                                    *)
(***************************************************************************)
BitsToTarget64(nSize, nWord) ==
    IF nSize <= 3
    THEN ShrBytes(Bytes(8, LAMBDA k : ByteOf(nWord, k)), 3 - nSize)
    ELSE ShrBytes(Ones64, ((nSize - 3) * 8 % 64) \div 8)

(***************************************************************************)
(* bits_to_target256 (lines 713-731): memset, then three byte stores.  The *)
(* stores are returned as a set of [at, val]; for nSize > 3 they go to     *)
(* offset = nSize - 3 upward, whatever nSize is.                           *)
(***************************************************************************)
Target256Stores(nSize, nWord) ==
    IF nSize <= 3
    THEN {[at |-> k, val |-> ByteOf(nWord \div (256 ^ (3 - nSize)), k)] :
              k \in 0 .. 2}
    ELSE {[at |-> nSize - 3 + k, val |-> ByteOf(nWord, k)] : k \in 0 .. 2}

(***************************************************************************)
(* adaptivepow_get_seed (lines 434-447): the epoch's four bytes, each      *)
(* XORed with byte (i % 4) of the uint32 product epoch * 0x01000193; the   *)
(* other 28 bytes are that product byte alone.                             *)
(***************************************************************************)
CpuSeed(epoch) ==
    LET prod == epoch * 16777619   \* below 2^32 for the epochs examined
        own(i) == IF i < 4 THEN ByteOf(epoch, i) ELSE 0
    IN  Bytes(32, LAMBDA i : own(i) ^^ ByteOf(prod, i % 4))

\* The seed adaptivepow_opencl_generate_dag uploads (lines 235-239).
GpuSeed(epoch) ==
    Bytes(32, LAMBDA i : IF i < 2 THEN ByteOf(epoch, i) ELSE 0)

VARIABLES
    nSize,    \* the nBits under examination: its exponent byte
    nWord,    \* and its mantissa
    epoch     \* the epoch under examination

vars == <<nSize, nWord, epoch>>

Init == nSize \in Sizes /\ nWord \in Words /\ epoch \in Epochs

Examine ==
    \E s \in Sizes, w \in Words, e \in Epochs :
        nSize' = s /\ nWord' = w /\ epoch' = e

Spec == Init /\ [][Examine]_vars

-----------------------------------------------------------------------------
(***************************************************************************)
(* Spec section 6: target64 = word >> (8 (3 - size)) for size <= 3, else   *)
(* 0xFFFFFFFFFFFFFFFF >> ((size - 3) 8), a value that is 0 once the shift  *)
(* reaches 64.  About the shift of bits_to_target64 (line 709).            *)
(***************************************************************************)
Target64Spec(s, w) ==
    IF s <= 3 THEN ShrBytes(Bytes(8, LAMBDA k : ByteOf(w, k)), 3 - s)
    ELSE IF s >= 11 THEN Zero64
    ELSE ShrBytes(Ones64, s - 3)

Target64AsSpecified == BitsToTarget64(nSize, nWord) = Target64Spec(nSize, nWord)

(***************************************************************************)
(* bits_to_target256 stores only into its 32-byte target array.  About    *)
(* the unchecked offset of lines 726-729.                                  *)
(***************************************************************************)
Target256InBounds == \A st \in Target256Stores(nSize, nWord) : st.at <= 31

(***************************************************************************)
(* Spec sections 4.2, 4.7 and 9: the seed is a function of the epoch alone *)
(* that CPU and GPU compute alike, so that a CPU verifier rebuilds the     *)
(* DAG the GPU searched.  Compares adaptivepow_get_seed with the GPU seed  *)
(* block of adaptivepow_opencl_generate_dag.                               *)
(***************************************************************************)
SeedsAgree == CpuSeed(epoch) = GpuSeed(epoch)
=============================================================================
