--------------------------- MODULE FilterConvert ---------------------------
(***************************************************************************)
(* bpf_convert_filter of src/pcap2bpf/bpf_convert.c: a classic BPF program *)
(* as libpcap compiles it becomes the eBPF body of a stub filter.          *)
(*                                                                         *)
(* Machine words can be scaled down: half a byte has NibbleBits bits, and a *)
(* classic word, which is also the immediate operand of eBPF, has four     *)
(* bytes.                                                                  *)
(*                                                                         *)
(* A classic instruction is [cls, op, src, size, k, jt, jf]; fields that    *)
(* its class does not use are "", 0.  An eBPF instruction is               *)
(* [cls, w, op, dst, src, imm, off]: w is the width of an operation in      *)
(* bits or of a memory access in bytes, src = Imm takes imm as operand.     *)
(* A jump made from a classic one has in `over' how many classic            *)
(* instructions it passes over, until its off is known.                    *)
(***************************************************************************)
EXTENDS Integers, Sequences

CONSTANTS NibbleBits,           \* number of bits of half a byte
          MaxInsns,             \* BPF_MAXINSNS
          OffMin, OffMax        \* SHRT_MIN, SHRT_MAX

ASSUME SizesAssumption ==
  NibbleBits \in Nat \ {0} /\ MaxInsns \in Nat /\ OffMin \in Int /\ OffMax \in Int

Power2(n) == LET power[i \in 0 .. n] == IF i = 0 THEN 1 ELSE 2 * power[i - 1]
             IN  power[n]

\* How many values half a byte, a byte, half a word and a word have.
NibbleMod == Power2(NibbleBits)
ByteMod == NibbleMod * NibbleMod
HalfMod == ByteMod * ByteMod
WordMod == HalfMod * HalfMod

\* Registers.
A == 0
TMP == 2
CTX == 6
X == 7
FP == 10

Imm == -1
Fail == -1              \* an offset still to be patched; no jump goes back
Short == -1             \* of a jump that stays in its block

Op(cls, w, op, dst, src, imm, off) ==
  [cls |-> cls, w |-> w, op |-> op, dst |-> dst, src |-> src, imm |-> imm,
   off |-> off, over |-> Short]
Alu32(op, dst, src, imm)      == Op("alu", 32, op, dst, src, imm, 0)
Alu64(op, dst, src, imm)      == Op("alu", 64, op, dst, src, imm, 0)
Jump(w, op, dst, src, imm, o) == Op("jmp", w, op, dst, src, imm, o)
JumpAlways(off)               == Jump(64, "ja", 0, Imm, 0, off)
Load(size, dst, off)          == Op("ldx", size, "", dst, FP, 0, off)
Store(size, src, off)         == Op("stx", size, "", FP, src, 0, off)
FromBigEndian(dst, size)      == Op("be", size, "", dst, Imm, 0, 0)
CallProbeRead                 == Op("call", 64, "", 0, Imm, 0, 0)
Exit                          == Op("exit", 64, "", 0, Imm, 0, 0)

\* Where the frame holds the packet's bounds, the bytes read, and M[k].
DataAt == -40
DataEndAt == -48
BytesAt == -56
MemAt(k) == -(k * 4 + 64)

EpilogueFail == <<Alu64("mov", A, Imm, 0), Exit>>

-----------------------------------------------------------------------------
(* emit_packet_load: A becomes the `size' bytes at offset k, or X + k, of   *)
(* the packet; the program ends with 0 if they are not all in it.           *)

\* Jumps to Fail go to what follows the sequence.
Patched(seq) ==
  [j \in DOMAIN seq |->
     IF seq[j].off = Fail THEN [seq[j] EXCEPT !.off = Len(seq) - j]
     ELSE seq[j]]

OffsetOf(op, k) ==
  IF op = "ind"
  THEN <<Alu32("mov", 2, X, 0), Alu32("mov", 1, 2, 0), Alu32("add", 2, Imm, k),
         Jump(64, "jlt", 2, 1, 0, Fail)>>
  ELSE <<Alu32("mov", 2, Imm, k)>>

\* Fault: only the first byte is checked to be in the packet.
CheckFirstByte(size) ==
  <<Jump(32, "jslt", 2, Imm, 0, Fail),
    Alu32("mov", 3, 2, 0),
    Load(8, 4, DataAt), Load(8, 5, DataEndAt),
    Jump(64, "jlt", 5, 4, 0, Fail),
    Alu64("sub", 5, 4, 0),
    Jump(64, "jge", 3, 5, 0, Fail)>>

CheckBounds(size) ==
  <<Jump(32, "jslt", 2, Imm, 0, Fail),
    Alu32("mov", 3, 2, 0), Alu32("add", 3, Imm, size),
    Jump(64, "jlt", 3, 2, 0, Fail),
    Load(8, 4, DataAt), Load(8, 5, DataEndAt),
    Jump(64, "jlt", 5, 4, 0, Fail),
    Alu64("sub", 5, 4, 0),
    Jump(64, "jgt", 3, 5, 0, Fail)>>

ReadBytes(size) ==
  <<Alu64("mov", 1, FP, 0), Alu64("add", 1, Imm, BytesAt),
    Alu64("mov", 3, 4, 0), Alu64("add", 3, 2, 0),
    Alu64("mov", 2, Imm, size),
    CallProbeRead,
    Jump(64, "jne", A, Imm, 0, Fail),
    JumpAlways(2)>>

PacketLoad(op, size, k) ==
  Patched(OffsetOf(op, k) \o CheckBounds(size) \o ReadBytes(size))
    \o EpilogueFail
    \o <<Load(size, A, BytesAt)>>
    \o (IF size = 1 THEN <<>> ELSE <<FromBigEndian(A, size)>>)

-----------------------------------------------------------------------------
(* One classic instruction.                                                 *)

\* A zero divisor in X ends the program with 0.
AluBlock(c) ==
  (IF c.op \in {"div", "mod"} /\ c.src = "x"
   THEN <<Alu32("mov", X, X, 0), Jump(64, "jne", X, Imm, 0, 2)>> \o EpilogueFail
   ELSE <<>>)
  \o <<Alu32(c.op, A, IF c.src = "x" THEN X ELSE Imm, c.k)>>

\* Fault: A is kept in a register that the call does not preserve.
MshBlockLosesA(c) ==
  <<Alu64("mov", TMP, A, 0)>>
    \o PacketLoad("abs", 1, c.k)
    \o <<Alu32("and", A, Imm, NibbleMod - 1), Alu32("lsh", A, Imm, 2),
         Alu64("mov", X, A, 0), Alu64("mov", A, TMP, 0)>>

\* X becomes four times the low half of a byte; A is kept in X meanwhile,
\* since the call does not preserve R1 to R5.
MshBlock(c) ==
  <<Alu64("mov", X, A, 0)>>
    \o PacketLoad("abs", 1, c.k)
    \o <<Alu32("and", A, Imm, NibbleMod - 1), Alu32("lsh", A, Imm, 2),
         Alu64("mov", TMP, X, 0), Alu64("mov", X, A, 0),
         Alu64("mov", A, TMP, 0)>>

\* Fault: the classic value is returned as it is.
RetBlockRaw(c) ==
  IF c.src = "k" THEN <<Alu32("mov", A, Imm, c.k), Exit>> ELSE <<Exit>>

\* The stub returns a bool: 0 or 1.
RetBlock(c) ==
  IF c.src = "k"
  THEN <<Alu32("mov", A, Imm, IF c.k # 0 THEN 1 ELSE 0), Exit>>
  ELSE <<Jump(64, "jeq", A, Imm, 0, 2), Alu32("mov", A, Imm, 1), JumpAlways(1),
         Alu32("mov", A, Imm, 0), Exit>>

Opposite == [jeq |-> "jne", jgt |-> "jle", jge |-> "jlt"]

\* Fault: an immediate is always used as one.
NegativeNever(c) == FALSE

\* An eBPF jump extends the sign of its immediate, a classic one does not.
IsNegative(c) == c.src = "k" /\ c.k >= WordMod \div 2

Over(n, op, src, imm) ==
  [Jump(64, op, A, src, imm, 0) EXCEPT !.over = n]

JumpBlock(c) ==
  LET negative == IsNegative(c)
      pre == IF negative THEN <<Alu32("mov", TMP, Imm, c.k)>> ELSE <<>>
      src == IF negative THEN TMP ELSE IF c.src = "x" THEN X ELSE Imm
      Conditional(op, n) ==
        Append(pre, Over(n, op, src, IF negative THEN 0 ELSE c.k))
  IN  IF c.op = "ja" THEN <<Over(c.k, "ja", Imm, 0)>>
      ELSE IF c.jf = 0 THEN Conditional(c.op, c.jt)
      ELSE IF c.jt = 0 /\ c.op # "jset" THEN Conditional(Opposite[c.op], c.jf)
      ELSE Append(Conditional(c.op, c.jt), Over(c.jf, "ja", Imm, 0))

Block(c) ==
  CASE c.cls = "alu" -> AluBlock(c)
    [] c.cls = "ld"  -> PacketLoad(c.op, c.size, c.k)
    [] c.cls = "msh" -> MshBlock(c)
    [] c.cls = "jmp" -> JumpBlock(c)
    [] c.cls = "ret" -> RetBlock(c)
    [] c.cls = "st"  -> <<Store(4, A, MemAt(c.k))>>
    [] c.cls = "stx" -> <<Store(4, X, MemAt(c.k))>>
    [] c.cls = "ldm" -> <<Load(4, A, MemAt(c.k))>>
    [] c.cls = "ldxm" -> <<Load(4, X, MemAt(c.k))>>
    [] c.cls = "ldi" -> <<Alu32("mov", A, Imm, c.k)>>
    [] c.cls = "ldxi" -> <<Alu32("mov", X, Imm, c.k)>>
    [] c.cls = "tax" -> <<Alu64("mov", X, A, 0)>>
    [] c.cls = "txa" -> <<Alu64("mov", A, X, 0)>>

\* Everything else, the packet's length for one, is refused.
Supported(c) ==
  c.cls \in {"alu", "ld", "msh", "jmp", "ret", "st", "stx", "ldm", "ldxm",
             "ldi", "ldxi", "tax", "txa"}

-----------------------------------------------------------------------------
(* The program.                                                             *)

Prologue ==
  <<Store(8, 4, DataAt), Store(8, 5, DataEndAt), Alu64("mov", CTX, 1, 0),
    Alu64("mov", A, Imm, 0), Alu64("mov", X, Imm, 0)>>

\* The positions in a block of the jumps that leave it.
Jumps(block) == {j \in DOMAIN block : block[j].over # Short}

\* addrs: where each block begins.
Addrs(p) ==
  LET at[i \in 1 .. Len(p) + 1] ==
        IF i = 1 THEN Len(Prologue) ELSE at[i - 1] + Len(Block(p[i - 1]))
  IN  at

\* BPF_EMIT_JMP for the j-th instruction of block i: in pass 1, where the
\* addresses of later blocks are still 0, and in pass 2.
Offset1(addrs, i, j) == 0 - addrs[i] - j
Offset2(addrs, i, j, over) == addrs[i + over + 1] - addrs[i] - j

Converts(p) ==
  /\ Len(p) \in 1 .. MaxInsns
  /\ \A i \in DOMAIN p : Supported(p[i])
  /\ LET addrs == Addrs(p)
     IN  \A i \in DOMAIN p :
           LET block == Block(p[i])
           IN  \A j \in Jumps(block) :
                 /\ i + block[j].over + 1 <= Len(p)
                 /\ Offset1(addrs, i, j) >= OffMin
                 /\ Offset2(addrs, i, j, block[j].over) \in OffMin .. OffMax

Convert(p) ==
  LET addrs == Addrs(p)
      \* The j-th instruction of block i, with the offset of its jump.
      Placed(i, j) ==
        LET insn == Block(p[i])[j]
        IN  IF insn.over = Short THEN insn
            ELSE [insn EXCEPT !.off = Offset2(addrs, i, j, insn.over)]
  IN  [n \in 1 .. addrs[Len(p) + 1] |->
         IF n <= Len(Prologue) THEN Prologue[n]
         ELSE LET i == CHOOSE i \in DOMAIN p : addrs[i] < n /\ n <= addrs[i + 1]
              IN  Placed(i, n - addrs[i])]
=============================================================================
