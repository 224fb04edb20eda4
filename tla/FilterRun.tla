------------------------------ MODULE FilterRun ------------------------------
(***************************************************************************)
(* A converted filter at work on a packet, next to the classic program it  *)
(* was made from.                                                          *)
(*                                                                         *)
(* The eBPF machine is the kernel's and its frame is kept byte by byte;    *)
(* the classic machine, as libpcap and the kernel define it, is the        *)
(* reference.  Whenever the eBPF program reaches the first instruction of  *)
(* a block the reference makes one step.  Both are external to src/, which  *)
(* relies on them through the instructions that bpf_convert.c emits.       *)
(***************************************************************************)
EXTENDS FilterConvert

CONSTANTS Programs,     \* classic programs, as sequences of instructions
          Packets,      \* packets, as sequences of bytes
          MemWords,     \* BPF_MEMWORDS, the size of the scratch memory
          PacketAt,     \* where the packet is in the kernel's memory,
          FrameAt,      \* and the frame of the filter
          BitAnd(_, _), BitOr(_, _), BitXor(_, _)       \* on words

WordBits == 8 * NibbleBits
DwMod == WordMod * WordMod

Byte == 0 .. ByteMod - 1
Word == 0 .. WordMod - 1

Scratch == 0 .. MemWords - 1
Frame == -(64 + 4 * MemWords) .. -33

Undef == -1     \* a register or a byte that the verifier lets nobody read

ASSUME BitsAssumption ==
  /\ \A a, b \in Word : {BitAnd(a, b), BitOr(a, b), BitXor(a, b)} \subseteq Word
  /\ \A a \in Word : BitAnd(a, NibbleMod - 1) = a % NibbleMod

ASSUME MemoryAssumption ==
  /\ MemWords \in Nat \ {0}
  /\ PacketAt \in 0 .. DwMod - WordMod
  /\ FrameAt \in 64 + 4 * MemWords .. DwMod - 1

ASSUME PacketsAssumption ==
  \A p \in Packets : p \in Seq(Byte) /\ Len(p) <= WordMod \div 2

-----------------------------------------------------------------------------
(* What libpcap's programs are like: the kernel's check of a classic        *)
(* program, bpf_check_classic, demands the same.                            *)

Insn == [cls : STRING, op : STRING, src : STRING, size : Nat, k : Nat,
         jt : Nat, jf : Nat]

AluOps == {"add", "sub", "mul", "div", "mod", "and", "or", "xor", "lsh", "rsh",
           "neg"}

ShapeOK(c) ==
  /\ c.k \in Word
  /\ c.cls = "alu" => /\ c.op \in AluOps /\ c.src \in {"k", "x"}
                      /\ c.op \in {"div", "mod"} /\ c.src = "k" => c.k # 0
  /\ c.cls = "ld" => c.op \in {"abs", "ind"} /\ c.size \in {1, 2, 4}
  /\ c.cls = "msh" => c.op = "abs" /\ c.size = 1
  /\ c.cls = "jmp" => /\ c.op \in {"ja", "jeq", "jgt", "jge", "jset"}
                      /\ c.src \in {"k", "x"} /\ c.jt \in Nat /\ c.jf \in Nat
  /\ c.cls = "ret" => c.src \in {"k", "a"}
  /\ c.cls \in {"st", "stx", "ldm", "ldxm"} => c.k \in Scratch

\* The instructions that can follow the i-th.
Successors(p, i) ==
  LET c == p[i]
  IN  CASE c.cls = "ret" -> {}
        [] c.cls = "jmp" /\ c.op = "ja" -> {i + 1 + c.k}
        [] c.cls = "jmp" /\ c.op # "ja" -> {i + 1 + c.jt, i + 1 + c.jf}
        [] OTHER -> {i + 1}

Stores(c) == IF c.cls \in {"st", "stx"} THEN {c.k} ELSE {}

\* The scratch words that are stored on every way to an instruction.
StoredBefore(p) ==
  LET stored[i \in DOMAIN p] ==
        {k \in Scratch :
           /\ i # 1
           /\ \A j \in 1 .. i - 1 :
                i \in Successors(p, j) => k \in stored[j] \cup Stores(p[j])}
  IN  stored

\* No word is loaded that a way to the load has not stored.
LoadsStored(p, stored) ==
  /\ stored[1] = {}
  /\ \A i \in DOMAIN p :
       /\ p[i].cls \in {"ldm", "ldxm"} => p[i].k \in stored[i]
       /\ \A j \in Successors(p, i) \cap DOMAIN p :
            stored[j] \subseteq stored[i] \cup Stores(p[i])

ASSUME ProgramsAssumption ==
  \A p \in Programs :
    /\ p \in Seq(Insn) /\ p # <<>>
    /\ p[Len(p)].cls = "ret"
    /\ \A i \in DOMAIN p : ShapeOK(p[i])
    /\ LoadsStored(p, StoredBefore(p))

VARIABLES prog,         \* the classic program
          code,         \* what it was converted to
          pkt,          \* the bytes from data to data_end
          pc,           \* the next eBPF instruction, counted from 0
          reg,          \* R0 to R10
          frame,        \* the bytes of the frame that are used
          addrs,        \* where the block of each classic instruction begins
          faulted,      \* a probe_read failed
          ref,          \* the classic machine: [at, a, x, m, res]
          status        \* "run", "exit", or "rejected" by the conversion

vars == <<prog, code, pkt, pc, reg, frame, addrs, faulted, ref, status>>

-----------------------------------------------------------------------------
(* Arithmetic of words with n bits, 2^n = mod.                              *)

Calc(op, a, b, mod, bits) ==
  CASE op = "mov" -> b
    [] op = "add" -> (a + b) % mod
    [] op = "sub" -> (a - b) % mod
    [] op = "mul" -> (a * b) % mod
    [] op = "div" -> IF b = 0 THEN 0 ELSE a \div b
    [] op = "mod" -> IF b = 0 THEN a ELSE a % b
    [] op = "and" -> BitAnd(a, b)
    [] op = "or"  -> BitOr(a, b)
    [] op = "xor" -> BitXor(a, b)
    [] op = "lsh" -> (a * Power2(b % bits)) % mod
    [] op = "rsh" -> a \div Power2(b % bits)
    [] op = "neg" -> (-a) % mod

Signed(a, mod) == IF a >= mod \div 2 THEN a - mod ELSE a

Compare(op, a, b, mod) ==
  CASE op = "ja"   -> TRUE
    [] op = "jeq"  -> a = b
    [] op = "jne"  -> a # b
    [] op = "jgt"  -> a > b
    [] op = "jge"  -> a >= b
    [] op = "jlt"  -> a < b
    [] op = "jle"  -> a <= b
    [] op = "jset" -> BitAnd(a, b) # 0
    [] op = "jslt" -> Signed(a, mod) < Signed(b, mod)

\* The n bytes of a number, the lowest first.
Bytes2(v) == <<v % ByteMod, v \div ByteMod>>
Bytes4(v) == Bytes2(v % HalfMod) \o Bytes2(v \div HalfMod)
BytesOf(v, n) ==
  CASE n = 1 -> <<v % ByteMod>>
    [] n = 2 -> Bytes2(v % HalfMod)
    [] n = 4 -> Bytes4(v % WordMod)
    [] n = 8 -> Bytes4(v % WordMod) \o Bytes4(v \div WordMod)

\* And back: the value of bytes, the first or the last being the lowest.
Value2(b0, b1) == b0 + ByteMod * b1
Value4(b0, b1, b2, b3) == Value2(b0, b1) + HalfMod * Value2(b2, b3)
LittleEndian(b, n) ==
  CASE n = 1 -> b[1]
    [] n = 2 -> Value2(b[1], b[2])
    [] n = 4 -> Value4(b[1], b[2], b[3], b[4])
    [] n = 8 -> Value4(b[1], b[2], b[3], b[4])
                  + WordMod * Value4(b[5], b[6], b[7], b[8])
BigEndian(b, n) == LittleEndian([j \in 1 .. n |-> b[n + 1 - j]], n)

-----------------------------------------------------------------------------
(* The classic machine.  res is "run" until the program ended.              *)

Ended(r, res) == [r EXCEPT !.res = res]

LoadFrom(r, c) == IF c.op = "ind" THEN r.x + c.k ELSE c.k
InPacket(r, c) == LoadFrom(r, c) + c.size <= Len(pkt)
PacketBytes(r, c) == [j \in 1 .. c.size |-> pkt[LoadFrom(r, c) + j]]

RefStep(r) ==
  LET c == prog[r.at]
      operand == IF c.src = "x" THEN r.x ELSE c.k
      next == [r EXCEPT !.at = @ + 1]
  IN CASE c.cls = "alu" ->
            IF c.op \in {"div", "mod"} /\ operand = 0 THEN Ended(r, "reject")
            ELSE [next EXCEPT !.a = Calc(c.op, r.a, operand, WordMod, WordBits)]
       [] c.cls \in {"ld", "msh"} /\ ~InPacket(r, c) -> Ended(r, "reject")
       [] c.cls = "ld" /\ InPacket(r, c) ->
            [next EXCEPT !.a = BigEndian(PacketBytes(r, c), c.size)]
       [] c.cls = "msh" /\ InPacket(r, c) ->
            [next EXCEPT !.x = (PacketBytes(r, c)[1] % NibbleMod) * 4]
       [] c.cls = "jmp" ->
            LET taken == Compare(c.op, r.a, operand, WordMod)
            IN  [next EXCEPT !.at = @ + (IF c.op = "ja" THEN c.k
                                         ELSE IF taken THEN c.jt ELSE c.jf)]
       [] c.cls = "ret" ->
            LET value == IF c.src = "k" THEN c.k ELSE r.a
            IN  Ended(r, IF value # 0 THEN "accept" ELSE "reject")
       [] c.cls = "st"   -> [next EXCEPT !.m[c.k] = r.a]
       [] c.cls = "stx"  -> [next EXCEPT !.m[c.k] = r.x]
       [] c.cls = "ldm"  -> [next EXCEPT !.a = r.m[c.k]]
       [] c.cls = "ldxm" -> [next EXCEPT !.x = r.m[c.k]]
       [] c.cls = "ldi"  -> [next EXCEPT !.a = c.k]
       [] c.cls = "ldxi" -> [next EXCEPT !.x = c.k]
       [] c.cls = "tax"  -> [next EXCEPT !.x = r.a]
       [] c.cls = "txa"  -> [next EXCEPT !.a = r.x]

-----------------------------------------------------------------------------
(* The eBPF machine.                                                        *)

insn == code[pc + 1]

ModOf(w) == IF w = 32 THEN WordMod ELSE DwMod
BitsOf(w) == IF w = 32 THEN WordBits ELSE 2 * WordBits

\* An immediate has the width of a word; its sign is extended.
Operand == IF insn.src # Imm THEN reg[insn.src] % ModOf(insn.w)
           ELSE Signed(insn.imm % WordMod, WordMod) % ModOf(insn.w)

\* The registers and bytes of the frame that the instruction reads.
RegsRead ==
  CASE insn.cls = "alu"  -> (IF insn.src = Imm THEN {} ELSE {insn.src})
                              \cup (IF insn.op = "mov" THEN {} ELSE {insn.dst})
    [] insn.cls = "jmp"  -> IF insn.op = "ja" THEN {}
                            ELSE {insn.dst} \cup
                                 (IF insn.src = Imm THEN {} ELSE {insn.src})
    [] insn.cls = "stx"  -> {insn.src}
    [] insn.cls = "be"   -> {insn.dst}
    [] insn.cls = "call" -> {1, 2, 3}
    [] insn.cls = "exit" -> {0}
    [] insn.cls = "ldx"  -> {FP}

FrameRead == IF insn.cls = "ldx" THEN insn.off .. insn.off + insn.w - 1 ELSE {}

Defined == /\ \A r \in RegsRead : reg[r] # Undef
           /\ \A s \in FrameRead : s \in Frame /\ frame[s] # Undef

Written(from, bytes) ==
  [s \in Frame |-> IF s - from + 1 \in DOMAIN bytes THEN bytes[s - from + 1]
                   ELSE frame[s]]

\* The reference follows when the program reaches a block.
Reach(to) ==
  /\ pc' = to
  /\ LET follows == RefStep(ref)
     IN  ref' = IF pc < Len(Prologue) \/ follows.res # "run" THEN ref
                ELSE IF \E i \in DOMAIN prog : addrs[i] = to THEN follows ELSE ref
  /\ UNCHANGED <<prog, code, pkt, addrs>>

Running(cls) == status = "run" /\ insn.cls = cls /\ Defined

Init ==
  /\ prog \in Programs
  /\ pkt \in Packets
  /\ code = IF Converts(prog) THEN Convert(prog) ELSE <<>>
  /\ status = IF Converts(prog) THEN "run" ELSE "rejected"
  /\ addrs = IF Converts(prog) THEN Addrs(prog) ELSE <<>>
  /\ pc = 0
  /\ faulted = FALSE
  \* the arguments of filter_pcap_ebpf_l2 and _l3: skb three times, data,
  \* data_end
  /\ reg = [r \in 0 .. 10 |->
              CASE r \in 1 .. 3 -> 1
                [] r = 4 -> PacketAt
                [] r = 5 -> PacketAt + Len(pkt)
                [] r = FP -> FrameAt
                [] OTHER -> Undef]
  /\ frame = [s \in Frame |-> Undef]
  /\ ref = [at |-> 1, a |-> 0, x |-> 0, m |-> [k \in Scratch |-> Undef],
            res |-> "run"]

AluStep ==
  /\ Running("alu")
  /\ reg' = [reg EXCEPT ![insn.dst] =
               Calc(insn.op, @ % ModOf(insn.w), Operand, ModOf(insn.w),
                    BitsOf(insn.w))]
  /\ Reach(pc + 1)
  /\ UNCHANGED <<frame, faulted, status>>

JumpStep ==
  /\ Running("jmp")
  /\ Reach(pc + 1 + (IF Compare(insn.op, reg[insn.dst] % ModOf(insn.w), Operand,
                                ModOf(insn.w))
                     THEN insn.off ELSE 0))
  /\ UNCHANGED <<reg, frame, faulted, status>>

LoadStep ==
  /\ Running("ldx")
  /\ reg' = [reg EXCEPT ![insn.dst] =
               LittleEndian([j \in 1 .. insn.w |-> frame[insn.off + j - 1]], insn.w)]
  /\ Reach(pc + 1)
  /\ UNCHANGED <<frame, faulted, status>>

StoreStep ==
  /\ Running("stx")
  /\ frame' = Written(insn.off, BytesOf(reg[insn.src], insn.w))
  /\ Reach(pc + 1)
  /\ UNCHANGED <<reg, faulted, status>>

EndianStep ==
  /\ Running("be")
  /\ reg' = [reg EXCEPT ![insn.dst] = BigEndian(BytesOf(@, insn.w), insn.w)]
  /\ Reach(pc + 1)
  /\ UNCHANGED <<frame, faulted, status>>

\* probe_read_kernel(R1, R2, R3): R1 to R5 are lost.
AfterCall(result) ==
  reg' = [r \in 0 .. 10 |-> IF r = 0 THEN result
                            ELSE IF r \in 1 .. 5 THEN Undef ELSE reg[r]]

From == reg[3] - PacketAt

ProbeRead ==
  /\ Running("call")
  /\ AfterCall(0)
  /\ frame' = Written(reg[1] - FrameAt,
                [j \in 1 .. reg[2] |->
                   IF From + j \in DOMAIN pkt THEN pkt[From + j] ELSE 0])
  /\ Reach(pc + 1)
  /\ UNCHANGED <<faulted, status>>

\* The page is not there: the destination is cleared.
ProbeReadFaults ==
  /\ Running("call")
  /\ AfterCall(DwMod - 14)
  /\ frame' = Written(reg[1] - FrameAt, [j \in 1 .. reg[2] |-> 0])
  /\ faulted' = TRUE
  /\ Reach(pc + 1)
  /\ UNCHANGED status

ExitStep ==
  /\ Running("exit")
  /\ status' = "exit"
  /\ UNCHANGED <<prog, code, pkt, pc, reg, frame, addrs, faulted, ref>>

Next == \/ AluStep \/ JumpStep \/ LoadStep \/ StoreStep \/ EndianStep
        \/ ProbeRead \/ ProbeReadFaults \/ ExitStep

Spec == Init /\ [][Next]_vars

-----------------------------------------------------------------------------
\* Where a block begins R0 holds A, R7 holds X and the frame holds M exactly
\* as the classic program has them there: every single instruction is
\* converted rightly, whatever it is followed by (bpf_convert_filter).
Simulates ==
  status = "run" /\ (\E i \in DOMAIN prog : pc = addrs[i]) =>
    /\ pc = addrs[ref.at]
    /\ reg[A] = ref.a
    /\ reg[X] = ref.x
    /\ \A k \in Scratch :
         ref.m[k] # Undef =>
           ref.m[k] = LittleEndian([j \in 1 .. 4 |-> frame[MemAt(k) + j - 1]], 4)

\* The filter answers 1 or 0, as the stub's type bool demands, and 1 of
\* exactly the packets that the classic program accepts; when the kernel
\* could not read one of the bytes, it answers 0.
VerdictRight ==
  status = "exit" =>
    reg[A] = IF RefStep(ref).res = "accept" /\ ~faulted THEN 1 ELSE 0

\* Every read is within the packet, however offsets wrap around.
ReadsInPacket ==
  status = "run" /\ insn.cls = "call" =>
    /\ From >= 0
    /\ From + reg[2] <= Len(pkt)

\* The program never reads a register or a byte of its frame before writing
\* it, and never after a call destroyed it, and it ends with an exit: the
\* verifier accepts nothing else.
Verifiable ==
  status = "run" => pc < Len(code) /\ Defined
=============================================================================
