---------------------------- MODULE MCFilterRun ----------------------------
(* Classic programs for FilterRun: every kind of instruction on operands at *)
(* the limits of a word, jumps of every shape, and programs of the shape    *)
(* that libpcap makes of a protocol and port test.                          *)
EXTENDS FilterRun, Bitwise

C(cls, op, src, size, k, jt, jf) ==
  [cls |-> cls, op |-> op, src |-> src, size |-> size, k |-> k, jt |-> jt,
   jf |-> jf]
Plain(cls, k)      == C(cls, "", "", 0, k, 0, 0)
AluK(op, k)        == C("alu", op, "k", 0, k, 0, 0)
AluX(op)           == C("alu", op, "x", 0, 0, 0, 0)
Ld(op, size, k)    == C("ld", op, "", size, k, 0, 0)
Msh(k)             == C("msh", "abs", "", 1, k, 0, 0)
Jmp(op, src, k, jt, jf) == C("jmp", op, src, 0, k, jt, jf)
Ret(k)             == C("ret", "", "k", 0, k, 0, 0)
RetA               == C("ret", "", "a", 0, 0, 0, 0)

MCNibbleBits == 1
MCMaxInsns == 16
MCOffMin == -32768
MCOffMax == 32767
MCMemWords == 2
MCPacketAt == DwMod \div 4
MCFrameAt == DwMod \div 2
MCBitAnd(a, b) == a & b
MCBitOr(a, b) == a | b
MCBitXor(a, b) == a ^^ b

BinaryOps == {"add", "sub", "mul", "div", "mod", "and", "or", "xor", "lsh",
              "rsh"}

Single ==
  {AluX(op) : op \in BinaryOps}
    \cup {AluK(op, k) : op \in BinaryOps, k \in {3, 7}}
    \cup {AluK(op, 255) : op \in BinaryOps \ {"lsh", "rsh"}}
    \cup {C("alu", "neg", "k", 0, 0, 0, 0)}
    \cup {Ld(op, size, k) : op \in {"abs", "ind"}, size \in {1, 2, 4},
                            k \in {0, 1, 126, 255}}
    \cup {Msh(k) : k \in {0, 3, 200}}
    \cup {Plain(cls, 0) : cls \in {"tax", "txa", "st", "stx", "len"}}

\* One instruction on given operands.
OneByOne == {<<Plain("ldi", a), Plain("ldxi", x), c, Plain("tax", 0), RetA>> :
               a \in {1, 200}, x \in {0, 2, 129}, c \in Single}

\* Conditional jumps, also those to the next instruction.
Branches ==
  {<<Plain("ldi", a), Plain("ldxi", 130), Jmp(op, src, k, jt, jf),
     Ret(0), Ret(128), RetA>> :
     a \in {1, 130, 200}, op \in {"jeq", "jgt", "jge", "jset"},
     src \in {"k", "x"}, k \in {1, 130}, jt \in 0 .. 2, jf \in 0 .. 2}
  \cup {<<Plain("ldi", 0), Jmp("ja", "k", n, 0, 0), Ret(1), RetA, Ret(0)>> :
          n \in 0 .. 4}

\* The frame: M[0] and M[1] survive packet loads and each other.
Memory ==
  {<<Ld("abs", size, 0), Plain("st", 0), Plain("ldxi", 129), Plain("stx", 1),
     Msh(1), Plain(back, 0), Plain("txa", 0), AluK("xor", 5),
     Plain("ldm", 1), AluX("sub"), RetA>> :
     size \in {1, 2, 4}, back \in {"ldm", "ldxm"}}

\* `tcp port n' in small: a type, a protocol, a fragment flag, the length of
\* the IP header, one of two ports.
Ports ==
  {<<Ld("abs", 1, 0), Jmp("jeq", "k", 1, 0, 7),
     Ld("abs", 2, 1), Jmp("jset", "k", 8, 5, 0),
     Msh(0),
     Ld("ind", 1, 255), Jmp("jeq", "k", port, 2, 0),
     Ld("ind", 1, 0), Jmp("jeq", "k", port, 0, 1),
     Ret(255), Ret(0)>> : port \in {0, 3}}
  \cup
  {<<Ld("abs", 1, 0), Jmp("jeq", "k", 1, 0, 5),
     Msh(0),
     Ld("ind", 1, 0), Jmp("jeq", "k", port, 2, 0),
     Ld("ind", 1, 1), Jmp("jeq", "k", port, 0, 1),
     Ret(255), Ret(0)>> : port \in {0, 3}}

MCPrograms == OneByOne \cup Branches \cup Memory \cup Ports

MCPackets == {<<>>, <<3>>, <<1, 2>>, <<1, 0, 3, 2>>, <<1, 3, 0, 1, 3, 2>>}
=============================================================================
