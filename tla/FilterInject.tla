---------------------------- MODULE FilterInject ----------------------------
(***************************************************************************)
(* Replacing the stub filters of a BPF program before it is loaded:        *)
(* prepare_pcap_filters and custom_prepare_load_skbtracer_prog of           *)
(* src/trace/trace.cpp, inject_ebpf_filter of src/pcap2bpf/pcap2bpf.cpp.    *)
(*                                                                         *)
(* A kprobe program comes from libbpf as one sequence of instructions: the *)
(* body of the program itself and, behind it, those of its subprograms,    *)
(* among them the stubs filter_pcap_ebpf_l2 and _l3.  func_info says where  *)
(* each body begins.  The injection cuts a stub out, puts a filter of       *)
(* another length in, and must correct every relative call that crosses    *)
(* the cut.                                                                *)
(*                                                                         *)
(* An instruction is abstracted to what the injection looks at (call, imm) *)
(* and to what the properties tell apart, which the code never sees:       *)
(*   fn, at, of  it is instruction `at', counted from 0, of the `of'        *)
(*               instructions of function fn                               *)
(*   callee      the function that the call is meant for                   *)
(*   text        "program", or the filter that it belongs to               *)
(* Positions are counted from 0 as in the code.                            *)
(***************************************************************************)
EXTENDS Integers, Sequences

CONSTANTS Objects,      \* programs as libbpf hands them over: [prog, info]
          Kind,         \* what each function is: "l2", "l3" or "other"
          StubLen,      \* STUB_ORIG_LEN
          Lens,         \* lengths that a filter can have
          SizeMod       \* 2 to the width of size_t

Functions == DOMAIN Kind

Insn == [call : BOOLEAN, imm : Int, fn : Functions, at : Nat, of : Nat,
         callee : Functions, text : {"program", "l2", "l3", "false"}]

IsStub(f) == Kind[f] # "other"

VARIABLES prog,         \* the instructions, bpf_program__insns
          funcInfo,     \* opts->func_info: [fn, off], empty when dropped
          filter,       \* p->filter_pcap_l2, p->filter_pcap_l3: [len, text]
          next,         \* i of the loop over func_info, counted from 1
          offset,       \* how far the program has grown
          status        \* "start", "walk", then "ok" or "error"

vars == <<prog, funcInfo, filter, next, offset, status>>

\* The instruction at position i, counted from 0.
At(p, i) == p[i + 1]

\* Position of the instruction a call at position i goes to.
Target(i, insn) == i + insn.imm + 1

-----------------------------------------------------------------------------
(* What libbpf guarantees of the programs it hands over.                    *)

\* Every call goes to the first instruction of the function it means, and
\* never to the program's own beginning: a kprobe program is not called.
Resolved(p) ==
  \A i \in 0 .. Len(p) - 1 :
    At(p, i).call =>
      LET t == Target(i, At(p, i))
      IN  /\ t \in 1 .. Len(p) - 1
          /\ At(p, t).fn = At(p, i).callee
          /\ At(p, t).at = 0

\* Each body is in one piece: an instruction that is not the last of its
\* function is followed by the next one, one that is not the first follows it.
Whole(p) ==
  \A i \in 0 .. Len(p) - 1 :
    LET b == At(p, i)
        Beside(d) == /\ i + d \in 0 .. Len(p) - 1
                     /\ At(p, i + d).fn = b.fn
                     /\ At(p, i + d).at = b.at + d
                     /\ At(p, i + d).of = b.of
                     /\ At(p, i + d).text = b.text
    IN  /\ b.at < b.of
        /\ b.at + 1 < b.of => Beside(1)
        /\ b.at > 0 => Beside(-1)

\* The stub of function fn, all of it, is at position i and nowhere else:
\* the compiler made STUB_ORIG_LEN instructions of it, and one copy.
StubAt(p, fn, i) ==
  /\ i >= 1 /\ i + StubLen <= Len(p)
  /\ \A d \in 0 .. StubLen - 1 :
       /\ At(p, i + d).fn = fn
       /\ At(p, i + d).at = d
       /\ At(p, i + d).of = StubLen
       /\ At(p, i + d).text = "program"
  /\ \A j \in 0 .. Len(p) - 1 :
       At(p, j).fn = fn => j \in i .. i + StubLen - 1

FuncInfoType == [fn : Functions, off : Nat]

WellFormed(o) ==
  /\ o.prog \in Seq(Insn)
  /\ o.info \in Seq(FuncInfoType)
  /\ Len(o.prog) < SizeMod
  /\ Resolved(o.prog)
  /\ Whole(o.prog)
  /\ \A i \in DOMAIN o.prog : o.prog[i].text = "program"
  \* func_info is sorted, and names every stub that is there, at its place
  /\ \A j, k \in DOMAIN o.info : j < k => o.info[j].off < o.info[k].off
  /\ \A j \in DOMAIN o.info :
       IsStub(o.info[j].fn) => StubAt(o.prog, o.info[j].fn, o.info[j].off)
  /\ \A i \in DOMAIN o.prog :
       IsStub(o.prog[i].fn) =>
         \E j \in DOMAIN o.info : o.info[j].fn = o.prog[i].fn

ASSUME KindAssumption == Kind \in [Functions -> {"l2", "l3", "other"}]
ASSUME StubLenAssumption == StubLen \in Nat /\ StubLen >= 2
ASSUME LensAssumption == Lens \subseteq Nat \ {0}
ASSUME SizeModAssumption == SizeMod \in Nat
ASSUME ObjectsAssumption == \A o \in Objects : WellFormed(o)

-----------------------------------------------------------------------------
(* inject_ebpf_filter(prog, position, StubLen, insns).                      *)

\* An int converted to size_t, for values the code can meet.
SizeT(n) == IF n < 0 THEN n + SizeMod ELSE n

\* Filter f in the place of function fn: as code, it has no subprogram call.
FilterBody(f, fn) ==
  [k \in 1 .. f.len |->
     [call |-> FALSE, imm |-> 0, fn |-> fn, at |-> k - 1, of |-> f.len,
      callee |-> fn, text |-> f.text]]

Delta(f) == f.len - StubLen

\* Fault: a call to what follows the stub directly is not seen to cross it.
CrossesForwardLate(i, insn, position) ==
  insn.call /\ SizeT(i + insn.imm) > position + StubLen

\* Before position: a call beyond it has the change between it and its target.
CrossesForward(i, insn, position) ==
  insn.call /\ SizeT(i + insn.imm) > position

\* After the stub: so has a call back to position or before it.
CrossesBackward(i, insn, position) ==
  insn.call /\ SizeT(i + insn.imm) < position

Patched(insn, d) == [insn EXCEPT !.imm = @ + d]

Injected(p, position, f, fn) ==
  LET before == [j \in 1 .. position |->
        IF CrossesForward(j - 1, p[j], position)
        THEN Patched(p[j], Delta(f)) ELSE p[j]]
      after == [j \in 1 .. Len(p) - position - StubLen |->
        LET i == position + StubLen + j - 1
        IN  IF CrossesBackward(i, At(p, i), position)
            THEN Patched(At(p, i), 0 - Delta(f)) ELSE At(p, i)]
  IN  before \o FilterBody(f, fn) \o after

-----------------------------------------------------------------------------
Init ==
  /\ \E o \in Objects : prog = o.prog /\ funcInfo = o.info
  /\ filter = [k \in {"l2", "l3"} |-> [len |-> 0, text |-> k]]
  /\ next = 1
  /\ offset = 0
  /\ status = "start"

\* prepare_pcap_filters: the expression is compiled for Ethernet and for raw
\* IP.  If one of them fails (0), that kind of packet never matches: its
\* filter is the constant false, two instructions.  If both fail, so does
\* init.
PrepareFilters ==
  /\ status = "start"
  /\ \E n \in [{"l2", "l3"} -> Lens \cup {0}] :
       IF n["l2"] = 0 /\ n["l3"] = 0
       THEN status' = "error" /\ UNCHANGED filter
       ELSE /\ filter' = [k \in {"l2", "l3"} |->
                            IF n[k] = 0 THEN [len |-> 2, text |-> "false"]
                            ELSE [len |-> n[k], text |-> k]]
            /\ status' = "walk"
  /\ UNCHANGED <<prog, funcInfo, next, offset>>

Entry == funcInfo[next]

\* Fault: the L2 filter for both stubs.
FilterForL2(fn) == filter["l2"]

\* The digit behind the prefix of the function's name.
FilterFor(fn) == filter[Kind[fn]]

\* Not a function, or not one of the stubs: continue.
SkipFunction ==
  /\ status = "walk"
  /\ next <= Len(funcInfo)
  /\ ~IsStub(Entry.fn)
  /\ next' = next + 1
  /\ UNCHANGED <<prog, funcInfo, filter, offset, status>>

\* Fault: positions are taken from func_info as it was at the start.
AdvanceNot(f) == offset

\* offset after a filter f was injected.
Advance(f) == offset + Delta(f)

\* bpf_program__set_insns may have no memory: the program stays, the load
\* fails.
InjectFilter ==
  /\ status = "walk"
  /\ next <= Len(funcInfo)
  /\ IsStub(Entry.fn)
  /\ LET position == Entry.off + offset
         f == FilterFor(Entry.fn)
     IN  IF position + StubLen > Len(prog)
         THEN status' = "error" /\ UNCHANGED <<prog, next, offset>>
         ELSE \/ /\ prog' = Injected(prog, position, f, Entry.fn)
                 /\ offset' = Advance(f)
                 /\ next' = next + 1
                 /\ UNCHANGED status
              \/ status' = "error" /\ UNCHANGED <<prog, next, offset>>
  /\ UNCHANGED <<funcInfo, filter>>

\* func_info and line_info no longer describe the program: they are dropped.
Finish ==
  /\ status = "walk"
  /\ next > Len(funcInfo)
  /\ funcInfo' = <<>>
  /\ status' = "ok"
  /\ UNCHANGED <<prog, filter, next, offset>>

Next == PrepareFilters \/ SkipFunction \/ InjectFilter \/ Finish

Spec == Init /\ [][Next]_vars

-----------------------------------------------------------------------------
FilterType == [{"l2", "l3"} -> [len : Nat, text : {"l2", "l3", "false"}]]

TypeOK ==
  /\ prog \in Seq(Insn)
  /\ funcInfo \in Seq(FuncInfoType)
  /\ filter \in FilterType
  /\ next \in Nat \ {0}
  /\ offset \in Int
  /\ status \in {"start", "walk", "ok", "error"}

\* After every injection each call still goes to the first instruction of
\* the function it was compiled for, wherever caller and callee lie relative
\* to the stub and whether the filter is longer or shorter than it
\* (inject_ebpf_filter, steps 1 and 3).
CallsResolved == Resolved(prog)

\* No injection cuts into another function or tears one apart: the running
\* offset stays right over several injections (current_pos).
BodiesWhole == Whole(prog)

\* A program that goes on to be loaded has no stub left: where the L2 stub
\* was there is the L2 filter, where the L3 stub was the L3 filter, each from
\* its first instruction to its last, or the constant false.
FiltersInstalled ==
  status = "ok" =>
    \A i \in DOMAIN prog :
      IsStub(prog[i].fn) =>
        /\ prog[i].text = FilterFor(prog[i].fn).text
        /\ prog[i].text \in {Kind[prog[i].fn], "false"}
        /\ prog[i].of = FilterFor(prog[i].fn).len
=============================================================================
