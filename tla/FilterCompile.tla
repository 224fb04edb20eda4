--------------------------- MODULE FilterCompile ---------------------------
(***************************************************************************)
(* From the pcap expression to the two filters: prepare_pcap_filters of     *)
(* src/trace/trace.cpp, compile_ebpf_filter and compile_cbpf_filter of      *)
(* src/pcap2bpf/pcap2bpf.cpp, step by step, with every call that can fail.  *)
(* FilterInject takes this as the one action PrepareFilters.               *)
(*                                                                         *)
(* What libpcap makes of an expression depends on the link type: a classic  *)
(* program, or an error.  What bpf_convert_filter makes of that is          *)
(* FilterConvert's business; here it has a length or is refused.           *)
(***************************************************************************)
EXTENDS Integers

CONSTANTS Lens          \* lengths that a converted filter can have

ASSUME LensAssumption == Lens \subseteq Nat \ {0}

Kinds == {"l2", "l3"}

EFAULT == 14
EINVAL == 22
ENOMEM == 12

VARIABLES pc,           \* the next call
          kind,         \* the link type being compiled
          held,         \* what is allocated: how many of each resource
          err,          \* l2_ret, l3_ret
          insns,        \* l2_insns, l3_insns: [len, text], None while empty
          filter,       \* p->filter_pcap_l2, p->filter_pcap_l3
          status        \* "start", then "walk" (0 returned) or "error"

vars == <<pc, kind, held, err, insns, filter, status>>

Resources == {"pcap", "code", "cbpf", "addrs"}

None == [len |-> 0, text |-> "none"]

Init ==
  /\ pc = "compile" /\ kind = "l2"
  /\ held = [r \in Resources |-> 0]
  /\ err = [k \in Kinds |-> 0]
  /\ insns = [k \in Kinds |-> None]
  /\ filter = [k \in Kinds |-> [len |-> 0, text |-> k]]
  /\ status = "start"

Alloc(r) == held' = [held EXCEPT ![r] = @ + 1]
Freed(rs) == [r \in Resources |-> IF r \in rs THEN held[r] - 1 ELSE held[r]]
Free(rs) == held' = Freed(rs)

\* compile_ebpf_filter returns r: the other link type, or both are done.
Finish(r) ==
  /\ err' = [err EXCEPT ![kind] = r]
  /\ IF kind = "l2" THEN kind' = "l3" /\ pc' = "compile"
                    ELSE kind' = kind /\ pc' = "combine"

-----------------------------------------------------------------------------
(* compile_ebpf_filter and compile_cbpf_filter, for one link type.          *)

MakeConstant(condition) ==
  [len |-> 2, text |-> IF condition THEN "true" ELSE "false"]

\* No expression: everything matches.
EmptyExpression ==
  /\ pc = "compile"
  /\ kind = "l3" => insns["l2"].text = "true"
  /\ insns' = [insns EXCEPT ![kind] = MakeConstant(TRUE)]
  /\ Finish(0)
  /\ UNCHANGED <<held, filter, status>>

OpenPcap ==
  /\ pc = "compile"
  /\ kind = "l3" => insns["l2"].text # "true"
  /\ \/ Alloc("pcap") /\ pc' = "pcap_compile" /\ UNCHANGED <<kind, err>>
     \/ Finish(EFAULT) /\ UNCHANGED held
  /\ UNCHANGED <<insns, filter, status>>

PcapCompile ==
  /\ pc = "pcap_compile"
  /\ \/ Alloc("code") /\ pc' = "copy" /\ UNCHANGED err
     \/ err' = [err EXCEPT ![kind] = EINVAL] /\ pc' = "end" /\ UNCHANGED held
  /\ UNCHANGED <<kind, insns, filter, status>>

\* sf.filter gets a copy of what libpcap allocated.  The test for nullptr that
\* would leave with ENOMEM is dead: this new throws, and nothing catches it.
CopyProgram ==
  /\ pc = "copy"
  /\ Alloc("cbpf")
  /\ pc' = "end"
  /\ UNCHANGED <<kind, err, insns, filter, status>>

\* Fault: what libpcap allocated is freed only when it compiled.
FreePcapOnSuccess == IF err[kind] = 0 THEN {"pcap", "code"} ELSE {}

\* The label end, reached on both ways; pcap_freecode of nothing is allowed.
FreePcap == {"pcap"} \cup {r \in {"code"} : held[r] > 0}

ClosePcap ==
  /\ pc = "end"
  /\ Free(FreePcap)
  /\ IF err[kind] # 0 THEN Finish(err[kind])
     ELSE pc' = "count" /\ UNCHANGED <<kind, err>>
  /\ UNCHANGED <<insns, filter, status>>

\* bpf_convert_filter without a buffer: the length, or an instruction that
\* cannot be converted.
CountInsns ==
  /\ pc = "count"
  /\ \/ pc' = "addrs" /\ UNCHANGED <<kind, held, err>>
     \/ Free({"cbpf"}) /\ Finish(EINVAL)
  /\ UNCHANGED <<insns, filter, status>>

\* The second call needs room for the addresses of the blocks.
AllocAddrs ==
  /\ pc = "addrs"
  /\ \/ Alloc("addrs") /\ pc' = "convert" /\ UNCHANGED <<kind, err>>
     \/ Free({"cbpf"}) /\ Finish(ENOMEM)
  /\ UNCHANGED <<insns, filter, status>>

\* A jump may turn out too long only now.
ConvertInsns ==
  /\ pc = "convert"
  /\ Free({"addrs", "cbpf"})
  /\ \/ \E n \in Lens : insns' = [insns EXCEPT ![kind] = [len |-> n, text |-> kind]]
        /\ Finish(0)
     \/ Finish(EINVAL) /\ UNCHANGED insns
  /\ UNCHANGED <<filter, status>>

-----------------------------------------------------------------------------
(* prepare_pcap_filters.                                                    *)

\* Fault: a link type that does not compile is left with what it has.
ResultUnlessFailed(k) == insns[k]

\* A link type that failed never matches.
Result(k) == IF err[k] # 0 THEN MakeConstant(FALSE) ELSE insns[k]

Combine ==
  /\ pc = "combine"
  /\ pc' = "done"
  /\ IF \A k \in Kinds : err[k] # 0
     THEN status' = "error" /\ UNCHANGED filter
     ELSE status' = "walk" /\ filter' = [k \in Kinds |-> Result(k)]
  /\ UNCHANGED <<kind, held, err, insns>>

Next == \/ EmptyExpression \/ OpenPcap \/ PcapCompile \/ CopyProgram
        \/ ClosePcap \/ CountInsns \/ AllocAddrs \/ ConvertInsns \/ Combine

Spec == Init /\ [][Next]_vars

-----------------------------------------------------------------------------
\* Whichever calls fail, compile_ebpf_filter returns with nothing allocated,
\* and nothing is freed that was not (the label end, delete[], free(addrs)).
NothingLeaks ==
  /\ \A r \in Resources : held[r] \in {0, 1}
  /\ pc \in {"compile", "combine", "done"} => \A r \in Resources : held[r] = 0

\* The filters are what FilterInject assumes: each link type has its own
\* filter or, if that failed, the constant false; if both failed there is
\* none and init fails (prepare_pcap_filters).  A constant true counts as the
\* filter of its link type.
Label(f, k) == IF f.text = "true" THEN [f EXCEPT !.text = k] ELSE f

FI == INSTANCE FilterInject WITH
        Objects <- {[prog |-> <<>>, info |-> <<>>]},
        Kind <- [f \in {} |-> "other"], StubLen <- 2, SizeMod <- 4,
        Lens <- Lens \cup {2},
        prog <- <<>>, funcInfo <- <<>>, next <- 1, offset <- 0,
        filter <- [k \in Kinds |-> Label(filter[k], k)]

PreparesFilters == FI!Init /\ [][FI!PrepareFilters]_(FI!vars)
=============================================================================
