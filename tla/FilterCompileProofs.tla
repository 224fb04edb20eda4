------------------------ MODULE FilterCompileProofs ------------------------
(***************************************************************************)
(* Proofs about FilterCompile: whichever calls fail, nothing that was       *)
(* allocated stays, and the result is what FilterInject begins with.        *)
(*                                                                         *)
(* The argument: what is held is a function of the next call and of the      *)
(* error so far; a link type that is done without an error has a filter.     *)
(***************************************************************************)
EXTENDS FilterCompile, TLAPS

Texts == {"none", "true", "false", "l2", "l3"}

Types ==
  /\ pc \in {"compile", "pcap_compile", "copy", "end", "count", "addrs",
             "convert", "combine", "done"}
  /\ kind \in Kinds
  /\ err \in [Kinds -> {0, EFAULT, EINVAL, ENOMEM}]
  /\ insns \in [Kinds -> [len : Nat, text : Texts]]

\* What is allocated before the next call.
Holds(r) ==
  \/ r = "pcap" /\ pc \in {"pcap_compile", "copy", "end"}
  \/ r = "code" /\ \/ pc = "copy"
                   \/ pc = "end" /\ err[kind] = 0
  \/ r = "cbpf" /\ \/ pc \in {"count", "addrs", "convert"}
                   \/ pc = "end" /\ err[kind] = 0
  \/ r = "addrs" /\ pc = "convert"

Held == held = [r \in Resources |-> IF Holds(r) THEN 1 ELSE 0]

\* Which link types are done.
Progress ==
  /\ pc \notin {"end", "combine", "done"} => err[kind] = 0
  /\ kind = "l2" => err["l3"] = 0
  /\ pc \in {"combine", "done"} => kind = "l3"

Done(k) == (k # kind /\ kind = "l3") \/ pc \in {"combine", "done"}

\* One that is done without an error has its filter.
Compiled ==
  \A k \in Kinds : Done(k) /\ err[k] = 0 =>
    insns[k].text \in {k, "true"} /\ insns[k].len \in Lens \cup {2}

Waiting ==
  /\ pc # "done" <=> status = "start"
  /\ status = "start" => filter = [k \in Kinds |-> [len |-> 0, text |-> k]]

IInv == Types /\ Held /\ Progress /\ Compiled /\ Waiting

-----------------------------------------------------------------------------
LEMMA InitInv == Init => IInv
<1> SUFFICES ASSUME Init PROVE IInv
  OBVIOUS
<1>1. Types
  BY DEF Init, Types, Kinds, None, Texts
<1>2. Held
  BY DEF Init, Held, Holds, Resources
<1>3. Progress /\ Compiled /\ Waiting
  BY DEF Init, Progress, Compiled, Done, Waiting, Kinds
<1> QED
  BY <1>1, <1>2, <1>3 DEF IInv

LEMMA TypesStep ==
  ASSUME Types, [Next]_vars
  PROVE  Types'
<1> USE LensAssumption
        DEF Types, Kinds, Texts, EFAULT, EINVAL, ENOMEM, Finish
<1>1. CASE EmptyExpression
  BY <1>1 DEF EmptyExpression, MakeConstant
<1>2. CASE OpenPcap
  BY <1>2 DEF OpenPcap
<1>3. CASE PcapCompile
  BY <1>3 DEF PcapCompile
<1>4. CASE CopyProgram
  BY <1>4 DEF CopyProgram
<1>5. CASE ClosePcap
  BY <1>5 DEF ClosePcap
<1>6. CASE CountInsns
  BY <1>6 DEF CountInsns
<1>7. CASE AllocAddrs
  BY <1>7 DEF AllocAddrs
<1>8. CASE ConvertInsns
  <2>1. ASSUME NEW n \in Lens
        PROVE  [len |-> n, text |-> kind] \in [len : Nat, text : Texts]
    BY <2>1
  <2> QED
    BY <1>8, <2>1 DEF ConvertInsns
<1>9. CASE Combine
  BY <1>9 DEF Combine
<1>10. CASE UNCHANGED vars
  BY <1>10 DEF vars
<1> QED
  BY <1>1, <1>2, <1>3, <1>4, <1>5, <1>6, <1>7, <1>8, <1>9, <1>10 DEF Next

\* One more of a resource, at most one of which the next call wants.
LEMMA AllocStep ==
  ASSUME Held, NEW r \in Resources, Alloc(r), ~Holds(r), Holds(r)',
         \A s \in Resources \ {r} : Holds(s)' <=> Holds(s)
  PROVE  Held'
<1>1. held' = [s \in Resources |-> IF s = r THEN held[s] + 1 ELSE held[s]]
  BY DEF Alloc, Held
<1>2. ASSUME NEW s \in Resources
      PROVE  held'[s] = IF Holds(s)' THEN 1 ELSE 0
  BY <1>1 DEF Held
<1>3. held' = [s \in Resources |-> held'[s]]
  BY <1>1
<1> QED
  BY <1>2, <1>3 DEF Held

LEMMA HeldStep ==
  ASSUME Types, Held, Progress, [Next]_vars
  PROVE  Held'
<1> USE DEF Types, Kinds, EFAULT, EINVAL, ENOMEM, Held, Holds, Progress,
            Resources, Finish, Alloc, Free, Freed, FreePcap
<1>1. CASE EmptyExpression
  BY <1>1 DEF EmptyExpression
<1>2. CASE OpenPcap
  BY <1>2 DEF OpenPcap
<1>3. CASE PcapCompile
  <2> HIDE DEF Held, Holds, Alloc, Types
  <2>1. pc = "pcap_compile" /\ err[kind] = 0 /\ kind' = kind
    BY <1>3 DEF PcapCompile
  <2>2. CASE pc' = "copy" /\ Alloc("code") /\ err' = err
    BY <2>1, <2>2, AllocStep DEF Holds
  <2>3. CASE pc' = "end" /\ err' = [err EXCEPT ![kind] = EINVAL] /\ held' = held
    <3>1. err'[kind'] # 0
      BY <2>1, <2>3 DEF Types
    <3> QED
      BY <2>1, <2>3, <3>1 DEF Held, Holds
  <2> QED
    BY <1>3, <2>2, <2>3 DEF PcapCompile
<1>4. CASE CopyProgram
  <2> HIDE DEF Held, Alloc
  <2>1. Alloc("cbpf") /\ pc = "copy" /\ pc' = "end" /\ UNCHANGED <<kind, err>>
    BY <1>4 DEF CopyProgram
  <2>2. err[kind] = 0
    BY <2>1
  <2> QED
    BY <2>1, <2>2, AllocStep
<1>5. CASE ClosePcap
  BY <1>5 DEF ClosePcap
<1>6. CASE CountInsns
  BY <1>6 DEF CountInsns
<1>7. CASE AllocAddrs
  BY <1>7 DEF AllocAddrs
<1>8. CASE ConvertInsns
  BY <1>8 DEF ConvertInsns
<1>9. CASE Combine
  BY <1>9 DEF Combine
<1>10. CASE UNCHANGED vars
  BY <1>10 DEF vars
<1> QED
  BY <1>1, <1>2, <1>3, <1>4, <1>5, <1>6, <1>7, <1>8, <1>9, <1>10 DEF Next

LEMMA ProgressStep ==
  ASSUME Types, Progress, [Next]_vars
  PROVE  Progress'
<1> USE DEF Types, Kinds, EFAULT, EINVAL, ENOMEM, Progress, Finish
<1>1. CASE EmptyExpression
  BY <1>1 DEF EmptyExpression
<1>2. CASE OpenPcap
  BY <1>2 DEF OpenPcap
<1>3. CASE PcapCompile
  BY <1>3 DEF PcapCompile
<1>4. CASE CopyProgram
  BY <1>4 DEF CopyProgram
<1>5. CASE ClosePcap
  BY <1>5 DEF ClosePcap
<1>6. CASE CountInsns
  BY <1>6 DEF CountInsns
<1>7. CASE AllocAddrs
  BY <1>7 DEF AllocAddrs
<1>8. CASE ConvertInsns
  BY <1>8 DEF ConvertInsns
<1>9. CASE Combine
  BY <1>9 DEF Combine
<1>10. CASE UNCHANGED vars
  BY <1>10 DEF vars
<1> QED
  BY <1>1, <1>2, <1>3, <1>4, <1>5, <1>6, <1>7, <1>8, <1>9, <1>10 DEF Next

LEMMA CompiledStep ==
  ASSUME Types, Progress, Compiled, [Next]_vars
  PROVE  Compiled'
<1> USE DEF Types, Kinds, EFAULT, EINVAL, ENOMEM, Progress, Compiled, Done,
            Finish
<1>1. CASE EmptyExpression
  BY <1>1 DEF EmptyExpression, MakeConstant
<1>2. CASE OpenPcap
  BY <1>2 DEF OpenPcap
<1>3. CASE PcapCompile
  BY <1>3 DEF PcapCompile
<1>4. CASE CopyProgram
  BY <1>4 DEF CopyProgram
<1>5. CASE ClosePcap
  BY <1>5 DEF ClosePcap
<1>6. CASE CountInsns
  BY <1>6 DEF CountInsns
<1>7. CASE AllocAddrs
  BY <1>7 DEF AllocAddrs
<1>8. CASE ConvertInsns
  BY <1>8 DEF ConvertInsns
<1>9. CASE Combine
  BY <1>9 DEF Combine
<1>10. CASE UNCHANGED vars
  BY <1>10 DEF vars
<1> QED
  BY <1>1, <1>2, <1>3, <1>4, <1>5, <1>6, <1>7, <1>8, <1>9, <1>10 DEF Next

LEMMA WaitingStep ==
  ASSUME Types, Waiting, [Next]_vars
  PROVE  Waiting'
<1>1. CASE Combine
  BY <1>1 DEF Combine, Waiting
<1>2. CASE UNCHANGED vars
  BY <1>2 DEF vars, Waiting
<1>3. CASE ~Combine /\ ~UNCHANGED vars
  BY <1>3 DEF Next, Waiting, Types, Finish, EmptyExpression, OpenPcap,
     PcapCompile, CopyProgram, ClosePcap, CountInsns, AllocAddrs, ConvertInsns
<1> QED
  BY <1>1, <1>2, <1>3

\* The inductive invariant.
THEOREM Invariance == Spec => []IInv
<1>1. IInv /\ [Next]_vars => IInv'
  BY TypesStep, HeldStep, ProgressStep, CompiledStep, WaitingStep DEF IInv
<1> QED
  BY InitInv, <1>1, PTL DEF Spec

\* Whichever calls fail, each resource is allocated once at most and is free
\* again when compile_ebpf_filter returns.
THEOREM Freeing == Spec => []NothingLeaks
<1>1. IInv => NothingLeaks
  BY DEF IInv, Held, Holds, NothingLeaks, Resources
<1> QED
  BY Invariance, <1>1, PTL

-----------------------------------------------------------------------------
\* The abstract filters.
Labelled == [k \in Kinds |-> Label(filter[k], k)]

LEMMA InitRefines == Init => FI!Init
  BY DEF Init, FI!Init, Label, Kinds

\* The choice of PrepareFilters: the length of each filter, 0 for a failure.
Chosen == [k \in Kinds |-> IF err[k] # 0 THEN 0 ELSE insns[k].len]

LEMMA CombineRefines ==
  ASSUME IInv, Combine
  PROVE  FI!PrepareFilters
<1>1. /\ status = "start" /\ pc = "combine"
      /\ filter = [k \in Kinds |-> [len |-> 0, text |-> k]]
  BY DEF Combine, IInv, Waiting
<1>2. \A k \in Kinds : err[k] = 0 =>
        insns[k].text \in {k, "true"} /\ insns[k].len \in Lens \cup {2}
  BY <1>1 DEF IInv, Compiled, Done
<1>3. Chosen \in [{"l2", "l3"} -> (Lens \cup {2}) \cup {0}]
  BY <1>2 DEF Chosen, Kinds
<1>4. \A k \in Kinds : Chosen[k] = 0 <=> err[k] # 0
  BY <1>2, LensAssumption DEF Chosen
<1>5. CASE \A k \in Kinds : err[k] # 0
  <2>1. status' = "error" /\ filter' = filter
    BY <1>5 DEF Combine
  <2>2. Chosen["l2"] = 0 /\ Chosen["l3"] = 0
    BY <1>4, <1>5 DEF Kinds
  <2> QED
    BY <1>1, <1>3, <2>1, <2>2 DEF FI!PrepareFilters
<1>6. CASE ~ \A k \in Kinds : err[k] # 0
  <2>1. status' = "walk" /\ filter' = [k \in Kinds |-> Result(k)]
    BY <1>6 DEF Combine
  <2>2. ~(Chosen["l2"] = 0 /\ Chosen["l3"] = 0)
    BY <1>4, <1>6 DEF Kinds
  <2>3. ASSUME NEW k \in Kinds
        PROVE  Label(Result(k), k) =
                 IF Chosen[k] = 0 THEN [len |-> 2, text |-> "false"]
                 ELSE [len |-> Chosen[k], text |-> k]
    <3>1. CASE err[k] # 0
      BY <1>4, <3>1 DEF Result, Label, MakeConstant
    <3>2. CASE err[k] = 0
      <4>1. Result(k) = insns[k] /\ Chosen[k] = insns[k].len /\ Chosen[k] # 0
        BY <1>4, <3>2 DEF Result, Chosen
      <4>2. insns[k] \in [len : Nat, text : Texts]
        BY DEF IInv, Types
      <4>3. insns[k].text \in {k, "true"}
        BY <1>2, <3>2
      <4> QED
        BY <4>1, <4>2, <4>3 DEF Label
    <3> QED
      BY <3>1, <3>2
  <2>4. \A k \in Kinds : Labelled'[k] = Label(Result(k), k)
    BY <2>1 DEF Labelled, Label
  <2> QED
    BY <1>1, <1>3, <2>1, <2>2, <2>3, <2>4 DEF FI!PrepareFilters, Labelled, Kinds
<1> QED
  BY <1>5, <1>6

\* Every step until Combine is hidden from FilterInject.
LEMMA NextRefines ==
  IInv /\ [Next]_vars => [FI!PrepareFilters]_(FI!vars)
<1> SUFFICES ASSUME IInv, [Next]_vars
             PROVE  FI!PrepareFilters \/ UNCHANGED FI!vars
  OBVIOUS
<1>1. CASE Combine
  BY <1>1, CombineRefines
<1>2. CASE ~Combine
  <2>1. UNCHANGED <<filter, status>>
    BY <1>2 DEF Next, vars, EmptyExpression, OpenPcap, PcapCompile,
       CopyProgram, ClosePcap, CountInsns, AllocAddrs, ConvertInsns
  <2> QED
    BY <2>1 DEF FI!vars, Label
<1> QED
  BY <1>1, <1>2

\* For any lengths: compiling both link types, however it fails, is the step
\* PrepareFilters of FilterInject (prepare_pcap_filters).
THEOREM Preparing == Spec => PreparesFilters
<1> QED
  BY Invariance, InitRefines, NextRefines, PTL DEF Spec, PreparesFilters
=============================================================================
