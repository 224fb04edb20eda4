--------------------------- MODULE StartupProofs ---------------------------
(***************************************************************************)
(* Proofs about Startup: for any kernel, any choice of functions and any    *)
(* room for probes, a probe reads the packet, a function that cannot be     *)
(* attached costs no other, and the destructor leaves nothing.              *)
(*                                                                         *)
(* The argument: the probes in place are the domain of the list of links    *)
(* throughout, and every function requested is attached, still to do, or    *)
(* cannot be; what an instance holds follows from the phase.                *)
(***************************************************************************)
EXTENDS Startup, FiniteSetTheorems, WellFoundedInduction, TLAPS

Before == {"limits", "start", "symdb", "modules", "functions", "trace", "init",
           "list"}
Working == {"attach", "run"}
Ending == {"done", "links", "handler", "skel", "end", "gone", "hung"}

\* What SymdbMgr found takes a packet.
FuncsInv ==
  /\ requested \in Regexes
  /\ btfs \subseteq {"vmlinux"} \cup DOMAIN Loaded
  /\ DOMAIN skbFuncs \subseteq Names
  /\ \A n \in DOMAIN skbFuncs :
       /\ Kernel[n].avail
       /\ \E d \in Kernel[n].defs : IsSkbFunc(d) /\ skbFuncs[n] = ParamPos(d)

\* The probes are those of the links, and none that could be is missing.
LinksInv ==
  /\ probes = DOMAIN links
  /\ DOMAIN links \subseteq DOMAIN skbFuncs \cap requested
  /\ \A n \in DOMAIN links : links[n] = skbFuncs[n] /\ links[n] < NumPrograms
  /\ todo \subseteq (DOMAIN skbFuncs \cap requested) \ probes
  /\ budget \in Budgets \cup {0}
  /\ count \in 0 .. Cardinality(Names)
  /\ phase \in Before => probes = {} /\ count = 0 /\ todo = {}
  /\ phase \in Working =>
       /\ count = Cardinality(probes)
       /\ \A n \in DOMAIN skbFuncs \cap requested :
            Attaches(n) => n \in todo \cup probes
  /\ phase = "run" => todo = {} /\ count # 0

\* What there is of the instance.
InstanceInv ==
  /\ phase \in Before \cup Working \cup Ending
  /\ ret \in {"none", "ok", "error", "abort"}
  /\ trace \in TraceStates /\ asked \subseteq TraceStates
  /\ held \subseteq {"handler", "skel", "rb"}
  /\ phase \in {"limits", "start"} => trace = "none"
  /\ trace = "constructing" => phase \in {"trace", "hung"}
  /\ phase \in {"init", "list", "links", "handler", "skel"} \cup Working
     => trace = "ready"
  /\ trace \in {"none", "constructing"} => held = {} /\ probes = {}
  /\ trace = "ready" => IF phase = "skel" THEN held = {"skel"}
                        ELSE "skel" \in held
  /\ trace = "destroyed" => held = {} /\ probes = {} /\ phase \in {"end", "gone"}
  /\ "rb" \in held => phase = "done"
  /\ "handler" \in held => phase # "skel"
  /\ phase \in {"handler", "skel", "end"} => probes = {}
  /\ phase = "end" => trace = "destroyed"
  /\ phase = "gone" /\ ret # "abort" => trace \in {"none", "destroyed"}
  /\ exiting => trace \in {"ready", "destroyed"}

IInv == FuncsInv /\ LinksInv /\ InstanceInv

-----------------------------------------------------------------------------
\* What get_func_param_pos returns: the first packet among the parameters.
LEMMA ParamPosFirst ==
  ASSUME NEW n \in Names, NEW d \in Kernel[n].defs, IsSkbFunc(d)
  PROVE  /\ ParamPos(d) \in Nat
         /\ ParamPos(d) + 1 \in DOMAIN d.params
         /\ d.params[ParamPos(d) + 1] = "skb"
         /\ \A j \in 1 .. ParamPos(d) : d.params[j] # "skb"
<1> DEFINE D == DOMAIN d.params
           T == {i \in D : d.params[i] = "skb"}
           First(i) == /\ d.params[i] = "skb"
                       /\ \A j \in 1 .. i - 1 : d.params[j] # "skb"
<1>1. D = 1 .. Len(d.params) /\ Len(d.params) \in Nat
  BY KernelAssumption
<1>2. T \subseteq Nat /\ T # {}
  BY <1>1 DEF IsSkbFunc
<1>3. PICK m \in T : \A k \in T : <<k, m>> \notin OpToRel(<, Nat)
  BY <1>2, WFMin, NatLessThanWellFounded, Zenon
<1>4. \A k \in T : ~ (k < m)
  BY <1>2, <1>3 DEF OpToRel
<1>5. m \in D /\ First(m)
  BY <1>1, <1>4
<1> HIDE DEF D
<1>6. \E i \in D : First(i)
  BY <1>5
<1> DEFINE p == CHOOSE i \in D : First(i)
<1>7. p \in D /\ First(p)
  BY <1>6
<1>8. ParamPos(d) = p - 1
  BY DEF ParamPos, D
<1> HIDE DEF p
<1>9. p \in Nat \ {0}
  BY <1>1, <1>7
<1>10. ParamPos(d) \in Nat /\ ParamPos(d) + 1 = p
  BY <1>8, <1>9
<1> QED
  BY <1>7, <1>8, <1>10 DEF D

LEMMA InitInv == Init => IInv
<1> SUFFICES ASSUME Init PROVE IInv
  OBVIOUS
<1>1. FuncsInv
  BY DEF Init, FuncsInv, Empty
<1>2. LinksInv
  <2>1. Cardinality(Names) \in Nat
    BY KernelAssumption, FS_CardinalityType
  <2> QED
    BY <2>1 DEF Init, LinksInv, Empty, Before, Working
<1>3. InstanceInv
  BY DEF Init, InstanceInv, Before, Working, Ending, TraceStates
<1> QED
  BY <1>1, <1>2, <1>3 DEF IInv

-----------------------------------------------------------------------------
LEMMA FuncsStep ==
  ASSUME IInv, [Next]_vars
  PROVE  FuncsInv'
<1>1. CASE LoadKernelBtf \/ LoadModuleBtfs
  BY <1>1 DEF LoadKernelBtf, LoadModuleBtfs, IInv, FuncsInv, LineMatches
<1>2. CASE FindSkbFuncs
  <2> DEFINE named == {n \in Names : Kernel[n].avail /\ SkbDefs(n) # {}}
             Picks(ns) == [ns -> UNION {SkbDefs(n) : n \in ns}]
  <2>1. PICK ns \in {named, {}} :
          \E last \in Picks(ns) :
            /\ \A n \in ns : last[n] \in SkbDefs(n)
            /\ skbFuncs' = [n \in ns |-> ParamPos(last[n])]
    BY <1>2 DEF FindSkbFuncs
  <2>2. PICK last : /\ \A n \in ns : last[n] \in SkbDefs(n)
                    /\ skbFuncs' = [n \in ns |-> ParamPos(last[n])]
    BY <2>1
  <2>3. \A n \in ns : /\ n \in Names /\ Kernel[n].avail
                     /\ last[n] \in Kernel[n].defs /\ IsSkbFunc(last[n])
    BY <2>1, <2>2 DEF SkbDefs
  <2>4. DOMAIN skbFuncs' = ns /\ \A n \in ns : skbFuncs'[n] = ParamPos(last[n])
    BY <2>2
  <2>5. UNCHANGED <<requested, btfs>>
    BY <1>2 DEF FindSkbFuncs
  <2> QED
    BY <2>3, <2>4, <2>5 DEF IInv, FuncsInv
<1>3. CASE UNCHANGED found
  BY <1>3 DEF found, IInv, FuncsInv
<1> QED
  BY <1>1, <1>2, <1>3 DEF Next, Main, Destructor, vars, SetLimits,
     InstallHandlers, GetInstance, Construct, InitTrace, ListSkbFuncs, AttachOne,
     StartTracing, RunTrace, FreeRingBuffer, DestroyLinks, UnregisterHandler,
     DestroySkeleton, EndProcess, Signal

\* A function is attached.
LEMMA AttachStep ==
  ASSUME IInv, NEW n \in todo, phase = "attach", phase' = phase, Attaches(n),
         todo' = Rest(n), probes' = probes \cup {n}, links' = LinksWith(n),
         count' = count + 1, UNCHANGED <<skbFuncs, requested, budget>>
  PROVE  LinksInv'
<1> USE DEF IInv, LinksInv
<1>1. IsFiniteSet(Names) /\ Names \in SUBSET Names /\ probes \subseteq Names
  BY KernelAssumption DEF FuncsInv
<1>2. IsFiniteSet(probes) /\ IsFiniteSet(probes')
  BY <1>1, FS_Subset, FS_AddElement
<1>3. n \in DOMAIN skbFuncs \cap requested /\ n \in Names
  BY DEF FuncsInv
<1>4. DOMAIN links' = probes'
  BY DEF LinksWith
<1>5. \A m \in DOMAIN links' : links'[m] = skbFuncs[m] /\ links'[m] < NumPrograms
  BY DEF LinksWith, Attaches
<1>6. n \notin probes /\ Cardinality(probes') = Cardinality(probes) + 1
  BY <1>2, FS_AddElement
<1>7. Cardinality(probes) \in Nat /\ Cardinality(Names) \in Nat
  BY <1>1, <1>2, FS_CardinalityType
<1>8. Cardinality(probes') <= Cardinality(Names)
  BY <1>1, <1>3, FS_Subset
<1>9. count' = Cardinality(probes') /\ count' \in 0 .. Cardinality(Names)
  BY <1>6, <1>7, <1>8 DEF Working
<1>10. budget \in Nat
  BY ChoicesAssumption
<1>11. \A m \in DOMAIN skbFuncs : Attaches(m)' => Attaches(m)
  BY <1>6, <1>7, <1>10 DEF Attaches
<1>12. \A m \in DOMAIN skbFuncs \cap requested :
         Attaches(m)' => m \in todo' \cup probes'
  BY <1>11 DEF Working, Rest
<1>13. todo' \subseteq (DOMAIN skbFuncs \cap requested) \ probes'
  BY DEF Rest
<1> QED
  BY <1>3, <1>4, <1>5, <1>9, <1>12, <1>13 DEF Before, Working

\* A function that cannot be attached is left out.
LEMMA SkipStep ==
  ASSUME IInv, NEW n \in todo, phase = "attach", phase' = phase, ~Attaches(n),
         todo' = Rest(n),
         UNCHANGED <<probes, links, count, skbFuncs, requested, budget>>
  PROVE  LinksInv'
<1> USE DEF IInv, LinksInv
<1>1. \A m \in DOMAIN skbFuncs : Attaches(m)' <=> Attaches(m)
  BY DEF Attaches
<1>2. \A m \in DOMAIN skbFuncs \cap requested :
        Attaches(m)' => m \in todo' \cup probes'
  BY <1>1 DEF Working, Rest
<1> QED
  BY <1>2 DEF Before, Working, Rest

\* Steps that attach nothing.
LEMMA QuietStep ==
  ASSUME IInv, UNCHANGED <<probes, links, count, todo, budget, skbFuncs,
                           requested>>,
         phase' \in Before => phase \in Before,
         phase' \in Working => phase \in Working,
         phase' = "run" => phase = "run" \/ (todo = {} /\ count # 0)
  PROVE  LinksInv'
<1>1. \A m : Attaches(m)' <=> Attaches(m)
  BY DEF Attaches
<1> QED
  BY <1>1 DEF IInv, LinksInv

LEMMA LinksStep ==
  ASSUME IInv, [Next]_vars
  PROVE  LinksInv'
<1> USE DEF Go, Leave, Abort
<1>1. CASE SetLimits
  BY <1>1 DEF SetLimits, found, IInv, LinksInv, Before, Working
<1>2. CASE InstallHandlers \/ LoadKernelBtf \/ LoadModuleBtfs
  <2>1. /\ UNCHANGED <<probes, links, count, todo, budget, skbFuncs, requested>>
        /\ phase \in Before /\ phase' \in Before \cup {"done"}
    BY <1>2 DEF InstallHandlers, LoadKernelBtf, LoadModuleBtfs, found, attached,
       Before
  <2> QED
    BY <2>1, QuietStep DEF Before, Working
<1>3. CASE FindSkbFuncs
  <2>1. /\ UNCHANGED <<probes, links, count, todo, budget, requested>>
        /\ phase \in Before /\ phase' = "trace"
    BY <1>3 DEF FindSkbFuncs, attached, Before
  <2> QED
    BY <2>1 DEF IInv, LinksInv, Before, Working
<1>4. CASE GetInstance \/ Construct \/ InitTrace
  <2>1. /\ UNCHANGED <<probes, links, count, todo, budget, skbFuncs, requested>>
        /\ phase \in Before /\ phase' \in Before \cup {"done", "gone"}
    BY <1>4 DEF GetInstance, Construct, InitTrace, found, attached, Before
  <2> QED
    BY <2>1, QuietStep DEF Before, Working
<1>5. CASE ListSkbFuncs
  <2>1. /\ UNCHANGED <<probes, links, count, budget, skbFuncs, requested>>
        /\ phase = "list" /\ probes = {} /\ count = 0
    BY <1>5 DEF ListSkbFuncs, found, IInv, LinksInv, Before
  <2>2. CASE todo' = DOMAIN skbFuncs \cap requested /\ phase' = "attach"
    <3>1. Cardinality(probes') = 0
      BY <2>1, FS_EmptySet
    <3> QED
      BY <2>1, <2>2, <3>1 DEF IInv, LinksInv, Before, Working
  <2>3. CASE phase' = "gone" /\ todo' = todo
    BY <2>1, <2>3, QuietStep DEF Before, Working
  <2> QED
    BY <1>5, <2>2, <2>3 DEF ListSkbFuncs
<1>6. CASE AttachOne
  <2>1. PICK n \in todo :
          /\ todo' = Rest(n)
          /\ IF Attaches(n)
             THEN /\ probes' = probes \cup {n}
                  /\ links' = LinksWith(n)
                  /\ count' = count + 1
             ELSE UNCHANGED <<probes, links, count>>
    BY <1>6 DEF AttachOne
  <2>2. phase = "attach" /\ UNCHANGED <<phase, skbFuncs, requested, budget>>
    BY <1>6 DEF AttachOne, found
  <2> QED
    BY <2>1, <2>2, AttachStep, SkipStep
<1>7. CASE StartTracing
  <2>1. /\ UNCHANGED <<probes, links, count, todo, budget, skbFuncs, requested>>
        /\ phase = "attach" /\ todo = {}
        /\ phase' = "done" \/ (phase' = "run" /\ count # 0)
    BY <1>7 DEF StartTracing, found, attached
  <2> QED
    BY <2>1, QuietStep DEF Before, Working
<1>8. CASE \/ RunTrace \/ FreeRingBuffer \/ UnregisterHandler
           \/ DestroySkeleton \/ EndProcess
  <2>1. /\ UNCHANGED <<probes, links, count, todo, budget, skbFuncs, requested>>
        /\ phase' \in Ending
    BY <1>8 DEF RunTrace, FreeRingBuffer, UnregisterHandler, DestroySkeleton,
       EndProcess, found, attached, Ending
  <2> QED
    BY <2>1, QuietStep DEF Before, Working, Ending
<1>9. CASE DestroyLinks
  <2>1. /\ probes' = {} /\ links' = Empty /\ phase' = "handler"
        /\ UNCHANGED <<count, todo, budget, skbFuncs, requested>>
    BY <1>9 DEF DestroyLinks, found, IInv, LinksInv
  <2> QED
    BY <2>1 DEF IInv, LinksInv, Before, Working, Empty
<1>10. CASE Signal
  <2>1. /\ UNCHANGED <<probes, links, count, todo, budget, skbFuncs, requested>>
        /\ phase' \in {phase, "gone", "hung"}
    BY <1>10 DEF Signal, found, attached
  <2> QED
    BY <2>1, QuietStep DEF Before, Working
<1>11. CASE UNCHANGED vars
  BY <1>11, QuietStep DEF vars, attached, found
<1> QED
  BY <1>1, <1>2, <1>3, <1>4, <1>5, <1>6, <1>7, <1>8, <1>9, <1>10, <1>11
  DEF Next, Main, Destructor

-----------------------------------------------------------------------------
LEMMA InstanceStep ==
  ASSUME IInv, [Next]_vars
  PROVE  InstanceInv'
<1> USE DEF IInv, InstanceInv, Before, Working, Ending, Go, Leave, Abort,
            instance, attached, found, stopping, TraceStates
<1>1. CASE SetLimits
  <2>1. /\ phase = "limits" /\ phase' = "start" /\ ret' = ret
        /\ UNCHANGED <<trace, held, probes, exiting, asked>>
    BY <1>1 DEF SetLimits
  <2> QED
    BY <2>1
<1>2. CASE InstallHandlers \/ LoadKernelBtf \/ LoadModuleBtfs \/ FindSkbFuncs
  <2>1. /\ phase \in Before \ {"limits", "trace", "init", "list"}
        /\ phase' \in {"symdb", "modules", "functions", "trace", "done"}
        /\ ret' \in {ret, "error"}
        /\ UNCHANGED <<trace, held, probes, exiting, asked>>
    BY <1>2 DEF InstallHandlers, LoadKernelBtf, LoadModuleBtfs, FindSkbFuncs
  <2> QED
    BY <2>1
<1>3. CASE GetInstance
  BY <1>3 DEF GetInstance, LinksInv
<1>4. CASE Construct
  BY <1>4 DEF Construct
<1>5. CASE InitTrace \/ ListSkbFuncs
  BY <1>5 DEF InitTrace, ListSkbFuncs
<1>6. CASE AttachOne
  BY <1>6 DEF AttachOne
<1>7. CASE StartTracing
  BY <1>7 DEF StartTracing
<1>8. CASE RunTrace
  BY <1>8 DEF RunTrace
<1>9. CASE FreeRingBuffer
  BY <1>9 DEF FreeRingBuffer
<1>10. CASE DestroyLinks
  BY <1>10 DEF DestroyLinks, LinksInv
<1>11. CASE UnregisterHandler
  BY <1>11 DEF UnregisterHandler
<1>12. CASE DestroySkeleton \/ EndProcess
  BY <1>12 DEF DestroySkeleton, EndProcess
<1>13. CASE Signal
  <2>1. /\ probes' = probes /\ phase \notin {"limits", "start", "gone", "hung"}
        /\ asked' \subseteq TraceStates
    BY <1>13 DEF Signal, Asked
  <2>2. CASE trace = "ready" /\ UNCHANGED <<phase, ret, trace, held>>
    BY <2>1, <2>2
  <2>3. CASE /\ trace = "none" /\ trace' = "ready" /\ held' = {"handler", "skel"}
             /\ UNCHANGED <<phase, ret>>
    BY <2>1, <2>3
  <2>4. CASE /\ trace \in {"none", "destroyed"}
             /\ phase' = "gone" /\ ret' = "abort"
             /\ UNCHANGED <<trace, held, exiting>>
    BY <2>1, <2>4
  <2>5. CASE /\ trace = "constructing" /\ phase' = "hung" /\ ret' = ret
             /\ UNCHANGED <<trace, held, exiting>>
    BY <2>1, <2>5
  <2>6. CASE /\ trace = "none" /\ trace' = "constructing"
             /\ phase' = "hung" /\ ret' = ret /\ UNCHANGED <<held, exiting>>
    BY <2>1, <2>6
  <2> QED
    BY <1>13, <2>2, <2>3, <2>4, <2>5, <2>6 DEF Signal
<1>14. CASE UNCHANGED vars
  BY <1>14 DEF vars
<1> QED
  BY <1>1, <1>2, <1>3, <1>4, <1>5, <1>6, <1>7, <1>8, <1>9, <1>10, <1>11,
     <1>12, <1>13, <1>14 DEF Next, Main, Destructor

\* The inductive invariant.
THEOREM Invariance == Spec => []IInv
<1>1. IInv /\ [Next]_vars => IInv'
  BY FuncsStep, LinksStep, InstanceStep DEF IInv
<1> QED
  BY InitInv, <1>1, PTL DEF Spec

-----------------------------------------------------------------------------
\* Every variable of Startup has its type.
THEOREM Typing == Spec => []TypeOK
<1>1. IInv => TypeOK
  BY DEF IInv, FuncsInv, LinksInv, InstanceInv, TypeOK, Before, Working, Ending,
        TraceStates
<1> QED
  BY Invariance, <1>1, PTL

\* A probe reads the first parameter that is a packet, of a function that has the
\* name it is put on, and there is a program for its position (get_func_param_pos, attach_skb_func).
THEOREM ReadsPacket == Spec => []ArgumentRight
<1>1. ASSUME IInv, NEW n \in DOMAIN links
      PROVE  /\ n \in requested /\ Kernel[n].avail
             /\ links[n] \in 0 .. NumPrograms - 1
             /\ \E d \in Kernel[n].defs :
                  /\ links[n] + 1 \in DOMAIN d.params
                  /\ d.params[links[n] + 1] = "skb"
                  /\ \A j \in 1 .. links[n] : d.params[j] # "skb"
  <2>1. /\ n \in Names /\ n \in requested /\ Kernel[n].avail
        /\ links[n] = skbFuncs[n] /\ links[n] < NumPrograms
    BY <1>1 DEF IInv, LinksInv, FuncsInv
  <2>2. PICK d \in Kernel[n].defs : IsSkbFunc(d) /\ links[n] = ParamPos(d)
    BY <1>1, <2>1 DEF IInv, LinksInv, FuncsInv
  <2> QED
    BY <2>1, <2>2, ParamPosFirst DEF NumPrograms
<1>2. IInv => ArgumentRight
  BY <1>1 DEF ArgumentRight
<1> QED
  BY Invariance, <1>2, PTL

\* The loop runs only with a probe, and with one on every function that could
\* be attached, whatever happened to the others (the loop of main).
THEOREM AttachesAll == Spec => []AttachedAll
<1>1. ASSUME IInv, phase = "run" PROVE probes # {}
  BY <1>1, FS_EmptySet DEF IInv, LinksInv, Working
<1>2. IInv => AttachedAll
  BY <1>1 DEF IInv, LinksInv, AttachedAll, Working
<1> QED
  BY Invariance, <1>2, PTL

\* Wherever main ended, ~TraceMgr removes all probes and releases all it has.
THEOREM LeavesNothing == Spec => []NothingLeft
<1>1. IInv => NothingLeft
  BY DEF IInv, InstanceInv, NothingLeft
<1> QED
  BY Invariance, <1>1, PTL

\* Probes and reader are gone before the programs and maps that they use.
THEOREM TakesDownInOrder == Spec => []DependentsFirst
<1>1. IInv => DependentsFirst
  BY DEF IInv, InstanceInv, DependentsFirst, TraceStates
<1> QED
  BY Invariance, <1>1, PTL
=============================================================================
