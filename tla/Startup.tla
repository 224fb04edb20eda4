------------------------------ MODULE Startup ------------------------------
(***************************************************************************)
(* The life of the process: SymdbMgr finds the kernel functions that take   *)
(* an sk_buff (src/symdb/symdb.cpp), TraceMgr attaches a kprobe program to  *)
(* each, runs, and is taken down after main (src/trace/trace.cpp), and a    *)
(* signal may come at any time after main installed its handlers           *)
(* (src/app/main.cpp).  Before that main has read its options (Options).    *)
(*                                                                         *)
(* What TraceMgr::run does in its loop is in Capture; here it makes a ring   *)
(* buffer reader, observes `exiting', and ends.                            *)
(***************************************************************************)
EXTENDS Naturals, Sequences, FiniteSets

CONSTANTS
  Kernel,       \* its functions: name |-> [defs, avail], where avail says
                \* whether available_filter_functions lists the name, and defs
                \* are the functions [mod, params] that have it; params is a
                \* sequence of "skb" and "other"
  Loaded,       \* /proc/modules: module name |-> number of fields of its line
  WithBtf,      \* the modules whose BTF can be loaded
  Unattachable, \* functions on which the kernel refuses a kprobe
  Budgets,      \* how many probes the limit of open files may leave room for
  Regexes       \* what --filter-func may select: sets of names of functions;
                \* without the option, all of them

Names == DOMAIN Kernel

ASSUME KernelAssumption ==
  /\ IsFiniteSet(Names)
  /\ \A n \in Names : \A d \in Kernel[n].defs : d.params \in Seq({"skb", "other"})

ASSUME ChoicesAssumption == Regexes \subseteq SUBSET Names /\ Budgets \subseteq Nat

NumPrograms == 5        \* kprobe_skb_1 to kprobe_skb_5

VARIABLES phase,        \* where main is, and then the destructor
          budget,       \* probes that the limit of open files has room for
          requested,    \* the functions in whose name the regex is found
          btfs,         \* btf_list: "vmlinux" and modules
          skbFuncs,     \* skb_func_list: name |-> skb_pos
          todo,         \* functions of skb_func_list still to attach
          links,        \* link_mapping_list: name |-> position of its program
          count,        \* attached_count
          probes,       \* functions that have a probe in the kernel
          trace,        \* TraceMgr::getInstance: "none", "constructing", "ready",
                        \* "destroyed"
          held,         \* what it holds of "handler", "skel" and "rb"
          exiting,      \* p->exiting
          asked,        \* what trace was when signals came
          ret           \* main's result: "none", "ok", "error", "abort"

found == <<requested, btfs, skbFuncs>>
attached == <<budget, todo, links, count, probes>>
instance == <<trace, held>>
stopping == <<exiting, asked>>
vars == <<phase, found, attached, instance, stopping, ret>>

TraceStates == {"none", "constructing", "ready", "destroyed"}

TypeOK ==
  /\ phase \in {"limits", "start", "symdb", "modules", "functions", "trace",
                "init", "list", "attach", "run", "done", "links", "handler",
                "skel", "end", "gone", "hung"}
  /\ requested \in Regexes
  /\ btfs \subseteq {"vmlinux"} \cup DOMAIN Loaded
  /\ todo \subseteq DOMAIN skbFuncs
  /\ DOMAIN skbFuncs \subseteq Names /\ DOMAIN links \subseteq DOMAIN skbFuncs
  /\ count \in 0 .. Cardinality(Names)
  /\ budget \in Budgets \cup {0}
  /\ probes \subseteq Names
  /\ trace \in TraceStates /\ asked \subseteq TraceStates
  /\ held \subseteq {"handler", "skel", "rb"}
  /\ exiting => trace \in {"ready", "destroyed"}
  /\ ret \in {"none", "ok", "error", "abort"}

Empty == [n \in {} |-> 0]

Init ==
  /\ phase = "limits"
  /\ requested \in Regexes
  /\ btfs = {}
  /\ skbFuncs = Empty
  /\ todo = {}
  /\ links = Empty
  /\ count = 0
  /\ budget = 0 /\ probes = {}
  /\ trace = "none" /\ held = {}
  /\ exiting = FALSE /\ asked = {}
  /\ ret = "none"

Go(next) == phase' = next /\ UNCHANGED ret

\* main returns, or an exception that nothing catches ends the process.
Leave(result) == phase' = "done" /\ ret' = result
Abort == phase' = "gone" /\ ret' = "abort"

\* enforce_infinite_rlimit: nothing looks at what setrlimit returns.
SetLimits ==
  /\ phase = "limits"
  /\ budget' \in Budgets
  /\ Go("start")
  /\ UNCHANGED <<found, todo, links, count, probes, instance, stopping>>

InstallHandlers ==
  /\ phase = "start"
  /\ Go("symdb")
  /\ UNCHANGED <<found, attached, instance, stopping>>

-----------------------------------------------------------------------------
(* SymdbMgr::init.                                                          *)

\* BTF of the kernel itself and the symbol table, or no tracing.
LoadKernelBtf ==
  /\ phase = "symdb"
  /\ \/ Go("modules") /\ btfs' = {"vmlinux"}
     \/ Leave("error") /\ btfs' \in {{}, {"vmlinux"}}
  /\ UNCHANGED <<requested, skbFuncs, attached, instance, stopping>>

\* A line of /proc/modules is used if all of it is a name and one more field.
LineMatches(m) == Loaded[m] = 2

\* load_all_kmod_btfs; its result is not looked at.
LoadModuleBtfs ==
  /\ phase = "modules"
  /\ btfs' = btfs \cup {m \in DOMAIN Loaded : LineMatches(m) /\ m \in WithBtf}
  /\ Go("functions")
  /\ UNCHANGED <<requested, skbFuncs, attached, instance, stopping>>

IsSkbFunc(d) == \E i \in DOMAIN d.params : d.params[i] = "skb"

\* Fault: parameters are counted from 1.
ParamPosFromOne(d) ==
  CHOOSE i \in DOMAIN d.params :
    /\ d.params[i] = "skb"
    /\ \A j \in 1 .. i - 1 : d.params[j] # "skb"

\* get_func_param_pos: the first parameter that is a pointer to sk_buff,
\* counted from 0.
ParamPos(d) ==
  (CHOOSE i \in DOMAIN d.params :
     /\ d.params[i] = "skb"
     /\ \A j \in 1 .. i - 1 : d.params[j] # "skb") - 1

\* The functions of this name that the loaded BTFs have and that take a packet.
SkbDefs(n) ==
  {d \in Kernel[n].defs : d.mod \in btfs /\ IsSkbFunc(d)}

\* get_skb_func_from_btfs; nothing is found if tracefs cannot be read.  Of
\* several functions of one name the one that comes last stays in the map.
FindSkbFuncs ==
  /\ phase = "functions"
  /\ LET named == {n \in Names : Kernel[n].avail /\ SkbDefs(n) # {}}
     IN  \E ns \in {named, {}} :
           \E last \in [ns -> UNION {SkbDefs(n) : n \in ns}] :
             /\ \A n \in ns : last[n] \in SkbDefs(n)
             /\ skbFuncs' = [n \in ns |-> ParamPos(last[n])]
  /\ Go("trace")
  /\ UNCHANGED <<requested, btfs, attached, instance, stopping>>

-----------------------------------------------------------------------------
(* TraceMgr.                                                                *)

\* getInstance: the constructor runs, unless a signal handler ran it before.
GetInstance ==
  /\ phase = "trace"
  /\ trace # "constructing"
  /\ IF trace = "ready" THEN Go("init") /\ UNCHANGED trace
     ELSE trace' = "constructing" /\ UNCHANGED <<phase, ret>>
  /\ UNCHANGED <<found, attached, held, stopping>>

\* It registers a handler and opens the skeleton, or throws.
Construct ==
  /\ phase = "trace" /\ trace = "constructing"
  /\ \/ trace' = "ready" /\ held' = {"handler", "skel"} /\ Go("init")
     \/ trace' = "none" /\ Abort /\ UNCHANGED held
  /\ UNCHANGED <<found, attached, stopping>>

\* TraceMgr::init: prepare_pcap_filters, load, and attach of what attaches
\* itself (nothing); then Output::init.
InitTrace ==
  /\ phase = "init"
  /\ Go("list") \/ Leave("error")
  /\ UNCHANGED <<found, attached, instance, stopping>>

\* get_skb_func_list; a pattern that is no regular expression throws.
ListSkbFuncs ==
  /\ phase = "list"
  /\ \/ todo' = DOMAIN skbFuncs \cap requested /\ Go("attach")
     \/ requested # Names /\ Abort /\ UNCHANGED todo
  /\ UNCHANGED <<found, budget, links, count, probes, instance, stopping>>

\* attach_skb_func: there is a program for each of the first five positions,
\* the kernel lets the function be probed, and a file can still be opened.
Attaches(n) ==
  /\ skbFuncs[n] < NumPrograms
  /\ n \notin Unattachable
  /\ Cardinality(probes) < budget

\* Fault: the first failure ends the loop.
RestUnlessFailed(n) == IF Attaches(n) THEN todo \ {n} ELSE {}

Rest(n) == todo \ {n}

\* Fault: links are kept by their program, and emplace does not replace.
LinksByProgram(n) ==
  IF \E m \in DOMAIN links : links[m] = skbFuncs[n] THEN links
  ELSE [m \in DOMAIN links \cup {n} |-> skbFuncs[m]]

LinksWith(n) == [m \in DOMAIN links \cup {n} |-> skbFuncs[m]]

AttachOne ==
  /\ phase = "attach"
  /\ \E n \in todo :
       /\ todo' = Rest(n)
       /\ IF Attaches(n)
          THEN /\ probes' = probes \cup {n}
               /\ links' = LinksWith(n)
               /\ count' = count + 1
          ELSE UNCHANGED <<probes, links, count>>
  /\ UNCHANGED <<phase, budget, found, instance, stopping, ret>>

\* -ENOENT when nothing was attached; else the header, the callback, run.
StartTracing ==
  /\ phase = "attach" /\ todo = {}
  /\ IF count = 0 THEN Leave("error") ELSE Go("run")
  /\ UNCHANGED <<found, attached, instance, stopping>>

\* Fault: run begins with exiting = false.
RunClearsExiting ==
  /\ phase = "run"
  /\ \/ exiting' = FALSE /\ UNCHANGED <<phase, ret, held>>
     \/ Leave("error") /\ UNCHANGED <<exiting, held>>
  /\ UNCHANGED <<found, attached, trace, asked>>

\* ring_buffer__new opens a file, too, and may fail; the loop is in Capture.
RunTrace ==
  /\ phase = "run"
  /\ \/ /\ Cardinality(probes) < budget
        /\ held' = held \cup {"rb"}
        /\ (exiting /\ Leave("ok")) \/ Leave("error")
     \/ Leave("error") /\ UNCHANGED held
  /\ UNCHANGED <<found, attached, trace, stopping>>

-----------------------------------------------------------------------------
(* TraceMgr::~TraceMgr, which the end of the process calls for an instance   *)
(* that was constructed.                                                    *)

\* Fault: the reader is left to the end of the process.
FreeRingBufferNot ==
  /\ phase = "done"
  /\ Go(IF trace = "ready" THEN "links" ELSE "gone")
  /\ UNCHANGED <<found, attached, instance, stopping>>

FreeRingBuffer ==
  /\ phase = "done"
  /\ Go(IF trace = "ready" THEN "links" ELSE "gone")
  /\ held' = held \ {"rb"}
  /\ UNCHANGED <<found, attached, trace, stopping>>

DestroyLinks ==
  /\ phase = "links"
  /\ probes' = probes \ DOMAIN links
  /\ links' = Empty
  /\ Go("handler")
  /\ UNCHANGED <<found, budget, todo, count, instance, stopping>>

UnregisterHandler ==
  /\ phase = "handler"
  /\ held' = held \ {"handler"}
  /\ Go("skel")
  /\ UNCHANGED <<found, attached, trace, stopping>>

\* The skeleton with its programs and maps goes, and then p itself.
DestroySkeleton ==
  /\ phase = "skel"
  /\ held' = held \ {"skel"}
  /\ trace' = "destroyed"
  /\ Go("end")
  /\ UNCHANGED <<found, attached, stopping>>

\* What else the process has to take down.
EndProcess ==
  /\ phase = "end"
  /\ Go("gone")
  /\ UNCHANGED <<found, attached, instance, stopping>>

-----------------------------------------------------------------------------
\* Fault: the handler sets the flag of an instance that may not exist yet.
SignalNoInstance ==
  /\ phase \notin {"limits", "start", "gone", "hung"}
  /\ exiting' = TRUE /\ asked' = asked \cup {trace}
  /\ UNCHANGED <<phase, ret, found, attached, instance>>

Asked(states) == asked' = asked \cup states

\* sig_handler: TraceMgr::getInstance().stop().  Before main needs the
\* instance, it is constructed in the handler, where an exception ends the
\* process.  A signal that interrupts the constructor, in main or in the handler
\* of the other signal, enters it again, which is undefined; libstdc++ waits
\* for the thread it interrupted.  One that comes when p is deleted writes to
\* freed memory: nothing happens, or the process ends for it.
Signal ==
  /\ phase \notin {"limits", "start", "gone", "hung"}
  /\ \/ /\ trace = "ready"
        /\ exiting' = TRUE /\ Asked({"ready"})
        /\ UNCHANGED <<phase, ret, instance>>
     \/ /\ trace = "none"
        /\ trace' = "ready" /\ held' = {"handler", "skel"}
        /\ exiting' = TRUE /\ Asked({"none"})
        /\ UNCHANGED <<phase, ret>>
     \/ /\ trace = "none"
        /\ trace' = "constructing" /\ Go("hung")
        /\ Asked({"none", "constructing"})
        /\ UNCHANGED <<held, exiting>>
     \/ /\ trace \in {"none", "destroyed"}
        /\ Abort /\ Asked({trace})
        /\ UNCHANGED <<instance, exiting>>
     \/ /\ trace = "constructing"
        /\ Go("hung") /\ Asked({"constructing"})
        /\ UNCHANGED <<instance, exiting>>
  /\ UNCHANGED <<found, attached>>

Main == \/ SetLimits \/ InstallHandlers \/ LoadKernelBtf \/ LoadModuleBtfs
        \/ FindSkbFuncs \/ GetInstance \/ Construct \/ InitTrace \/ ListSkbFuncs
        \/ AttachOne \/ StartTracing \/ RunTrace

Destructor == \/ FreeRingBuffer \/ DestroyLinks \/ UnregisterHandler
              \/ DestroySkeleton \/ EndProcess

Next == Main \/ Destructor \/ Signal

\* main's thread runs; RunTrace alone may wait for a signal.
Spec == Init /\ [][Next]_vars
FairSpec ==
  Spec /\ WF_vars((Main \/ Destructor) /\ ~(phase = "run" /\ ~exiting))

-----------------------------------------------------------------------------
\* A probe takes the parameter that is the packet: the program attached to a
\* name reads the register of the first sk_buff argument of a function of that
\* name (get_func_param_pos, prog_mapping_list).
ArgumentRight ==
  \A n \in DOMAIN links :
    /\ n \in requested /\ Kernel[n].avail
    /\ links[n] \in 0 .. NumPrograms - 1
    /\ \E d \in Kernel[n].defs :
         /\ links[n] + 1 \in DOMAIN d.params
         /\ d.params[links[n] + 1] = "skb"
         /\ \A j \in 1 .. links[n] : d.params[j] # "skb"

\* The loop is entered only with a probe in place, and then with one on every
\* function found and requested that the kernel lets probe, as far as files
\* can be opened: a function that cannot be attached costs no other (the loop
\* of main).
AttachedAll ==
  phase = "run" =>
    /\ probes # {} /\ probes = DOMAIN links /\ count = Cardinality(probes)
    /\ \A n \in DOMAIN skbFuncs \cap requested : Attaches(n) => n \in probes

\* A stop request ends the process, also one that comes before the loop is
\* entered or before there is an instance, but for one case: a signal that
\* interrupts the constructor of the instance leaves the process hanging, its
\* request lost (sig_handler, getInstance, run).
EarlyStopKept ==
  asked # {} ~> \/ phase = "gone"
                \/ phase = "hung" /\ "constructing" \in asked

\* However far main came, the destructor leaves nothing behind: every probe
\* that was attached is in the list of links, and what was made of handler,
\* skeleton and reader is released (attach_skb_func, ~TraceMgr).
NothingLeft ==
  phase \in {"end", "gone"} /\ ret # "abort" => probes = {} /\ held = {}

\* No probe is in place without its program, and no reader without its map
\* (the order of ~TraceMgr).
DependentsFirst == probes # {} \/ "rb" \in held => "skel" \in held

\* Without --filter-func every kernel function with an sk_buff argument that
\* the kernel lets probe is traced, as the help text and main's warning say.
TracesAllSkbFuncs ==
  phase = "run" =>
    \A n \in requested :
      /\ Kernel[n].avail /\ n \notin Unattachable
      /\ \E d \in Kernel[n].defs :
           /\ Kernel[n].defs = {d} /\ IsSkbFunc(d) /\ ParamPos(d) < NumPrograms
           /\ d.mod \in {"vmlinux"} \cup (DOMAIN Loaded \cap WithBtf)
      => n \in probes
=============================================================================
