------------------------------- MODULE Names -------------------------------
(***************************************************************************)
(* The names in the PROCESS and IFACE columns: src/output/dev_cache.cpp, as *)
(* Output::init and Output::print_entry of src/output/output.cpp use it.    *)
(* Names are looked up when a line is printed, which is later than the      *)
(* event, and are cached for ever; meanwhile processes end, pids are        *)
(* reused, and interfaces are renamed, moved and replaced.                 *)
(*                                                                         *)
(* Number stands for a column that shows the pid or the index as a number   *)
(* where a name should be.  Network namespaces are their inode numbers.     *)
(***************************************************************************)
EXTENDS Naturals

CONSTANTS Pids,         \* pids other than 0
          ProcNames,
          Namespaces, Current,  \* namespaces; the tracer's own
          Indexes,      \* interface indexes other than 0
          IfNames,
          InitIfs,      \* name of each index in each namespace, None if free
          FilterIf,     \* {} or the one interface of -i: [netns, ifindex, name]
          None, Number,
          MaxChanges    \* bound on the changes of the system

ASSUME NamesAssumption ==
  /\ Number \notin ProcNames \cup IfNames /\ None # Number
  /\ None \notin ProcNames \cup IfNames
  /\ Current \in Namespaces /\ 0 \notin Namespaces
  /\ 0 \notin Pids /\ 0 \notin Indexes
  /\ InitIfs \in [Namespaces -> [Indexes -> IfNames \cup {None}]]
  \* Options found the interface of -i by its name.
  /\ \A f \in FilterIf : /\ f.netns \in Namespaces /\ f.ifindex \in Indexes
                        /\ f.name \in IfNames
                        /\ f.name = InitIfs[f.netns][f.ifindex]

VARIABLES procs,        \* the name of each process, None if there is none
          ifs,          \* the name of each interface, per namespace
          changes,      \* how often the system changed
          pc,           \* what print_entry does next
          event,        \* its event: [pid, netns, ifindex]
          currentId,    \* s_current_netns_id
          commCache,    \* s_comm_cache: a set of <<key, name>>
          ifCache,      \* s_ifname_cache: a set of <<key, name>>
          shownProc,    \* what lines showed so far: <<pid, name>>
          shownIf,      \* and <<netns, ifindex, name>>
          failedIf,     \* <<netns, ifindex>> whose lookup failed as such
          hadProc,      \* the names that each pid ever had
          hadIf         \* the names that each interface ever had, None too

caches == <<currentId, commCache, ifCache>>
ifHistory == <<shownIf, failedIf>>
shown == <<shownProc, ifHistory>>
system == <<procs, ifs, changes, hadProc, hadIf>>
vars == <<system, pc, event, caches, shown>>

ProcFacts == {<<p, procs[p]>> : p \in Pids}
IfFacts == {<<ns, i, ifs[ns][i]>> : ns \in Namespaces, i \in Indexes}

Init ==
  /\ procs \in [Pids -> ProcNames \cup {None}]
  /\ ifs = InitIfs
  /\ changes = 0
  /\ pc = "init"
  /\ event = [pid |-> 0, netns |-> 0, ifindex |-> 0]
  /\ currentId = 0
  /\ commCache = {} /\ ifCache = {}
  /\ shownProc = {} /\ shownIf = {} /\ failedIf = {}
  /\ hadProc = ProcFacts /\ hadIf = IfFacts

Go(step) == pc' = step

\* Fault: a key has room for the low bits of a pid only.
CommKeyShort(pid) == pid % 2

CommKey(pid) == pid

\* Fault: the namespace is shifted out of the key.
CacheKeyIndex(netns, ifindex) == <<0, ifindex>>

\* make_cache_key.
CacheKey(netns, ifindex) == <<netns, ifindex>>

Cached(cache, key) == {entry \in cache : entry[1] = key}

\* map[key] = name.
Assign(cache, key, name) == (cache \ Cached(cache, key)) \cup {<<key, name>>}

-----------------------------------------------------------------------------
(* Output::init.                                                            *)

\* Fault: the interface of -i is taken to be one of the tracer's namespace.
RegisterIfnameHere(f) == <<CacheKey(Current, f.ifindex), f.name>>

RegisterIfname(f) == <<CacheKey(f.netns, f.ifindex), f.name>>

\* stat of the tracer's own namespace may fail; the interface of -i is known.
InitOutput ==
  /\ pc = "init"
  /\ currentId' \in {Current, 0}
  /\ ifCache' = {RegisterIfname(f) : f \in FilterIf}
  /\ Go("idle")
  /\ UNCHANGED <<system, event, commCache, shown>>

\* The loop has an event, of a process and an interface that there were.
TakeEvent ==
  /\ pc = "idle"
  /\ \E pid \in Pids \cup {0}, ns \in Namespaces, i \in Indexes \cup {0} :
       /\ pid # 0 => \E n \in ProcNames : <<pid, n>> \in hadProc
       /\ i # 0 => \E n \in IfNames : <<ns, i, n>> \in hadIf
       /\ event' = [pid |-> pid, netns |-> ns, ifindex |-> i]
  /\ Go("proc")
  /\ UNCHANGED <<system, caches, shown>>

-----------------------------------------------------------------------------
(* format_proc and resolve_comm.                                            *)

ShowProc(name) ==
  /\ shownProc' = shownProc \cup {<<event.pid, name>>}
  /\ Go("iface")

\* swapper, or a name in the cache.
KnownProc ==
  /\ pc = "proc"
  /\ \/ event.pid = 0 /\ Go("iface") /\ UNCHANGED shownProc
     \/ /\ event.pid # 0
        /\ \E entry \in Cached(commCache, CommKey(event.pid)) :
             ShowProc(entry[2])
  /\ UNCHANGED <<system, event, caches, ifHistory>>

MustRead == event.pid # 0 /\ Cached(commCache, CommKey(event.pid)) = {}

\* Fault: a failure is not remembered.
RememberNamesOnly(name) ==
  commCache' = IF name = Number THEN commCache
               ELSE Assign(commCache, CommKey(event.pid), name)

Remember(name) == commCache' = Assign(commCache, CommKey(event.pid), name)

\* The process is gone, or its file cannot be opened: the number instead.
OpenCommFails ==
  /\ pc = "proc" /\ MustRead
  /\ Remember(Number) /\ ShowProc(Number)
  /\ UNCHANGED <<system, event, currentId, ifCache, ifHistory>>

OpenComm ==
  /\ pc = "proc" /\ MustRead /\ procs[event.pid] # None
  /\ Go("read")
  /\ UNCHANGED <<system, event, caches, shown>>

\* The name at the time of the read; the process may be gone by now.
ReadComm ==
  /\ pc = "read"
  /\ LET name == IF procs[event.pid] = None THEN Number ELSE procs[event.pid]
     IN  Remember(name) /\ ShowProc(name)
  /\ UNCHANGED <<system, event, currentId, ifCache, ifHistory>>

-----------------------------------------------------------------------------
(* format_iface and resolve_dev_name.                                       *)

ShowIf(name) ==
  /\ shownIf' = shownIf \cup {<<event.netns, event.ifindex, name>>}
  /\ Go("idle")

Key == CacheKey(event.netns, event.ifindex)

\* No interface, or a name in the cache.
KnownIf ==
  /\ pc = "iface"
  /\ \/ event.ifindex = 0 /\ Go("idle") /\ UNCHANGED shownIf
     \/ /\ event.ifindex # 0
        /\ \E entry \in Cached(ifCache, Key) : ShowIf(entry[2])
  /\ UNCHANGED <<system, event, caches, shownProc, failedIf>>

\* Fault: the name that was found is not kept.
CacheIfNot(name) == UNCHANGED ifCache

CacheIf(name) == ifCache' = Assign(ifCache, Key, name)

\* Only the tracer's own namespace can be asked.
MayAsk == event.netns = 0 \/ (currentId # 0 /\ event.netns = currentId)

Name == ifs[Current][event.ifindex]

\* if_indextoname needs a socket, which can fail whether or not the interface
\* is there; only a name is cached.
LookupIf ==
  /\ pc = "iface" /\ event.ifindex # 0 /\ Cached(ifCache, Key) = {}
  /\ \/ /\ MayAsk /\ Name # None
        /\ CacheIf(Name) /\ ShowIf(Name) /\ UNCHANGED failedIf
     \/ /\ MayAsk => Name = None
        /\ ShowIf(Number) /\ UNCHANGED <<ifCache, failedIf>>
     \/ /\ MayAsk
        /\ failedIf' = failedIf \cup {<<event.netns, event.ifindex>>}
        /\ ShowIf(Number) /\ UNCHANGED ifCache
  /\ UNCHANGED <<system, event, currentId, commCache, shownProc>>

-----------------------------------------------------------------------------
(* The system around the tracer.                                            *)

Change == changes < MaxChanges /\ changes' = changes + 1

\* A process begins, ends, execs, or has its pid reused.
ProcChanges ==
  /\ Change
  /\ \E p \in Pids, n \in ProcNames \cup {None} :
       procs' = [procs EXCEPT ![p] = n]
  /\ hadProc' = hadProc \cup ProcFacts'
  /\ UNCHANGED <<ifs, hadIf, pc, event, caches, shown>>

\* An interface comes, goes, or is renamed; no name is there twice.
IfChanges ==
  /\ Change
  /\ \E ns \in Namespaces, i \in Indexes, n \in IfNames \cup {None} :
       /\ n # None => \A j \in Indexes \ {i} : ifs[ns][j] # n
       /\ ifs' = [ifs EXCEPT ![ns][i] = n]
  /\ hadIf' = hadIf \cup IfFacts'
  /\ UNCHANGED <<procs, hadProc, pc, event, caches, shown>>

PrintEntry == \/ KnownProc \/ OpenCommFails \/ OpenComm \/ ReadComm
              \/ KnownIf \/ LookupIf

Next == InitOutput \/ TakeEvent \/ PrintEntry \/ ProcChanges \/ IfChanges

Spec == Init /\ [][Next]_vars

-----------------------------------------------------------------------------
\* A name next to a pid was the name of that pid at some time, never another
\* process's (resolve_comm): stale it may be, not mixed up.
ProcNameHeld ==
  \A s \in shownProc : s[2] # Number => s \in hadProc

\* A pid has the same name in all lines, a name or for ever its number
\* (s_comm_cache): lines of one pid can be found by their PROCESS column.
OneNamePerPid ==
  \A s, t \in shownProc : s[1] = t[1] => s = t

\* A name next to an index was that of this interface in this namespace at
\* some time: indexes are the same in many namespaces, and one that cannot be
\* asked gets no name from the tracer's own (resolve_dev_name).
IfaceNameHeld ==
  \A s \in shownIf : s[3] # Number => s \in hadIf

\* An interface that once had a name in a line keeps it (s_ifname_cache).
OneNamePerIface ==
  \A s, t \in shownIf :
    s[1] = t[1] /\ s[2] = t[2] /\ Number \notin {s[3], t[3]} => s = t

\* An interface of the tracer's namespace shows as a number only if there was
\* a time without it or a lookup of it failed, which no later line remembers;
\* and the one of -i never does, in whatever namespace it is and whatever became
\* of it (Output::init, resolve_dev_name).
IfaceNamed ==
  /\ \A s \in shownIf :
       s[3] = Number =>
         /\ s[1] = Current /\ currentId # 0 =>
              <<s[1], s[2], None>> \in hadIf \/ <<s[1], s[2]>> \in failedIf
         /\ \A f \in FilterIf : <<f.netns, f.ifindex>> # <<s[1], s[2]>>
  /\ \A entry \in ifCache : entry[2] # Number
=============================================================================
