----------------------------- MODULE OutputProofs -----------------------------
(***************************************************************************)
(* Proofs about Names, and after them about WallClock.                     *)
(*                                                                         *)
(* Names: for any processes, namespaces and interfaces and any number of    *)
(* changes of the system, names are never mixed up.  What was shown is      *)
(* still in the caches, the caches are functions, and what is in them was   *)
(* once true.                                                              *)
(*                                                                         *)
(* WallClock: for clocks of any resolution, set any number of times, lines  *)
(* keep the distances of their events, and show the right time if the clock *)
(* is left alone.  A line shows the sum of the offset and the event's time, *)
(* cut to milliseconds, and all lines use one offset, which was right but   *)
(* for the gap between the two readings.                                    *)
(***************************************************************************)
EXTENDS Names, WallClock, TLAPS

Types ==
  /\ procs \in [Pids -> ProcNames \cup {None}]
  /\ ifs \in [Namespaces -> [Indexes -> IfNames \cup {None}]]
  /\ event \in [pid : Pids \cup {0}, netns : Namespaces \cup {0},
                ifindex : Indexes \cup {0}]
  /\ pc \in {"init", "idle", "proc", "read", "iface"}
  /\ pc \in {"proc", "read", "iface"} => event.netns \in Namespaces
  /\ currentId \in {Current, 0}

\* The present is part of what was ever true, and so is the interface of -i.
HadNow ==
  /\ ProcFacts \subseteq hadProc /\ IfFacts \subseteq hadIf
  /\ \A f \in FilterIf : <<f.netns, f.ifindex, f.name>> \in hadIf

\* The cache of processes is a function, true, and has all that was shown;
\* while a name is being read it has none for that pid.
ProcInv ==
  /\ \A e \in commCache : \E p, n : e = <<p, n>>
  /\ \A e \in commCache : e[2] # Number => e \in hadProc
  /\ \A e, f \in commCache : e[1] = f[1] => e = f
  /\ shownProc \subseteq commCache
  /\ pc = "read" => /\ event.pid # 0
                    /\ \A e \in commCache : e[1] # event.pid

IfEntry(ns, i, n) == <<CacheKey(ns, i), n>>

\* An entry whose name was once that of its interface.
HeldEntry(e) ==
  /\ e = IfEntry(e[1][1], e[1][2], e[2]) /\ e[2] # Number
  /\ <<e[1][1], e[1][2], e[2]>> \in hadIf

\* A line whose name, if it has one, is in the cache.
Kept(s) ==
  /\ s = <<s[1], s[2], s[3]>>
  /\ s[3] # Number => IfEntry(s[1], s[2], s[3]) \in ifCache

\* The cache of interfaces is a function, true, has every name that was shown,
\* and from Output::init on the interface of -i.
IfInv ==
  /\ \A e \in ifCache : HeldEntry(e)
  /\ \A e, f \in ifCache : e[1] = f[1] => e = f
  /\ \A s \in shownIf : Kept(s)
  /\ pc = "init" => shownIf = {} /\ ifCache = {}
  /\ pc # "init" =>
       \A f \in FilterIf : IfEntry(f.netns, f.ifindex, f.name) \in ifCache
  /\ IfaceNamed

IInv == Types /\ HadNow /\ ProcInv /\ IfInv

-----------------------------------------------------------------------------
LEMMA CurrentNumber == Current # 0
  BY NamesAssumption

\* The initial state has no lines and empty caches.
LEMMA InitInv == Init => IInv
<1> SUFFICES ASSUME Init PROVE IInv
  OBVIOUS
<1>1. Types
  BY NamesAssumption DEF Init, Types
<1>2. HadNow
  BY NamesAssumption DEF Init, HadNow, IfFacts
<1>3. ProcInv
  BY DEF Init, ProcInv
<1>4. IfInv
  BY DEF Init, IfInv, IfaceNamed
<1> QED
  BY <1>1, <1>2, <1>3, <1>4 DEF IInv

LEMMA TypesStep ==
  ASSUME Types, [Next]_vars
  PROVE  Types'
<1> USE NamesAssumption DEF Types, Go
<1>1. CASE InitOutput
  BY <1>1 DEF InitOutput, system, shown
<1>2. CASE TakeEvent
  BY <1>2 DEF TakeEvent, system, caches, shown, ifHistory
<1>3. CASE KnownProc
  BY <1>3 DEF KnownProc, ShowProc, system, caches
<1>4. CASE OpenCommFails
  BY <1>4 DEF OpenCommFails, ShowProc, system
<1>5. CASE OpenComm
  BY <1>5 DEF OpenComm, system, caches, shown, ifHistory
<1>6. CASE ReadComm
  BY <1>6 DEF ReadComm, ShowProc, system
<1>7. CASE KnownIf
  BY <1>7 DEF KnownIf, ShowIf, system, caches
<1>8. CASE LookupIf
  BY <1>8 DEF LookupIf, ShowIf, system
<1>9. CASE ProcChanges
  BY <1>9 DEF ProcChanges, caches, shown, ifHistory
<1>10. CASE IfChanges
  BY <1>10 DEF IfChanges, caches, shown, ifHistory
<1>11. CASE UNCHANGED vars
  BY <1>11 DEF vars, system, caches
<1> QED
  BY <1>1, <1>2, <1>3, <1>4, <1>5, <1>6, <1>7, <1>8, <1>9, <1>10, <1>11
  DEF Next, PrintEntry

LEMMA HadNowStep ==
  ASSUME HadNow, [Next]_vars
  PROVE  HadNow'
<1>1. CASE ProcChanges
  BY <1>1 DEF ProcChanges, HadNow, IfFacts
<1>2. CASE IfChanges
  BY <1>2 DEF IfChanges, HadNow, ProcFacts
<1>3. CASE UNCHANGED system
  BY <1>3 DEF system, HadNow, ProcFacts, IfFacts
<1> QED
  BY <1>1, <1>2, <1>3 DEF Next, vars, InitOutput, TakeEvent, PrintEntry,
     KnownProc, OpenCommFails, OpenComm, ReadComm, KnownIf, LookupIf

\* Nothing that was ever true is forgotten.
LEMMA HadGrows ==
  ASSUME [Next]_vars
  PROVE  hadProc \subseteq hadProc' /\ hadIf \subseteq hadIf'
         /\ failedIf \subseteq failedIf'
  BY DEF Next, vars, system, shown, ifHistory, InitOutput, TakeEvent, PrintEntry,
     KnownProc, OpenCommFails, OpenComm, ReadComm, KnownIf, LookupIf, ProcChanges,
     IfChanges

\* Reading a name that is not in the cache yet.
LEMMA RememberStep ==
  ASSUME ProcInv, NEW name, MustRead, Remember(name), ShowProc(name),
         name # Number => <<event.pid, name>> \in hadProc,
         UNCHANGED <<event, hadProc>>
  PROVE  ProcInv'
<1> DEFINE e0 == <<event.pid, name>>
<1>1. \A e \in commCache : e[1] # event.pid
  BY DEF MustRead, Cached, CommKey
<1>2. commCache' = commCache \cup {e0}
  BY <1>1 DEF Remember, Assign, Cached, CommKey
<1>3. shownProc' = shownProc \cup {e0} /\ pc' = "iface"
  BY DEF ShowProc, Go
<1>4. /\ \A e \in commCache' : \E p, n : e = <<p, n>>
      /\ \A e \in commCache' : e[2] # Number => e \in hadProc'
  BY <1>2 DEF ProcInv
<1>5. \A e, f \in commCache' : e[1] = f[1] => e = f
  BY <1>1, <1>2 DEF ProcInv
<1> QED
  BY <1>2, <1>3, <1>4, <1>5 DEF ProcInv

LEMMA ProcStep ==
  ASSUME Types, HadNow, ProcInv, [Next]_vars
  PROVE  ProcInv'
<1>1. CASE TakeEvent
  BY <1>1 DEF TakeEvent, ProcInv, Go, system, caches, shown, ifHistory
<1>2. CASE KnownProc
  <2>1. shownProc' \subseteq commCache
    BY <1>2 DEF KnownProc, ShowProc, Cached, CommKey, ProcInv
  <2>2. pc' = "iface"
    BY <1>2 DEF KnownProc, ShowProc, Go
  <2> QED
    BY <1>2, <2>1, <2>2 DEF KnownProc, ProcInv, system, caches
<1>3. CASE OpenCommFails
  BY <1>3, RememberStep DEF OpenCommFails, system
<1>4. CASE OpenComm
  BY <1>4 DEF OpenComm, ProcInv, MustRead, Cached, CommKey, Go, system, caches,
     shown, ifHistory
<1>5. CASE ReadComm
  <2> DEFINE name == IF procs[event.pid] = None THEN Number
                     ELSE procs[event.pid]
  <2>1. MustRead
    BY <1>5 DEF ReadComm, ProcInv, MustRead, Cached, CommKey
  <2>2. event.pid \in Pids
    BY <2>1 DEF MustRead, Types
  <2>3. name # Number => <<event.pid, name>> \in hadProc
    BY <2>2 DEF HadNow, ProcFacts
  <2>4. Remember(name) /\ ShowProc(name) /\ UNCHANGED <<event, hadProc>>
    BY <1>5 DEF ReadComm, system
  <2> QED
    BY <2>1, <2>3, <2>4, RememberStep
<1>6. CASE InitOutput \/ KnownIf \/ LookupIf
  <2>1. pc' # "read" /\ UNCHANGED <<hadProc, commCache, shownProc>>
    BY <1>6 DEF InitOutput, KnownIf, LookupIf, ShowIf, Go, system, caches,
       shown, ifHistory
  <2> QED
    BY <2>1 DEF ProcInv
<1>7. CASE ProcChanges \/ IfChanges
  <2>1. UNCHANGED <<pc, event, commCache, shownProc>>
    BY <1>7 DEF ProcChanges, IfChanges, caches, shown, ifHistory
  <2> QED
    BY <2>1, HadGrows DEF ProcInv
<1>8. CASE UNCHANGED vars
  BY <1>8 DEF vars, ProcInv, system, caches, shown, ifHistory
<1> QED
  BY <1>1, <1>2, <1>3, <1>4, <1>5, <1>6, <1>7, <1>8 DEF Next, PrintEntry

\* What IfInv says of the cache.
IfCacheInv ==
  /\ \A e \in ifCache : HeldEntry(e)
  /\ \A e, f \in ifCache : e[1] = f[1] => e = f

LEMMA IfInvCache == IfInv => IfCacheInv
  BY DEF IfInv, IfCacheInv

LEMMA CachedEntry ==
  ASSUME IfInv, NEW e \in ifCache
  PROVE  e = <<e[1], e[2]>> /\ e[2] # Number
<1> DEFINE key == CacheKey(e[1][1], e[1][2])
           name == e[2]
<1>1. e = <<key, name>> /\ name # Number
  BY DEF IfInv, HeldEntry, IfEntry
<1> HIDE DEF key, name
<1>2. e[1] = key /\ e[2] = name
  BY <1>1
<1> QED
  BY <1>1, <1>2

\* A line with a name that is now in the cache.
LEMMA ShowNamed ==
  ASSUME IfInv, NEW name, ShowIf(name), name # Number, pc # "init",
         ifCache \subseteq ifCache', IfCacheInv',
         <<Key, name>> \in ifCache', failedIf \subseteq failedIf',
         UNCHANGED <<event, currentId, hadIf>>
  PROVE  IfInv'
<1>1. shownIf' = shownIf \cup {<<event.netns, event.ifindex, name>>} /\ pc' = "idle"
  BY DEF ShowIf, Go
<1>2. \A s \in shownIf' : Kept(s)'
  <2>1. Kept(<<event.netns, event.ifindex, name>>)'
    BY DEF Kept, IfEntry, Key
  <2>2. \A s \in shownIf : Kept(s)'
    BY DEF IfInv, Kept
  <2> QED
    BY <1>1, <2>1, <2>2
<1>3. IfaceNamed'
  <2>1. \A e \in ifCache' : e[2] # Number
    BY DEF IfCacheInv, HeldEntry
  <2>2. <<event.netns, event.ifindex, name>>[3] # Number
    OBVIOUS
  <2>3. ASSUME NEW s \in shownIf', s[3] = Number
        PROVE  /\ s[1] = Current /\ currentId' # 0 =>
                    \/ <<s[1], s[2], None>> \in hadIf'
                    \/ <<s[1], s[2]>> \in failedIf'
               /\ \A f \in FilterIf : <<f.netns, f.ifindex>> # <<s[1], s[2]>>
    <3>1. s \in shownIf
      BY <1>1, <2>2, <2>3
    <3> QED
      BY <2>3, <3>1 DEF IfInv, IfaceNamed
  <2> QED
    BY <2>1, <2>3 DEF IfaceNamed
<1>4. \A f \in FilterIf : IfEntry(f.netns, f.ifindex, f.name) \in ifCache'
  BY DEF IfInv
<1> QED
  BY <1>1, <1>2, <1>3, <1>4 DEF IfInv, IfCacheInv

\* A line with a number: there is no name, nobody to ask, or no answer.
LEMMA ShowNumber ==
  ASSUME Types, HadNow, IfInv, pc = "iface", ShowIf(Number),
         event.ifindex # 0, Cached(ifCache, Key) = {},
         \/ MayAsk => Name = None
         \/ <<event.netns, event.ifindex>> \in failedIf',
         failedIf \subseteq failedIf',
         UNCHANGED <<event, currentId, hadIf, ifCache>>
  PROVE  IfInv'
<1> DEFINE new == <<event.netns, event.ifindex, Number>>
<1>1. shownIf' = shownIf \cup {new} /\ pc' = "idle"
  BY DEF ShowIf, Go
<1>2. ASSUME event.netns = Current, currentId # 0
      PROVE  \/ <<event.netns, event.ifindex, None>> \in hadIf
             \/ <<event.netns, event.ifindex>> \in failedIf'
  <2> SUFFICES ASSUME <<event.netns, event.ifindex>> \notin failedIf'
               PROVE  <<event.netns, event.ifindex, None>> \in hadIf
    OBVIOUS
  <2>1. Name = None
    BY <1>2 DEF MayAsk, Types
  <2>2. event.ifindex \in Indexes /\ Current \in Namespaces
    BY NamesAssumption DEF Types
  <2>3. <<Current, event.ifindex, ifs[Current][event.ifindex]>> \in IfFacts
    BY <2>2 DEF IfFacts
  <2> QED
    BY <1>2, <2>1, <2>3 DEF HadNow, Name
<1>3. ASSUME NEW f \in FilterIf,
             <<f.netns, f.ifindex>> = <<event.netns, event.ifindex>>
      PROVE  FALSE
  <2>1. IfEntry(f.netns, f.ifindex, f.name) \in ifCache
    BY DEF IfInv
  <2>2. IfEntry(f.netns, f.ifindex, f.name)[1] = Key
    BY <1>3 DEF IfEntry, Key, CacheKey
  <2> QED
    BY <2>1, <2>2 DEF Cached
<1>4. IfaceNamed'
  BY <1>1, <1>2, <1>3 DEF IfInv, IfaceNamed
<1>5. \A s \in shownIf' : Kept(s)'
  <2>1. Kept(new)'
    BY DEF Kept
  <2>2. \A s \in shownIf : Kept(s)'
    BY DEF IfInv, Kept
  <2> QED
    BY <1>1, <2>1, <2>2
<1>6. \A e \in ifCache' : HeldEntry(e)'
  BY DEF IfInv, HeldEntry
<1> QED
  BY <1>1, <1>4, <1>5, <1>6 DEF IfInv

\* A step that shows no interface and leaves their cache alone.
LEMMA QuietStep ==
  ASSUME IfInv, UNCHANGED <<ifCache, shownIf, currentId>>,
         hadIf \subseteq hadIf', failedIf \subseteq failedIf',
         pc' = "init" <=> pc = "init"
  PROVE  IfInv'
<1>1. \A e \in ifCache' : HeldEntry(e)'
  BY DEF IfInv, HeldEntry
<1>2. \A s \in shownIf' : Kept(s)'
  BY DEF IfInv, Kept
<1>3. IfaceNamed'
  BY DEF IfInv, IfaceNamed
<1> QED
  BY <1>1, <1>2, <1>3 DEF IfInv

LEMMA IfStep ==
  ASSUME Types, HadNow, IfInv, [Next]_vars
  PROVE  IfInv'
<1>1. CASE InitOutput
  <2>1. /\ pc = "init" /\ pc' = "idle"
        /\ ifCache' = {RegisterIfname(f) : f \in FilterIf}
        /\ shownIf' = {} /\ UNCHANGED <<hadIf, failedIf>>
    BY <1>1 DEF InitOutput, Go, system, shown, ifHistory, IfInv
  <2>2. IfCacheInv'
    <3>1. ASSUME NEW f \in FilterIf
          PROVE  /\ RegisterIfname(f) = IfEntry(f.netns, f.ifindex, f.name)
                 /\ f.name # Number /\ <<f.netns, f.ifindex, f.name>> \in hadIf
      BY NamesAssumption DEF RegisterIfname, IfEntry, HadNow
    <3>2. ASSUME NEW f \in FilterIf, NEW g \in FilterIf,
                 RegisterIfname(f)[1] = RegisterIfname(g)[1]
          PROVE  RegisterIfname(f) = RegisterIfname(g)
      BY <3>2, NamesAssumption DEF RegisterIfname, CacheKey
    <3>3. \A e \in ifCache' : HeldEntry(e)'
      <4>1. ASSUME NEW f \in FilterIf
            PROVE  HeldEntry(IfEntry(f.netns, f.ifindex, f.name))'
        <5>1. HeldEntry(IfEntry(f.netns, f.ifindex, f.name))
          BY <3>1 DEF HeldEntry, IfEntry, CacheKey
        <5> QED
          BY <2>1, <5>1 DEF HeldEntry
      <4> QED
        BY <2>1, <3>1, <4>1
    <3>4. \A e, f \in ifCache' : e[1] = f[1] => e = f
      BY <2>1, <3>2
    <3> QED
      BY <3>3, <3>4 DEF IfCacheInv
  <2>3. \A f \in FilterIf : IfEntry(f.netns, f.ifindex, f.name) \in ifCache'
    BY <2>1 DEF RegisterIfname, IfEntry
  <2> QED
    BY <2>1, <2>2, <2>3 DEF IfInv, IfCacheInv, IfaceNamed, Kept, HeldEntry
<1>2. CASE KnownIf
  <2>1. CASE event.ifindex = 0 /\ Go("idle") /\ UNCHANGED shownIf
    <3>1. /\ UNCHANGED <<ifCache, shownIf, currentId, hadIf, failedIf>>
          /\ pc # "init" /\ pc' # "init"
      BY <1>2, <2>1 DEF KnownIf, Go, system, caches
    <3> QED
      BY <3>1, QuietStep
  <2>2. ASSUME NEW entry \in Cached(ifCache, Key), ShowIf(entry[2])
        PROVE  IfInv'
    <3>1. entry \in ifCache /\ entry = <<Key, entry[2]>> /\ entry[2] # Number
      BY <2>2, CachedEntry DEF Cached
    <3>2. UNCHANGED <<event, currentId, hadIf, ifCache, failedIf>> /\ pc # "init"
      BY <1>2 DEF KnownIf, system, caches
    <3>3. IfCacheInv'
      BY <3>2 DEF IfInv, IfCacheInv, HeldEntry
    <3> QED
      BY <2>2, <3>1, <3>2, <3>3, ShowNamed
  <2> QED
    BY <1>2, <2>1, <2>2 DEF KnownIf
<1>3. CASE LookupIf
  <2>0. /\ pc = "iface" /\ event.ifindex # 0 /\ Cached(ifCache, Key) = {}
        /\ UNCHANGED <<event, currentId, hadIf>>
    BY <1>3 DEF LookupIf, system
  <2>1. CASE /\ MayAsk /\ Name # None
             /\ CacheIf(Name) /\ ShowIf(Name) /\ UNCHANGED failedIf
    <3>1. ifCache' = ifCache \cup {<<Key, Name>>} /\ ShowIf(Name)
      BY <2>0, <2>1 DEF CacheIf, Assign
    <3>2. event.netns = Current /\ event.ifindex \in Indexes
      BY <2>0, <2>1, NamesAssumption DEF MayAsk, Types
    <3>3. /\ Name \in IfNames
          /\ <<event.netns, event.ifindex, Name>> \in hadIf
      BY <2>1, <3>2, NamesAssumption DEF Types, Name, HadNow, IfFacts
    <3>4. Name # Number
      BY <3>3, NamesAssumption
    <3>5. \A e \in ifCache : e[1] # Key
      BY <2>0 DEF Cached
    <3>6. \A e \in ifCache' : HeldEntry(e)'
      <4>1. HeldEntry(<<Key, Name>>)
        BY <3>3, <3>4 DEF HeldEntry, IfEntry, Key, CacheKey
      <4>2. \A e \in ifCache' : HeldEntry(e)
        BY <3>1, <4>1 DEF IfInv
      <4> QED
        BY <2>0, <4>2 DEF HeldEntry
    <3>7. \A e, f \in ifCache' : e[1] = f[1] => e = f
      BY <3>1, <3>5 DEF IfInv
    <3> QED
      BY <2>0, <2>1, <3>1, <3>4, <3>6, <3>7, ShowNamed DEF IfCacheInv
  <2>2. CASE /\ MayAsk => Name = None
             /\ ShowIf(Number) /\ UNCHANGED <<ifCache, failedIf>>
    BY <2>0, <2>2, ShowNumber
  <2>3. CASE /\ failedIf' = failedIf \cup {<<event.netns, event.ifindex>>}
             /\ ShowIf(Number) /\ UNCHANGED ifCache
    BY <2>0, <2>3, ShowNumber
  <2> QED
    BY <1>3, <2>1, <2>2, <2>3 DEF LookupIf
<1>4. CASE TakeEvent \/ KnownProc \/ OpenCommFails \/ OpenComm \/ ReadComm
  <2>1. /\ UNCHANGED <<ifCache, shownIf, currentId, hadIf, failedIf>>
        /\ pc # "init" /\ pc' # "init"
    BY <1>4 DEF TakeEvent, KnownProc, OpenCommFails, OpenComm, ReadComm,
       ShowProc, Go, system, caches, shown, ifHistory
  <2> QED
    BY <2>1, QuietStep
<1>5. CASE ProcChanges \/ IfChanges \/ UNCHANGED vars
  <2>1. UNCHANGED <<pc, ifCache, shownIf, currentId>>
    BY <1>5 DEF ProcChanges, IfChanges, vars, caches, shown, ifHistory
  <2> QED
    BY <2>1, HadGrows, QuietStep
<1> QED
  BY <1>1, <1>2, <1>3, <1>4, <1>5 DEF Next, PrintEntry

\* The inductive invariant.
THEOREM Invariance == Spec => []IInv
<1>1. IInv /\ [Next]_vars => IInv'
  BY TypesStep, HadNowStep, ProcStep, IfStep DEF IInv
<1> QED
  BY InitInv, <1>1, PTL DEF Spec

-----------------------------------------------------------------------------
\* A name next to a pid was that pid's at some time (resolve_comm).
THEOREM ProcTrue == Spec => []ProcNameHeld
<1>1. IInv => ProcNameHeld
  BY DEF IInv, ProcInv, ProcNameHeld
<1> QED
  BY Invariance, <1>1, PTL

\* A pid has one name in all lines, or its number in all (s_comm_cache).
THEOREM ProcSteady == Spec => []OneNamePerPid
<1>1. IInv => OneNamePerPid
  BY DEF IInv, ProcInv, OneNamePerPid
<1> QED
  BY Invariance, <1>1, PTL

\* A name next to an index was that of the interface with this index in this
\* namespace at some time (resolve_dev_name).
THEOREM IfaceTrue == Spec => []IfaceNameHeld
<1>1. ASSUME IInv, NEW s \in shownIf, s[3] # Number
      PROVE  s \in hadIf
  <2>1. s = <<s[1], s[2], s[3]>> /\ IfEntry(s[1], s[2], s[3]) \in ifCache
    BY <1>1 DEF IInv, IfInv, Kept
  <2>2. HeldEntry(IfEntry(s[1], s[2], s[3]))
    BY <1>1, <2>1 DEF IInv, IfInv
  <2> QED
    BY <2>1, <2>2 DEF HeldEntry, IfEntry, CacheKey
<1>2. IInv => IfaceNameHeld
  BY <1>1 DEF IfaceNameHeld
<1> QED
  BY Invariance, <1>2, PTL

\* An interface that had a name in a line keeps it (s_ifname_cache).
THEOREM IfaceSteady == Spec => []OneNamePerIface
<1>1. ASSUME IInv, NEW s \in shownIf, NEW t \in shownIf, s[1] = t[1],
             s[2] = t[2], s[3] # Number, t[3] # Number
      PROVE  s = t
  <2>1. /\ s = <<s[1], s[2], s[3]>> /\ IfEntry(s[1], s[2], s[3]) \in ifCache
        /\ t = <<t[1], t[2], t[3]>> /\ IfEntry(t[1], t[2], t[3]) \in ifCache
    BY <1>1 DEF IInv, IfInv, Kept
  <2>2. IfEntry(s[1], s[2], s[3])[1] = IfEntry(t[1], t[2], t[3])[1]
    BY <1>1 DEF IfEntry
  <2>3. IfEntry(s[1], s[2], s[3]) = IfEntry(t[1], t[2], t[3])
    BY <1>1, <2>1, <2>2 DEF IInv, IfInv
  <2> QED
    BY <1>1, <2>1, <2>3 DEF IfEntry
<1>2. IInv => OneNamePerIface
  BY <1>1 DEF OneNamePerIface
<1> QED
  BY Invariance, <1>2, PTL

\* An interface that can be asked for shows as a number only if it was absent
\* at some time or a lookup failed, and the one of -i never (Output::init).
THEOREM IfaceSeen == Spec => []IfaceNamed
<1>1. IInv => IfaceNamed
  BY DEF IInv, IfInv
<1> QED
  BY Invariance, <1>1, PTL

-----------------------------------------------------------------------------
(* WallClock.                                                               *)

Times == [ts : Nat, at : Int]
LineTimes == [ts : Nat, at : Int, sec : Int, ms : Int]

ClockTypes ==
  /\ mono \in 0 .. MaxMono /\ real \in Int /\ sets \in Nat
  /\ pending \subseteq Times
  /\ lines \subseteq LineTimes
  /\ phase \in {"idle", "between", "print"}
  /\ realTs \in Int /\ init \in BOOLEAN /\ boot \in Int /\ gap \in Nat

\* The wall clock stays later than the boot, and so is the offset positive.
Later ==
  /\ real >= MaxMono
  /\ phase = "between" => realTs >= MaxMono
  /\ init => boot >= 0

\* The first line waits for the offset, which is taken once.
Once ==
  /\ phase = "between" => ~init
  /\ phase = "print" => init
  /\ lines # {} => init
  /\ phase # "between" /\ ~init => gap = 0

\* A line shows its event's time plus the offset, cut to a millisecond.
Cut == \A l \in lines : Shown(l) <= boot + l.ts /\ boot + l.ts < Shown(l) + Ms

\* While nobody sets the clock, the two differ by what they did at first.
Steady ==
  sets = 0 =>
    /\ real = mono + InitReal
    /\ \A e \in pending \cup lines : e.at = e.ts + InitReal
    /\ phase = "between" => realTs = mono + InitReal - gap
    /\ init => boot = InitReal - gap

ClockInv == ClockTypes /\ Later /\ Once /\ Cut /\ Steady

-----------------------------------------------------------------------------
\* What division by a positive number gives.
LEMMA Division ==
  ASSUME NEW a \in Nat, NEW b \in Nat \ {0}
  PROVE  /\ a \div b \in Nat
         /\ b * (a \div b) <= a
         /\ a < b * (a \div b) + b
  BY Z3

\* Seconds and milliseconds of a time, together (format_absolute_time).
LEMMA CutToMillis ==
  ASSUME NEW ns \in Nat
  PROVE  /\ Quot(ns, Sec) \in Nat /\ Millis(ns) \in Nat
         /\ Quot(ns, Sec) * Sec + Millis(ns) * Ms <= ns
         /\ ns < Quot(ns, Sec) * Sec + Millis(ns) * Ms + Ms
<1> USE ClocksAssumption
<1> DEFINE q == ns \div Sec
           r == ns - Sec * q
           m == r \div Ms
<1>1. q \in Nat /\ Sec * q <= ns /\ ns < Sec * q + Sec
  BY Division
<1> HIDE DEF q
<1>2. Sec * q \in Nat /\ q * Sec = Sec * q
  BY <1>1
<1>3. r \in Nat
  BY <1>1, <1>2
<1> HIDE DEF r
<1>4. m \in Nat /\ Ms * m <= r /\ r < Ms * m + Ms
  BY <1>3, Division
<1>5. Quot(ns, Sec) = q
  BY DEF Quot, q
<1>6. Rem(ns, Sec) = r
  BY <1>5 DEF Rem, r
<1>7. Quot(r, Ms) = m
  BY <1>3 DEF Quot
<1> HIDE DEF m
<1>8. Millis(ns) = m
  BY <1>4, <1>6, <1>7 DEF Millis
<1>9. Ms * m \in Nat /\ m * Ms = Ms * m
  BY <1>4
<1>10. ns = Sec * q + r
  BY <1>1, <1>2 DEF r
<1> QED
  BY <1>1, <1>2, <1>3, <1>4, <1>5, <1>8, <1>9, <1>10

LEMMA ClockInitInv == ClockInit => ClockInv
<1> SUFFICES ASSUME ClockInit PROVE ClockInv
  OBVIOUS
<1> USE ClocksAssumption DEF ClockInit
<1>1. ClockTypes
  <2>1. init \in BOOLEAN
    OBVIOUS
  <2>2. /\ mono \in 0 .. MaxMono /\ real \in Int /\ sets \in Nat
        /\ phase \in {"idle", "between", "print"}
        /\ realTs \in Int /\ boot \in Int /\ gap \in Nat
    OBVIOUS
  <2> QED
    BY <2>1, <2>2 DEF ClockTypes
<1>2. Later
  BY DEF Later
<1>3. Once /\ Cut
  BY DEF Once, Cut
<1>4. Steady
  BY DEF Steady
<1> QED
  BY <1>1, <1>2, <1>3, <1>4 DEF ClockInv

\* A line is printed.
LEMMA PrintStep ==
  ASSUME ClockInv, PrintLine
  PROVE  ClockInv'
<1> USE ClocksAssumption DEF ClockInv
<1>1. PICK e \in pending :
        /\ lines' = lines \cup {[ts |-> e.ts, at |-> e.at,
                                 sec |-> Quot(boot + e.ts, Sec),
                                 ms |-> Millis(boot + e.ts)]}
        /\ pending' = pending \ {e}
  BY DEF PrintLine
<1> DEFINE ns == boot + e.ts
           new == [ts |-> e.ts, at |-> e.at, sec |-> Quot(ns, Sec),
                   ms |-> Millis(ns)]
<1>2. init /\ boot \in Nat /\ e.ts \in Nat /\ e.at \in Int
  BY DEF PrintLine, Once, Later, ClockTypes, Times
<1>3. ns \in Nat
  BY <1>2
<1>4. /\ Quot(ns, Sec) \in Nat /\ Millis(ns) \in Nat
      /\ Quot(ns, Sec) * Sec + Millis(ns) * Ms <= ns
      /\ ns < Quot(ns, Sec) * Sec + Millis(ns) * Ms + Ms
  BY <1>3, CutToMillis
<1>5. /\ new \in LineTimes /\ new.ts = e.ts /\ new.at = e.at
      /\ Shown(new) <= boot + new.ts /\ boot + new.ts < Shown(new) + Ms
  BY <1>2, <1>4 DEF LineTimes, Shown
<1>6. /\ UNCHANGED <<mono, real, sets, realTs, init, boot, gap>>
      /\ phase' = "idle" /\ lines' = lines \cup {new}
  BY <1>1 DEF PrintLine, clocks
<1> HIDE DEF new, ns
<1>7. ClockTypes'
  BY <1>1, <1>5, <1>6 DEF ClockTypes
<1>8. Later' /\ Once'
  BY <1>2, <1>6 DEF Later, Once
<1>9. Cut'
  BY <1>5, <1>6 DEF Cut, Shown
<1>10. Steady'
  BY <1>1, <1>5, <1>6 DEF Steady
<1> QED
  BY <1>7, <1>8, <1>9, <1>10

LEMMA ClockNextInv ==
  ASSUME ClockInv, [ClockNext]_clockVars
  PROVE  ClockInv'
<1> USE ClocksAssumption DEF ClockInv, ClockTypes, Later, Once, Steady
<1>1. CASE Tick
  BY <1>1 DEF Tick, Cut
<1>2. CASE SetClock
  BY <1>2 DEF SetClock, Cut
<1>3. CASE Event
  BY <1>3 DEF Event, clocks, Cut, Times
<1>4. CASE SampleReal
  BY <1>4 DEF SampleReal, clocks, Cut
<1>5. CASE SampleMono
  BY <1>5 DEF SampleMono, clocks, Cut, Offset, InitOnce
<1>6. CASE UNCHANGED clockVars
  BY <1>6 DEF clockVars, clocks, Cut
<1> QED
  BY <1>1, <1>2, <1>3, <1>4, <1>5, <1>6, PrintStep DEF ClockNext

\* The inductive invariant.
THEOREM ClockInvariance == ClockSpec => []ClockInv
<1> QED
  BY ClockInitInv, ClockNextInv, PTL DEF ClockSpec

\* Lines keep the distances of their events to the millisecond, however often
\* the wall clock is set (get_boot_realtime_ns).
THEOREM KeepsDifferences == ClockSpec => []DifferencesKept
<1>1. ASSUME ClockInv, NEW k \in lines, NEW l \in lines
      PROVE  /\ Shown(l) - Shown(k) > l.ts - k.ts - Ms
             /\ Shown(l) - Shown(k) < l.ts - k.ts + Ms
  <2>1. /\ k.ts \in Nat /\ l.ts \in Nat /\ boot \in Int
        /\ Shown(k) \in Int /\ Shown(l) \in Int
    BY <1>1, ClocksAssumption DEF ClockInv, ClockTypes, LineTimes, Shown
  <2>2. /\ Shown(k) <= boot + k.ts /\ boot + k.ts < Shown(k) + Ms
        /\ Shown(l) <= boot + l.ts /\ boot + l.ts < Shown(l) + Ms
    BY <1>1 DEF ClockInv, Cut
  <2> QED
    BY <2>1, <2>2, ClocksAssumption
<1>2. ClockInv => DifferencesKept
  BY <1>1 DEF DifferencesKept
<1> QED
  BY ClockInvariance, <1>2, PTL

\* A clock that is left alone is shown right, but for the time between the two
\* readings of get_boot_realtime_ns.
THEOREM ShowsTime == ClockSpec => []RightIfSteady
<1>1. ASSUME ClockInv, sets = 0, NEW l \in lines
      PROVE  Shown(l) <= l.at /\ l.at < Shown(l) + Ms + gap
  <2>1. /\ l.ts \in Nat /\ l.at \in Int /\ boot \in Int /\ gap \in Nat
        /\ Shown(l) \in Int
    BY <1>1, ClocksAssumption DEF ClockInv, ClockTypes, LineTimes, Shown
  <2>2. boot = InitReal - gap /\ l.at = l.ts + InitReal
    BY <1>1 DEF ClockInv, Once, Steady
  <2>3. Shown(l) <= boot + l.ts /\ boot + l.ts < Shown(l) + Ms
    BY <1>1 DEF ClockInv, Cut
  <2> QED
    BY <2>1, <2>2, <2>3, ClocksAssumption
<1>2. ClockInv => RightIfSteady
  BY <1>1 DEF RightIfSteady
<1> QED
  BY ClockInvariance, <1>2, PTL
=============================================================================
