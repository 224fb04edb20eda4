--------------------------- MODULE OptionsProofs ---------------------------
(***************************************************************************)
(* Proofs about Options: for any command line, files, namespaces and        *)
(* interfaces, and any number of changes of the system, the process comes    *)
(* home, closes what it opened and filters by an index of the namespace      *)
(* that it filters by; and what it filters by is what the whole command      *)
(* line asks for.                                                          *)
(*                                                                         *)
(* The argument: what is open, where the process is and what the index is    *)
(* worth are known at every step of resolve_netns_and_ifname; the namespace  *)
(* id and the interface are both taken of the one open file.  While options *)
(* are read, the arguments are those of the options already read.           *)
(***************************************************************************)
EXTENDS Options, TLAPS

Types ==
  /\ cur \in Namespaces
  /\ paths \in [DOMAIN InitPaths -> Files]
  /\ ifs \in [Namespaces -> [Names -> Indexes \cup {0}]]
  /\ \A ns \in Namespaces, name \in Names : <<ns, name, ifs[ns][name]>> \in had
  /\ left \in Seq(GivenOptions)
  /\ args = [mark |-> args.mark, ifname |-> args.ifname, netns |-> args.netns,
             netnsId |-> args.netnsId, ifindex |-> args.ifindex]
  /\ args.ifname \in Names \cup {Empty}

Early == {"parse", "spec"}
Looking == {"open_self", "stat_self", "enter", "lookup", "restore", "close_self"}
Late == {"ready", "running"}
Steps == Early \cup {"stat_target"} \cup Looking \cup {"close_target", "exit"}
         \cup Late

\* The process is where it began, except between its two calls of setns, and
\* after a failure of the second.
Place ==
  /\ pc \in Steps
  /\ pc \in Early \cup Late \cup {"stat_target", "open_self", "stat_self", "enter"}
     => cur = Home
  /\ pc = "enter" => ~SameNetns
  /\ pc = "lookup" => cur = opened.ns /\ (SameNetns => cur = Home)
  /\ pc = "close_self" => cur = Home \/ idx = 0
  /\ pc = "close_target" => cur = Home \/ (Given(args.ifname) /\ idx = 0)

\* What is open.
Fds ==
  /\ pc \in Early \cup Late \cup {"exit"} => target = None
  /\ pc \in Looking \cup {"stat_target"} => target = opened /\ opened \in Files
  /\ IF pc \in Looking \ {"open_self"} THEN self = NsFile[Home] ELSE self = None

\* An index that was found is one of the interface asked for.
Found ==
  /\ opened.ns \in Namespaces
  /\ args.netnsId = opened.ino % U32
  /\ <<opened.ns, args.ifname, idx>> \in had

Index ==
  /\ pc \in Looking => Given(args.ifname) /\ args.netnsId = opened.ino % U32
  /\ pc \in Early \cup {"stat_target", "open_self", "stat_self", "enter", "lookup"}
     => idx = 0
  /\ idx # 0 => Found
  /\ pc \in Late /\ Given(args.ifname) => idx # 0 /\ args.ifindex = idx
  /\ pc = "running" => cfg = CfgOfArgs

IInv == Types /\ Place /\ Fds /\ Index

-----------------------------------------------------------------------------
LEMMA InitInv == Init => IInv
<1> SUFFICES ASSUME Init PROVE IInv
  OBVIOUS
<1>1. Types
  BY FilesAssumption, InterfacesAssumption, CommandLinesAssumption
  DEF Init, Types
<1>2. Place /\ Fds
  BY DEF Init, Place, Fds, Steps, Early, Looking, Late, None
<1>3. Index
  BY DEF Init, Index, Early, Looking, Late
<1> QED
  BY <1>1, <1>2, <1>3 DEF IInv

LEMMA TypesStep ==
  ASSUME IInv, [Next]_vars
  PROVE  Types'
<1> USE FilesAssumption, InterfacesAssumption, CommandLinesAssumption DEF IInv, Types
<1>1. CASE ParseOption
  <2>1. Head(left) \in GivenOptions /\ Tail(left) \in Seq(GivenOptions)
    BY <1>1 DEF ParseOption
  <2> QED
    BY <1>1, <2>1 DEF ParseOption, system
<1>2. CASE SpecIsInode
  BY <1>2 DEF SpecIsInode, system
<1>3. CASE StatSpec
  BY <1>3 DEF StatSpec, system
<1>4. CASE EnterTarget
  <2>1. target \in Files
    BY <1>4 DEF EnterTarget, Fds, Looking
  <2> QED
    BY <1>4, <2>1 DEF EnterTarget, system
<1>5. CASE Restore
  <2>1. self = NsFile[Home]
    BY <1>5 DEF Restore, Fds, Looking
  <2> QED
    BY <1>5, <2>1 DEF Restore, system
<1>6. CASE EndResolve
  BY <1>6 DEF EndResolve, system
<1>7. CASE PathChanges
  BY <1>7 DEF PathChanges, local, Files
<1>8. CASE IfChanges
  BY <1>8 DEF IfChanges, local
<1>9. CASE \/ EndOfOptions \/ SpecIsBad \/ OpenSpec \/ OpenSelf \/ StatSelf
           \/ Lookup \/ CloseSelf \/ PassCfg \/ UNCHANGED vars
  <2>1. UNCHANGED <<cur, paths, ifs, had, left, args>>
    BY <1>9 DEF EndOfOptions, SpecIsBad, OpenSpec, OpenSelf, StatSelf, Lookup,
       CloseSelf, PassCfg, vars, local, system
  <2> QED
    BY <2>1
<1> QED
  BY <1>1, <1>2, <1>3, <1>4, <1>5, <1>6, <1>7, <1>8, <1>9 DEF Next, Process

LEMMA PlaceStep ==
  ASSUME IInv, [Next]_vars
  PROVE  Place'
<1> USE DEF IInv, Place, Steps, Early, Looking, Late, Go, Exit
<1>1. CASE ParseOption \/ EndOfOptions
  BY <1>1 DEF ParseOption, EndOfOptions
<1>2. CASE SpecIsInode \/ SpecIsBad \/ OpenSpec \/ StatSpec
  BY <1>2 DEF SpecIsInode, SpecIsBad, OpenSpec, StatSpec, AfterSpec
<1>3. CASE OpenSelf
  BY <1>3 DEF OpenSelf, Index
<1>4. CASE StatSelf
  <2>1. /\ pc = "stat_self" /\ cur = Home /\ idx = 0 /\ Given(args.ifname)
        /\ self = NsFile[Home] /\ target = opened /\ opened \in Files
    BY <1>4 DEF StatSelf, Fds, Index
  <2>2. SameNetns => opened.ns = Home
    <3>1. NsFile[Home] \in Files
      BY FilesAssumption DEF Files
    <3> QED
      BY <2>1, <3>1, FilesAssumption DEF SameNetns
  <2> QED
    BY <1>4, <2>1, <2>2 DEF StatSelf, SameNetns
<1>5. CASE EnterTarget
  <2>1. /\ pc = "enter" /\ cur = Home /\ idx = 0 /\ Given(args.ifname)
        /\ target = opened /\ ~SameNetns
    BY <1>5 DEF EnterTarget, Fds, Index
  <2> QED
    BY <1>5, <2>1 DEF EnterTarget, SameNetns
<1>6. CASE Lookup
  BY <1>6 DEF Lookup, SameNetns
<1>7. CASE Restore
  <2>1. self = NsFile[Home]
    BY <1>7 DEF Restore, Fds
  <2> QED
    BY <1>7, <2>1, FilesAssumption DEF Restore, RestoreFails
<1>8. CASE CloseSelf
  BY <1>8 DEF CloseSelf, Index
<1>9. CASE EndResolve \/ PassCfg
  BY <1>9 DEF EndResolve, PassCfg
<1>10. CASE PathChanges \/ IfChanges \/ UNCHANGED vars
  BY <1>10 DEF PathChanges, IfChanges, vars, local, SameNetns
<1> QED
  BY <1>1, <1>2, <1>3, <1>4, <1>5, <1>6, <1>7, <1>8, <1>9, <1>10
  DEF Next, Process

LEMMA FdsStep ==
  ASSUME IInv, [Next]_vars
  PROVE  Fds'
<1> USE DEF IInv, Fds, Steps, Early, Looking, Late, Go, Exit
<1>1. CASE ParseOption \/ EndOfOptions
  BY <1>1 DEF ParseOption, EndOfOptions
<1>2. CASE SpecIsInode \/ SpecIsBad
  BY <1>2 DEF SpecIsInode, SpecIsBad
<1>3. CASE OpenSpec
  <2>1. FileAt(args.netns) \in Files
    BY <1>3 DEF OpenSpec, FileAt, IsInode, Types, Files
  <2> QED
    BY <1>3, <2>1 DEF OpenSpec
<1>4. CASE StatSpec
  BY <1>4 DEF StatSpec, AfterSpec
<1>5. CASE OpenSelf
  <2>1. FileAt(Self) = NsFile[Home]
    BY <1>5 DEF OpenSelf, FileAt, Place
  <2> QED
    BY <1>5, <2>1 DEF OpenSelf
<1>6. CASE StatSelf \/ EnterTarget \/ Lookup \/ Restore \/ CloseSelf
  BY <1>6 DEF StatSelf, EnterTarget, Lookup, Restore, CloseSelf
<1>7. CASE EndResolve \/ PassCfg
  BY <1>7 DEF EndResolve, PassCfg, CloseTarget
<1>8. CASE PathChanges \/ IfChanges \/ UNCHANGED vars
  BY <1>8 DEF PathChanges, IfChanges, vars, local
<1> QED
  BY <1>1, <1>2, <1>3, <1>4, <1>5, <1>6, <1>7, <1>8 DEF Next, Process

LEMMA IndexStep ==
  ASSUME IInv, [Next]_vars
  PROVE  Index'
<1> USE DEF IInv, Index, Steps, Early, Looking, Late, Go, Exit, Found, Given
<1>1. CASE ParseOption \/ EndOfOptions
  BY <1>1 DEF ParseOption, EndOfOptions, system
<1>2. CASE SpecIsInode \/ SpecIsBad \/ OpenSpec
  BY <1>2 DEF SpecIsInode, SpecIsBad, OpenSpec, system
<1>3. CASE StatSpec
  BY <1>3 DEF StatSpec, AfterSpec, system, Fds, Types
<1>4. CASE OpenSelf \/ StatSelf \/ EnterTarget
  BY <1>4 DEF OpenSelf, StatSelf, EnterTarget, system
<1>5. CASE Lookup
  <2>1. /\ idx = 0 /\ cur = opened.ns /\ cur \in Namespaces
        /\ args.netnsId = opened.ino % U32 /\ args.ifname \in Names
    BY <1>5 DEF Lookup, Place, Types
  <2>2. <<cur, args.ifname, ifs[cur][args.ifname]>> \in had
    BY <2>1 DEF Types
  <2> QED
    BY <1>5, <2>1, <2>2 DEF Lookup, system
<1>6. CASE Restore
  BY <1>6 DEF Restore, RestoreFails, system
<1>7. CASE CloseSelf
  BY <1>7 DEF CloseSelf, system
<1>8. CASE EndResolve
  BY <1>8 DEF EndResolve, system, Types
<1>9. CASE PassCfg
  BY <1>9 DEF PassCfg, CfgOfArgs, system
<1>10. CASE PathChanges \/ UNCHANGED vars
  BY <1>10 DEF PathChanges, vars, local, system, CfgOfArgs
<1>11. CASE IfChanges
  <2>1. UNCHANGED <<pc, args, idx, cfg, opened>> /\ had \subseteq had'
    BY <1>11 DEF IfChanges, local
  <2> QED
    BY <2>1 DEF CfgOfArgs
<1> QED
  BY <1>1, <1>2, <1>3, <1>4, <1>5, <1>6, <1>7, <1>8, <1>9, <1>10, <1>11
  DEF Next, Process

\* The inductive invariant.
THEOREM Invariance == Spec => []IInv
<1>1. IInv /\ [Next]_vars => IInv'
  BY TypesStep, PlaceStep, FdsStep, IndexStep DEF IInv
<1> QED
  BY InitInv, <1>1, PTL DEF Spec

\* A process that traces is in the namespace it was started in, whatever
\* failed on the way (resolve_ifname_in_netns).
THEOREM ComesHome == Spec => []HomeAgain
<1>1. IInv => HomeAgain
  BY DEF IInv, Place, HomeAgain, Late
<1> QED
  BY Invariance, <1>1, PTL

\* Every way out closes netns_fd and self_fd (resolve_netns_and_ifname).
THEOREM ClosesAll == Spec => []NoFdLeft
<1>1. IInv => NoFdLeft
  BY DEF IInv, Fds, NoFdLeft, Late, Looking
<1> QED
  BY Invariance, <1>1, PTL

\* However often paths and interfaces change meanwhile, the index is one that
\* the interface had in the namespace whose id is filtered by.
THEOREM SameNamespace == Spec => []IfindexOfTarget
<1>1. ASSUME IInv, pc = "running", Given(args.ifname)
      PROVE  /\ opened.ns # NoNs /\ cfg.netns = opened.ino % U32
             /\ cfg.ifindex # 0
             /\ <<opened.ns, args.ifname, cfg.ifindex>> \in had
  <2>1. Found /\ idx # 0 /\ args.ifindex = idx /\ cfg = CfgOfArgs
    BY <1>1 DEF IInv, Index, Late
  <2> QED
    BY <2>1, FilesAssumption DEF Found, CfgOfArgs
<1>2. IInv => IfindexOfTarget
  BY <1>1 DEF IfindexOfTarget
<1> QED
  BY Invariance, <1>2, PTL

-----------------------------------------------------------------------------
(* The values that are filtered by, against the command line.  The loop of  *)
(* parse_args has read a prefix of it, and each of its results is what the   *)
(* last option of a kind in that prefix asked for.                          *)

Read == Len(line) - Len(left)

LastRead(opt, n) ==
  /\ n \in 1 .. Read /\ line[n].opt = opt
  /\ \A m \in n + 1 .. Read : line[m].opt # opt

NoneRead(opt) == \A m \in 1 .. Read : line[m].opt # opt

\* What is yet to be read is the rest of the command line.
Rest ==
  /\ line \in Seq(GivenOptions) /\ left \in Seq(GivenOptions)
  /\ Read \in Nat
  /\ \A j \in 1 .. Len(left) : left[j] = line[Read + j]
  /\ pc \notin {"parse", "exit"} => left = <<>>

MarkRead ==
  \/ NoneRead("m") /\ args.mark = 0
  \/ \E n \in 1 .. Read : LastRead("m", n) /\ args.mark = Written(line[n].arg)

IfnameRead ==
  \/ NoneRead("i") /\ args.ifname = Empty
  \/ \E n \in 1 .. Read : /\ LastRead("i", n) /\ args.ifname = line[n].arg
                          /\ Given(args.ifname)

NetnsRead ==
  \/ NoneRead("n") /\ args.netns = Empty
  \/ \E n \in 1 .. Read : /\ LastRead("n", n) /\ args.netns = line[n].arg
                          /\ Given(args.netns)

\* The namespace id: of the inode that was written, or of the open file.
Identified ==
  /\ pc \in Early \cup {"stat_target"} => args.netnsId = 0
  /\ pc \in Early => args.ifindex = 0
  /\ pc \in {"spec", "stat_target"} => Given(args.netns) \/ Given(args.ifname)
  /\ pc = "stat_target" => ~IsInode(args.netns) /\ args.netns # Bad
  /\ pc \in Looking \cup {"close_target"} \cup Late =>
       \/ ~Given(args.netns) /\ ~Given(args.ifname) /\ args.netnsId = 0
       \/ /\ IsInode(args.netns) /\ ~Given(args.ifname)
          /\ args.netnsId = Written(args.netns.inode)
       \/ /\ ~IsInode(args.netns) /\ args.netns # Bad
          /\ Given(args.netns) \/ Given(args.ifname)
          /\ opened \in Files /\ args.netnsId = opened.ino % U32
  /\ pc \in Late => args.ifindex = idx
  /\ idx # 0 => Given(args.ifname)

AsRead == Rest /\ (pc # "exit" => MarkRead /\ IfnameRead /\ NetnsRead) /\ Identified

\* The remainder is the only one in its range.
LEMMA Remainder ==
  ASSUME NEW a \in Int, NEW m \in Nat \ {0}, NEW q \in Int, NEW r \in 0 .. m - 1,
         a = m * q + r
  PROVE  a % m = r
OBVIOUS

\* A number that divides leaves a factor.
LEMMA Multiple ==
  ASSUME NEW a \in Int, NEW m \in Nat \ {0}, a % m = 0
  PROVE  \E q \in Int : a = m * q
OBVIOUS

\* A number that is accepted is passed on as it was written, a negative one
\* modulo 2^32 (strtoul and parse_u32).
LEMMA ParsedAsWritten ==
  ASSUME NEW n \in Numbers, Parses(n)
  PROVE  ParseU32(n) = Written(n) /\ Written(n) \in 0 .. U32 - 1
<1> USE WidthsAssumption
<1>1. n.neg \in BOOLEAN /\ n.mag \in Nat /\ n.mag < ULong
  BY DEF Numbers, Parses
<1>2. CASE ~n.neg
  <2>1. Strtoul(n) = n.mag /\ Written(n) = n.mag /\ n.mag \in 0 .. U32 - 1
    BY <1>1, <1>2 DEF Strtoul, Written, Parses
  <2>2. n.mag % U32 = n.mag
    BY <2>1, Remainder, n.mag = U32 * 0 + n.mag
  <2> QED
    BY <2>1, <2>2 DEF ParseU32
<1>3. CASE n.neg /\ n.mag = 0
  <2>1. ULong % ULong = 0 /\ 0 % U32 = 0
    BY Remainder, ULong = ULong * 1 + 0, 0 = U32 * 0 + 0
  <2> QED
    BY <1>3, <2>1 DEF ParseU32, Strtoul, Written
<1>4. CASE n.neg /\ n.mag # 0
  <2> DEFINE r == ULong - n.mag
  <2>1. r \in 1 .. ULong - 1
    BY <1>1, <1>4
  <2>2. r % ULong = r
    BY <2>1, Remainder, r = ULong * 0 + r
  <2>3. r \in 0 .. U32 - 1 /\ Strtoul(n) = r
    BY <1>4, <2>1, <2>2 DEF Parses, Strtoul
  <2>4. r % U32 = r
    BY <2>3, Remainder, r = U32 * 0 + r
  <2>5. PICK k \in Int : ULong = U32 * k
    BY Multiple
  <2>6. (0 - n.mag) % U32 = r
    <3>1. 0 - n.mag = U32 * (0 - k) + r
      BY <1>1, <2>5
    <3>2. 0 - n.mag \in Int /\ 0 - k \in Int /\ r \in 0 .. U32 - 1
      BY <1>1, <2>3, <2>5
    <3> HIDE DEF r
    <3> QED
      BY <3>1, <3>2, Remainder
  <2> QED
    BY <1>4, <2>3, <2>4, <2>6 DEF ParseU32, Written
<1> QED
  BY <1>1, <1>2, <1>3, <1>4

LEMMA InitRead == Init => AsRead
<1> SUFFICES ASSUME Init PROVE AsRead
  OBVIOUS
<1>1. line \in Seq(GivenOptions) /\ left = line /\ Read = 0
  BY CommandLinesAssumption DEF Init, Read
<1> QED
  BY <1>1 DEF Init, AsRead, Rest, MarkRead, IfnameRead, NetnsRead, NoneRead,
     Identified, Early, Looking, Late

LEMMA RestStep ==
  ASSUME Rest, [Next]_vars
  PROVE  /\ Rest'
         /\ line' = line
         /\ IF ParseOption THEN Read' = Read + 1 /\ Head(left) = line[Read + 1]
                                /\ Head(left) \in GivenOptions
                           ELSE Read' = Read
<1> USE DEF Rest, Read
<1>1. CASE ParseOption
  <2>1. /\ left # <<>> /\ left' = Tail(left) /\ line' = line
        /\ pc' \in {"parse", "exit"}
    BY <1>1 DEF ParseOption, Go, Exit
  <2>2. /\ Len(left) \in Nat \ {0} /\ Len(left') = Len(left) - 1
        /\ left' \in Seq(GivenOptions) /\ Len(line) \in Nat
        /\ Head(left) = left[1] /\ Head(left) \in GivenOptions
    BY <2>1
  <2>3. \A j \in 1 .. Len(left') : left'[j] = left[j + 1]
    BY <2>1, <2>2
  <2> QED
    BY <1>1, <2>1, <2>2, <2>3
<1>2. CASE ~ParseOption
  <2>1. left' = left /\ line' = line
    BY <1>2 DEF Next, Process, EndOfOptions, SpecIsInode, SpecIsBad, OpenSpec,
       StatSpec, OpenSelf, StatSelf, EnterTarget, Lookup, Restore, CloseSelf,
       EndResolve, PassCfg, PathChanges, IfChanges, vars, local
  <2>2. pc' \notin {"parse", "exit"} => left = <<>>
    BY <1>2 DEF Next, Process, EndOfOptions, SpecIsInode, SpecIsBad, OpenSpec,
       StatSpec, OpenSelf, StatSelf, EnterTarget, Lookup, Restore, CloseSelf,
       EndResolve, PassCfg, PathChanges, IfChanges, vars, local, Go, Exit
  <2> QED
    BY <1>2, <2>1, <2>2
<1> QED
  BY <1>1, <1>2

\* Options are read one by one; an option of another kind changes nothing.
LEMMA ReadStep ==
  ASSUME IInv, AsRead, [Next]_vars, pc' # "exit"
  PROVE  MarkRead' /\ IfnameRead' /\ NetnsRead'
<1> USE DEF IInv, AsRead, Rest
<1>1. /\ line' = line /\ Read \in Nat /\ Read' \in Nat
      /\ IF ParseOption THEN Read' = Read + 1 /\ Head(left) = line[Read + 1]
                             /\ Head(left) \in GivenOptions
                        ELSE Read' = Read
  BY RestStep
<1>2. CASE ParseOption
  <2> DEFINE o == line[Read + 1]
  <2>1. /\ pc # "exit" /\ Read' = Read + 1 /\ line' = line /\ Read \in Nat
        /\ o \in GivenOptions
        /\ \/ /\ o.opt = "m" /\ Parses(o.arg)
              /\ args' = [args EXCEPT !.mark = ParseU32(o.arg)]
           \/ /\ o.opt = "i" /\ Given(o.arg)
              /\ args' = [args EXCEPT !.ifname = o.arg]
           \/ /\ o.opt = "n" /\ Given(o.arg)
              /\ args' = [args EXCEPT !.netns = o.arg]
           \/ o.opt = "other" /\ args' = args
    BY <1>1, <1>2 DEF ParseOption, Go, Exit
  <2>2. args = [mark |-> args.mark, ifname |-> args.ifname, netns |-> args.netns,
                netnsId |-> args.netnsId, ifindex |-> args.ifindex]
    BY DEF Types
  <2>3. PICK k \in Nat : k = Read + 1
    BY <2>1
  <2>4. ASSUME NEW opt, o.opt = opt
        PROVE  LastRead(opt, k)'
    BY <2>1, <2>4, <2>3 DEF LastRead
  <2>5. ASSUME NEW opt, o.opt # opt
        PROVE  /\ NoneRead(opt) => NoneRead(opt)'
               /\ \A n \in 1 .. Read : LastRead(opt, n) => LastRead(opt, n)'
    <3>1. \A m \in 1 .. Read' : m \in 1 .. Read \/ m = Read + 1
      BY <2>1
    <3>2. \A n \in 1 .. Read : /\ n \in 1 .. Read'
                               /\ \A m \in n + 1 .. Read' :
                                    m \in n + 1 .. Read \/ m = Read + 1
      BY <2>1, SMTT(20)
    <3> QED
      BY <2>1, <2>5, <3>1, <3>2 DEF LastRead, NoneRead
  <2>6. Read + 1 \in 1 .. Read' /\ \A n \in 1 .. Read : n \in 1 .. Read'
    BY <2>1
  <2> HIDE DEF o, IInv, AsRead, Rest
  <2>7. MarkRead /\ IfnameRead /\ NetnsRead
    BY <2>1 DEF AsRead
  <2>8. MarkRead'
    <3>1. CASE o.opt = "m"
      <4>1. args'.mark = Written(o.arg) /\ line'[k] = o
        <5>1. o.arg \in Numbers
          BY <2>1, <3>1, CommandLinesAssumption
        <5> QED
          BY <2>1, <2>2, <2>3, <3>1, <5>1, ParsedAsWritten DEF o
      <4> QED
        BY <2>4, <2>6, <2>3, <3>1, <4>1 DEF MarkRead
    <3>2. CASE o.opt # "m"
      <4>1. args'.mark = args.mark
        BY <2>1, <2>2, <3>2
      <4> QED
        BY <2>1, <2>5, <2>6, <2>7, <3>2, <4>1 DEF MarkRead
    <3> QED
      BY <3>1, <3>2
  <2>9. IfnameRead'
    <3>1. CASE o.opt = "i"
      <4>1. args'.ifname = o.arg /\ line'[k] = o /\ Given(o.arg)
        BY <2>1, <2>2, <2>3, <3>1 DEF o
      <4> QED
        BY <2>4, <2>6, <2>3, <3>1, <4>1 DEF IfnameRead
    <3>2. CASE o.opt # "i"
      <4>1. args'.ifname = args.ifname
        BY <2>1, <2>2, <3>2
      <4> QED
        BY <2>1, <2>5, <2>6, <2>7, <3>2, <4>1 DEF IfnameRead
    <3> QED
      BY <3>1, <3>2
  <2>10. NetnsRead'
    <3>1. CASE o.opt = "n"
      <4>1. args'.netns = o.arg /\ line'[k] = o /\ Given(o.arg)
        BY <2>1, <2>2, <2>3, <3>1 DEF o
      <4> QED
        BY <2>4, <2>6, <2>3, <3>1, <4>1 DEF NetnsRead
    <3>2. CASE o.opt # "n"
      <4>1. args'.netns = args.netns
        BY <2>1, <2>2, <3>2
      <4> QED
        BY <2>1, <2>5, <2>6, <2>7, <3>2, <4>1 DEF NetnsRead
    <3> QED
      BY <3>1, <3>2
  <2> QED
    BY <2>8, <2>9, <2>10
<1>3. CASE ~ParseOption
  <2>1. /\ pc # "exit"
        /\ args'.mark = args.mark /\ args'.ifname = args.ifname
        /\ args'.netns = args.netns
    BY <1>3 DEF Next, Process, EndOfOptions, SpecIsInode, SpecIsBad, OpenSpec,
       StatSpec, OpenSelf, StatSelf, EnterTarget, Lookup, Restore, CloseSelf,
       EndResolve, PassCfg, PathChanges, IfChanges, vars, local, Types
  <2> QED
    BY <1>1, <1>3, <2>1,
       SMTT(20) DEF MarkRead, IfnameRead, NetnsRead, LastRead, NoneRead
<1> QED
  BY <1>2, <1>3

LEMMA IdentifiedStep ==
  ASSUME IInv, AsRead, [Next]_vars
  PROVE  Identified'
<1> USE DEF Identified, Early, Looking, Late, Go, Exit, IsInode, Given
<1>1. Identified /\ Types /\ Types' /\ Fds /\ Index
  BY TypesStep DEF IInv, AsRead
<1>2. DOMAIN paths = DOMAIN InitPaths /\ DOMAIN paths' = DOMAIN InitPaths
  BY <1>1 DEF Types
<1>3. CASE ParseOption
  BY <1>1, <1>2, <1>3 DEF ParseOption, Index, Types
<1>4. CASE EndOfOptions
  BY <1>1, <1>2, <1>4 DEF EndOfOptions, Index, Types
<1>5. CASE SpecIsInode
  <2>1. CASE Parses(args.netns.inode)
    <3>1. NetnsRead /\ pc = "spec"
      BY <1>5 DEF SpecIsInode, AsRead
    <3>2. PICK n \in 1 .. Read : args.netns = line[n] .arg /\ line[n].opt = "n"
                                 /\ line[n] \in GivenOptions
      BY <1>5, <3>1 DEF NetnsRead, SpecIsInode, LastRead, AsRead, Rest, Read
    <3>3. args.netns.inode \in Numbers
      BY <1>2, <1>5, <3>2, CommandLinesAssumption DEF SpecIsInode
    <3>4. args'.netnsId = Written(args.netns.inode)
      BY <1>1, <1>5, <2>1, <3>3, ParsedAsWritten DEF SpecIsInode, Types
    <3> QED
      BY <1>1, <1>2, <1>5, <3>4 DEF SpecIsInode, Types, Index
  <2>2. CASE ~Parses(args.netns.inode)
    BY <1>1, <1>2, <1>5, <2>2 DEF SpecIsInode, Index
  <2> QED
    BY <2>1, <2>2
<1>6. CASE SpecIsBad \/ OpenSpec
  BY <1>1, <1>2, <1>6 DEF SpecIsBad, OpenSpec, Index, system
<1>7. CASE StatSpec
  BY <1>1, <1>2, <1>7 DEF StatSpec, AfterSpec, Index, Fds, Types, system
<1>8. CASE OpenSelf \/ StatSelf \/ EnterTarget \/ Restore \/ CloseSelf
  BY <1>1, <1>2, <1>8 DEF OpenSelf, StatSelf, EnterTarget, Restore, CloseSelf,
     RestoreFails, system
<1>9. CASE Lookup
  BY <1>1, <1>2, <1>9 DEF Lookup, Index, system
<1>10. CASE EndResolve
  BY <1>1, <1>2, <1>10 DEF EndResolve, Types, system
<1>11. CASE PassCfg \/ PathChanges \/ IfChanges \/ UNCHANGED vars
  BY <1>1, <1>2, <1>11 DEF PassCfg, PathChanges, IfChanges, vars, local
<1> QED
  BY <1>3, <1>4, <1>5, <1>6, <1>7, <1>8, <1>9, <1>10, <1>11 DEF Next, Process

\* What was read of the command line is what its last options ask for.
LEMMA AsReadInvariance == Spec => [](IInv /\ AsRead)
<1>1. Init => IInv /\ AsRead
  BY InitInv, InitRead
<1>2. IInv /\ AsRead /\ [Next]_vars => (IInv /\ AsRead)'
  BY TypesStep, PlaceStep, FdsStep, IndexStep, RestStep, ReadStep,
     IdentifiedStep DEF IInv, AsRead
<1> QED
  BY <1>1, <1>2, PTL DEF Spec

\* Once all is read, the last option of a kind is the last of the line.
LEMMA LastOfLine ==
  ASSUME Rest, left = <<>>, NEW opt
  PROVE  /\ NoneRead(opt) => Asked(opt) = {}
         /\ \A n \in 1 .. Read :
              LastRead(opt, n) => Asked(opt) # {} /\ Last(opt) = line[n].arg
<1>1. DOMAIN line = 1 .. Read /\ Read \in Nat
  BY DEF Rest, Read
<1>2. ASSUME NEW n \in 1 .. Read, LastRead(opt, n)
      PROVE  Asked(opt) # {} /\ Last(opt) = line[n].arg
  <2>1. n \in Asked(opt) /\ \A m \in Asked(opt) : m \in Nat /\ m <= n
    BY <1>1, <1>2 DEF Asked, LastRead
  <2>2. \A k \in Asked(opt) : (\A m \in Asked(opt) : m <= k) => k = n
    BY <1>1, <2>1
  <2> QED
    BY <2>1, <2>2 DEF Last
<1> QED
  BY <1>1, <1>2 DEF Asked, NoneRead

\* A packet passes the filters in the programs if and only if it passes those
\* of the command line, for any command line and words of any width.
THEOREM FiltersTrue == Spec => []FiltersAsAsked
<1>1. ASSUME IInv, AsRead, pc = "running", NEW s \in TestSkbs
      PROVE  P!FilterMeta(s) <=> Matches(s)
  <2>1. /\ Rest /\ left = <<>> /\ MarkRead /\ IfnameRead /\ NetnsRead
        /\ Identified /\ Index /\ cfg = CfgOfArgs /\ args.ifindex = idx
    BY <1>1 DEF AsRead, Rest, IInv, Index, Identified, Late
  <2>2. s.mark = cfg.mark \/ cfg.mark = 0
        <=> (Asks("m", Written(Last("m"))) => s.mark = Written(Last("m")))
    BY <2>1, LastOfLine DEF MarkRead, Asks, CfgOfArgs
  <2>3. Asked("i") # {} <=> Given(args.ifname)
    BY <2>1, LastOfLine DEF IfnameRead, Given
  <2>4. Asked("n") # {} <=> Given(args.netns)
    BY <2>1, LastOfLine DEF NetnsRead, Given
  <2>5. Given(args.netns) => args.netns = Last("n")
    BY <2>1, LastOfLine DEF NetnsRead, Given
  <2>6. Given(args.netns) => cfg.netns = AskedNetns
    BY <1>1, <2>1, <2>5 DEF Identified, CfgOfArgs, AskedNetns, Late, Looking
  <2>7. Given(args.ifname) => cfg.netns # 0 /\ cfg.ifindex # 0
    <3>1. ASSUME Given(args.ifname)
          PROVE  /\ idx # 0 /\ opened.ns \in Namespaces
                 /\ opened \in Files /\ args.netnsId = opened.ino % U32
      BY <1>1, <2>1, <3>1 DEF Index, Found, Late, Identified, Given
    <3>2. ASSUME Given(args.ifname)
          PROVE  opened.ino % U32 # 0
      <4>1. opened.ino \in 1 .. U32 - 1
        BY <3>1, <3>2, FilesAssumption
      <4> QED
        BY <4>1, WidthsAssumption
    <3> QED
      BY <2>1, <3>1, <3>2 DEF CfgOfArgs
  <2>8. ~Given(args.ifname) => cfg.ifindex = 0
    BY <2>1 DEF Identified, CfgOfArgs
  <2>9. ~Given(args.ifname) /\ ~Given(args.netns) => cfg.netns = 0
    BY <1>1, <2>1 DEF Identified, CfgOfArgs, Late, IsInode, Given
  <2> QED
    BY <2>2, <2>3, <2>4, <2>5, <2>6, <2>7, <2>8, <2>9
    DEF P!FilterMeta, P!GetNetns, Matches, Asks
<1>2. IInv /\ AsRead => FiltersAsAsked
  BY <1>1 DEF FiltersAsAsked
<1> QED
  BY AsReadInvariance, <1>2, PTL
=============================================================================
