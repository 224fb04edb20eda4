------------------------------ MODULE Options ------------------------------
(***************************************************************************)
(* From the command line to the configuration of the kprobe programs:      *)
(* parse_args and what it calls in src/cfg/options.cpp, and the passing of  *)
(* the values in TraceMgr::init, src/trace/trace.cpp.                      *)
(*                                                                         *)
(* To find the index of an interface of another network namespace the      *)
(* process goes there and comes back.  Meanwhile the system changes: a path *)
(* like /proc/<pid>/ns/net can come to mean another file when the process   *)
(* ends, and interfaces come, go and change their indexes.                 *)
(*                                                                         *)
(* An option is [opt, arg].  The argument of "m" is a number as strtoul     *)
(* reads it, [neg, mag, junk] (junk: other characters follow, or nothing    *)
(* was there); that of "i" is a name; that of "n" a path, [inode |-> a       *)
(* number], or Bad for what is neither.  Empty stands for an empty word.    *)
(* Options that only choose columns are "other"; "wrong" is -h, or what      *)
(* getopt or the check of -t refuse.  A file is [dev, ino, ns], where ns is   *)
(* the namespace it gives access to, NoNs for an ordinary file.             *)
(***************************************************************************)
EXTENDS Integers, Sequences

CONSTANTS CommandLines, \* sequences of options
          Namespaces, NoNs,
          Home,         \* the namespace that the tracer is started in
          Self,         \* the path /proc/self/ns/net
          NsFile,       \* the file of each namespace
          InitPaths,    \* the file that each other path means, at first
          OtherFiles,   \* files that a path may come to mean
          Names, Indexes,
          InitIfs,      \* interfaces at first: index of each name, 0 for none
          MaxChanges,   \* bound on the changes of the system
          U32, ULong,   \* 2 to the widths of uint32_t and unsigned long
          Empty, Bad

Files == {NsFile[ns] : ns \in Namespaces} \cup OtherFiles
         \cup {InitPaths[p] : p \in DOMAIN InitPaths}

GivenOptions == UNION {{l[n] : n \in DOMAIN l} : l \in CommandLines}

\* What strtoul finds in a word.
Numbers == [neg : BOOLEAN, mag : Nat, junk : BOOLEAN]

ASSUME CommandLinesAssumption ==
  /\ \A l \in CommandLines : l \in Seq(GivenOptions)
  /\ \A o \in GivenOptions :
       /\ o.opt = "i" => o.arg \in Names \cup {Empty}
       /\ o.opt = "m" => o.arg \in Numbers
       /\ o.opt = "n" => \/ o.arg \in DOMAIN InitPaths \cup {Self, Empty, Bad}
                         \/ o.arg.inode \in Numbers

\* An unsigned long is as wide as uint32_t, or a multiple of that.
ASSUME WidthsAssumption ==
  /\ U32 \in Nat \ {0} /\ ULong \in Nat \ {0}
  /\ ULong % U32 = 0

\* A file is what its device and inode are; a namespace file can be told, and
\* its inode is an unsigned int of the kernel, and not 0.
ASSUME FilesAssumption ==
  /\ Home \in Namespaces /\ NoNs \notin Namespaces
  /\ \A ns \in Namespaces : NsFile[ns].ns = ns
  /\ \A f \in Files : f.ns \in Namespaces \cup {NoNs} /\ f.ino \in Nat
  /\ \A f \in Files : f.ns \in Namespaces => f.ino \in 1 .. U32 - 1
  /\ \A f, g \in Files : f.dev = g.dev /\ f.ino = g.ino => f = g

ASSUME InterfacesAssumption ==
  /\ Empty \notin Names
  /\ InitIfs \in [Namespaces -> [Names -> Indexes \cup {0}]]
  /\ InitPaths \in [DOMAIN InitPaths -> Files]

VARIABLES pc,           \* the next step
          left,         \* the options that getopt_long has yet to return
          args,         \* Options::args
          target,       \* the file behind netns_fd, None when closed
          self,         \* the file behind self_fd, None when closed
          cur,          \* the network namespace of the process
          idx,          \* what if_nametoindex returned
          cfg,          \* skel->rodata->cfg
          paths, ifs,   \* the system: path -> file, namespace -> name -> index
          changes,      \* how often the system changed
          line,         \* the command line (for the properties)
          opened,       \* the file that -n was found to mean (the same)
          had           \* the indexes that interfaces ever had (the same)

local == <<pc, left, args, target, self, cur, idx, cfg, line, opened>>
system == <<paths, ifs, changes, had>>
vars == <<local, system>>

None == [dev |-> 0, ino |-> 0, ns |-> NoNs]

Given(arg) == arg # Empty

Init ==
  /\ line \in CommandLines
  /\ pc = "parse" /\ left = line
  /\ args = [mark |-> 0, ifname |-> Empty, netns |-> Empty, netnsId |-> 0,
             ifindex |-> 0]
  /\ target = None /\ self = None /\ cur = Home /\ idx = 0
  /\ cfg = [netns |-> 0, mark |-> 0, ifindex |-> 0]
  /\ paths = InitPaths /\ ifs = InitIfs /\ changes = 0
  /\ opened = None
  /\ had = {<<ns, name, ifs[ns][name]>> : ns \in Namespaces, name \in Names}

Go(step) == pc' = step
Exit == pc' = "exit"

-----------------------------------------------------------------------------
(* parse_args.                                                              *)

\* strtoul: the magnitude, negated in unsigned arithmetic for a minus sign;
\* out of range when it does not fit.
Strtoul(n) == IF n.neg THEN (ULong - n.mag) % ULong ELSE n.mag

\* Fault: no comparison with UINT32_MAX.
ParsesAny(n) == ~n.junk /\ n.mag < ULong

Parses(n) == ~n.junk /\ n.mag < ULong /\ Strtoul(n) < U32

ParseU32(n) == Strtoul(n) % U32

ParseOption ==
  /\ pc = "parse" /\ left # <<>>
  /\ LET o == Head(left)
     IN  \/ /\ o.opt = "m" /\ Parses(o.arg)
            /\ args' = [args EXCEPT !.mark = ParseU32(o.arg)]
            /\ Go("parse")
         \/ /\ o.opt = "i" /\ Given(o.arg)
            /\ args' = [args EXCEPT !.ifname = o.arg]
            /\ Go("parse")
         \/ /\ o.opt = "n" /\ Given(o.arg)
            /\ args' = [args EXCEPT !.netns = o.arg]
            /\ Go("parse")
         \/ o.opt = "other" /\ Go("parse") /\ UNCHANGED args
         \/ /\ \/ o.opt = "wrong"
               \/ o.opt = "m" /\ ~Parses(o.arg)
               \/ o.opt \in {"i", "n"} /\ ~Given(o.arg)
            /\ Exit /\ UNCHANGED args
  /\ left' = Tail(left)
  /\ UNCHANGED <<target, self, cur, idx, cfg, line, opened, system>>

\* resolve_netns_and_ifname has nothing to do without -i and -n.
EndOfOptions ==
  /\ pc = "parse" /\ left = <<>>
  /\ Go(IF Given(args.ifname) \/ Given(args.netns) THEN "spec" ELSE "ready")
  /\ UNCHANGED <<left, args, target, self, cur, idx, cfg, line, opened, system>>

-----------------------------------------------------------------------------
(* parse_netns_spec.                                                        *)

IsInode(spec) == spec \notin DOMAIN paths \cup {Empty, Bad, Self}

\* What a path means; without -n it is Self, the process's own namespace.
FileAt(spec) == IF spec \in {Empty, Self} THEN NsFile[cur] ELSE paths[spec]

\* What follows once filter_netns_id is set.
AfterSpec == IF Given(args.ifname) THEN "open_self" ELSE "close_target"

SpecIsInode ==
  /\ pc = "spec" /\ IsInode(args.netns)
  /\ IF Parses(args.netns.inode)
     THEN /\ args' = [args EXCEPT !.netnsId = ParseU32(args.netns.inode)]
          \* an interface cannot be looked up without a descriptor
          /\ IF Given(args.ifname) THEN Exit ELSE Go("close_target")
     ELSE Exit /\ UNCHANGED args
  /\ UNCHANGED <<left, target, self, cur, idx, cfg, line, opened, system>>

SpecIsBad ==
  /\ pc = "spec" /\ args.netns = Bad
  /\ Exit
  /\ UNCHANGED <<left, args, target, self, cur, idx, cfg, line, opened, system>>

\* open may fail.
OpenSpec ==
  /\ pc = "spec" /\ ~IsInode(args.netns) /\ args.netns # Bad
  /\ \/ /\ target' = FileAt(args.netns)
        /\ opened' = target'
        /\ Go("stat_target")
     \/ Exit /\ UNCHANGED <<target, opened>>
  /\ UNCHANGED <<left, args, self, cur, idx, cfg, line, system>>

\* The id is that of the open file, whatever the path means by now.
StatSpec ==
  /\ pc = "stat_target"
  /\ \/ /\ args' = [args EXCEPT !.netnsId = target.ino % U32]
        /\ Go(AfterSpec) /\ UNCHANGED target
     \/ target' = None /\ Exit /\ UNCHANGED args
  /\ UNCHANGED <<left, self, cur, idx, cfg, line, opened, system>>

-----------------------------------------------------------------------------
(* resolve_ifname_in_netns.  A failure there leads to close_target, and from *)
(* there to exit: idx is 0.                                                 *)

OpenSelf ==
  /\ pc = "open_self"
  /\ \/ self' = FileAt(Self) /\ Go("stat_self")
     \/ Go("close_target") /\ UNCHANGED self
  /\ UNCHANGED <<left, args, target, cur, idx, cfg, line, opened, system>>

\* Fault: descriptors of the same inode are taken for the same file.
SameInode == self.ino = target.ino

SameNetns == self.dev = target.dev /\ self.ino = target.ino

StatSelf ==
  /\ pc = "stat_self"
  /\ \/ Go(IF SameNetns THEN "lookup" ELSE "enter") /\ UNCHANGED self
     \/ self' = None /\ Go("close_target")
  /\ UNCHANGED <<left, args, target, cur, idx, cfg, line, opened, system>>

\* setns refuses a file that is no namespace, and may refuse any.
EnterTarget ==
  /\ pc = "enter"
  /\ \/ /\ target.ns # NoNs /\ cur' = target.ns
        /\ Go("lookup") /\ UNCHANGED self
     \/ self' = None /\ Go("close_target") /\ UNCHANGED cur
  /\ UNCHANGED <<left, args, target, idx, cfg, line, opened, system>>

\* if_nametoindex may fail for want of a socket, too.
Lookup ==
  /\ pc = "lookup"
  /\ idx' \in {ifs[cur][args.ifname], 0}
  /\ Go(IF SameNetns THEN "close_self" ELSE "restore")
  /\ UNCHANGED <<left, args, target, self, cur, cfg, line, opened, system>>

\* Fault: a failure to return is overlooked.
RestoreFailsQuietly == UNCHANGED idx

\* The function fails: the index is not used.
RestoreFails == idx' = 0

\* setns back may fail as well.
Restore ==
  /\ pc = "restore"
  /\ Go("close_self")
  /\ \/ cur' = self.ns /\ UNCHANGED idx
     \/ RestoreFails /\ UNCHANGED cur
  /\ UNCHANGED <<left, args, target, self, cfg, line, opened, system>>

CloseSelf ==
  /\ pc = "close_self"
  /\ self' = None
  /\ Go("close_target")
  /\ UNCHANGED <<left, args, target, cur, idx, cfg, line, opened, system>>

\* Fault: the descriptor is closed only when the interface was found.
CloseTargetIfFound == target' = IF idx = 0 THEN target ELSE None

CloseTarget == target' = None

EndResolve ==
  /\ pc = "close_target"
  /\ CloseTarget
  /\ IF Given(args.ifname) /\ idx = 0 THEN Exit /\ UNCHANGED args
     ELSE Go("ready") /\ args' = [args EXCEPT !.ifindex = idx]
  /\ UNCHANGED <<left, self, cur, idx, cfg, line, opened, system>>

-----------------------------------------------------------------------------
(* TraceMgr::init.                                                          *)

CfgOfArgs ==
  [netns |-> args.netnsId, ifindex |-> args.ifindex, mark |-> args.mark]

PassCfg ==
  /\ pc = "ready"
  /\ cfg' = CfgOfArgs
  /\ Go("running")
  /\ UNCHANGED <<left, args, target, self, cur, idx, line, opened, system>>

-----------------------------------------------------------------------------
(* The system around the process.                                           *)

\* A path comes to mean another file.
PathChanges ==
  /\ changes < MaxChanges
  /\ \E p \in DOMAIN paths, f \in OtherFiles :
       paths' = [paths EXCEPT ![p] = f]
  /\ changes' = changes + 1
  /\ UNCHANGED <<local, ifs, had>>

\* An interface gets another index, or vanishes: moved, replaced, renamed.
IfChanges ==
  /\ changes < MaxChanges
  /\ \E ns \in Namespaces, name \in Names, i \in Indexes \cup {0} :
       /\ ifs' = [ifs EXCEPT ![ns][name] = i]
       /\ had' = had \cup {<<ns, name, i>>}
  /\ changes' = changes + 1
  /\ UNCHANGED <<local, paths>>

Process == \/ ParseOption \/ EndOfOptions \/ SpecIsInode \/ SpecIsBad
           \/ OpenSpec \/ StatSpec \/ OpenSelf \/ StatSelf \/ EnterTarget
           \/ Lookup \/ Restore \/ CloseSelf \/ EndResolve \/ PassCfg

Next == Process \/ PathChanges \/ IfChanges

Spec == Init /\ [][Next]_vars

-----------------------------------------------------------------------------
\* The process that goes on to trace is back in its own namespace
\* (resolve_ifname_in_netns): it would take its own interfaces for others'.
HomeAgain == pc \in {"ready", "running"} => cur = Home

\* No way out of resolve_netns_and_ifname leaves a descriptor open, which
\* would keep a namespace alive.
NoFdLeft == pc \in {"exit", "ready", "running"} => target = None /\ self = None

\* The index filtered by is one that the named interface had in the namespace
\* that is filtered by, the one that -n meant when it was opened or the
\* process's own: path and interface are never taken of two namespaces,
\* however the system changes meanwhile (resolve_netns_and_ifname).
IfindexOfTarget ==
  pc = "running" /\ Given(args.ifname) =>
    /\ opened.ns # NoNs
    /\ cfg.netns = opened.ino % U32
    /\ cfg.ifindex # 0
    /\ <<opened.ns, args.ifname, cfg.ifindex>> \in had

P == INSTANCE Packet WITH Skbs <- {}, Stale <- "stale", Cfg <- cfg

\* The last argument of an option counts.
Asked(opt) == {n \in DOMAIN line : line[n].opt = opt}
Last(opt) == line[CHOOSE n \in Asked(opt) : \A m \in Asked(opt) : m <= n].arg

\* The number that was written; negative ones as uint32_t has them.
Written(n) == IF n.neg THEN (0 - n.mag) % U32 ELSE n.mag

\* 0 asks for nothing, whether it is a mark or a namespace.
Asks(opt, value) == Asked(opt) # {} /\ value # 0

\* The inode of an ordinary file names no namespace; it is cut to uint32_t.
AskedNetns == IF IsInode(Last("n")) THEN Written(Last("n").inode)
              ELSE opened.ino % U32

Matches(s) ==
  /\ Asks("m", Written(Last("m"))) => s.mark = Written(Last("m"))
  /\ Asks("n", AskedNetns) => P!GetNetns(s) = AskedNetns
  /\ Asked("i") # {} => /\ P!GetNetns(s) = cfg.netns
                        /\ s.ifindex = cfg.ifindex

TestSkbs == [dev : 0 .. U32 - 1, sock : {0}, mark : 0 .. U32 - 1,
             ifindex : Indexes]

\* A packet is traced if and only if it matches every filter of the command
\* line: the values arrive in the programs and none is lost, truncated or
\* overruled, and 0 is never taken for a value to compare with (parse_args,
\* TraceMgr::init, filter_meta).
FiltersAsAsked ==
  pc = "running" => \A s \in TestSkbs : P!FilterMeta(s) <=> Matches(s)
=============================================================================
