------------------------------- MODULE Packet -------------------------------
(***************************************************************************)
(* What the kprobe program src/bpf/skbtracer.bpf.c reads from one sk_buff: *)
(* the decision to trace it (filter) and the record it writes about it     *)
(* (set_meta, set_tuple).  Nothing here has state; Capture runs it.        *)
(*                                                                         *)
(* A packet is abstracted to what those functions branch on or copy:       *)
(*   mac      mac_len is not 0 (the L2 filter applies, else the L3 one)     *)
(*   l2, l3   the verdict of the injected filter on the bytes from the MAC  *)
(*            header, and on the bytes from the network header              *)
(*   dev      namespace inode of the packet's device, 0 if it has none      *)
(*   sock     namespace inode of its socket, 0 if it has none               *)
(*   mark, ifindex                                                          *)
(*   ver      the version nibble at the L3 offset: 4, 6, or 0 for others    *)
(*   depth    how many headers probe_read can reach: 0 not even 20 bytes,   *)
(*            1 the 20 bytes of an iphdr, 2 the whole L3 header, 3 also L4  *)
(*   l4, addrs, ports, flags    what is read where those headers should be  *)
(* In all of them 0 is the value the code uses for "nothing there".         *)
(***************************************************************************)
EXTENDS Naturals

CONSTANTS Skbs,     \* the packets that can reach a traced function
          Cfg,      \* struct skb_config: [netns, mark, ifindex]
          Stale     \* the unknown content of reused ring buffer memory

SkbType == [id : Nat, mac : BOOLEAN, l2 : BOOLEAN, l3 : BOOLEAN,
            dev : Nat, sock : Nat, mark : Nat, ifindex : Nat,
            ver : {0, 4, 6}, depth : 0 .. 3, l4 : Nat,
            addrs : Nat, ports : Nat, flags : Nat]

TCP == 6
UDP == 17

ASSUME SkbsAssumption == Skbs \subseteq SkbType
ASSUME CfgAssumption == Cfg \in [netns : Nat, mark : Nat, ifindex : Nat]
ASSUME StaleAssumption == Stale \notin Nat

-----------------------------------------------------------------------------
(* The decision to trace.                                                  *)

\* The device's namespace, and only when that reads as 0 the socket's.
GetNetns(s) == IF s.dev # 0 THEN s.dev ELSE s.sock

\* Fault: a namespace match is taken to settle the question.
FilterMetaNetnsOnly(s) ==
  IF Cfg.netns # 0 THEN GetNetns(s) = Cfg.netns
  ELSE /\ Cfg.mark # 0 => s.mark = Cfg.mark
       /\ Cfg.ifindex # 0 => s.ifindex = Cfg.ifindex

\* A configured value of 0 means that the filter is off.
FilterMeta(s) ==
  /\ Cfg.netns # 0 => GetNetns(s) = Cfg.netns
  /\ Cfg.mark # 0 => s.mark = Cfg.mark
  /\ Cfg.ifindex # 0 => s.ifindex = Cfg.ifindex

FilterPcap(s) == IF s.mac THEN s.l2 ELSE s.l3

Filter(s) == FilterPcap(s) /\ FilterMeta(s)

-----------------------------------------------------------------------------
(* The record.  old is what the reserved memory held before: the ring       *)
(* buffer hands out memory that is not cleared.                            *)

Field == Nat \cup {Stale}

\* The record old after the fields of new were assigned.
Overwrite(old, new) ==
  [f \in DOMAIN old |-> IF f \in DOMAIN new THEN new[f] ELSE old[f]]

MetaType == [netns : Field, mark : Field, ifindex : Field]

TupleType == [l3 : Field, l4 : Field, addrs : Field, ports : Field,
              flags : Field]

\* Fault: the namespace column is read from the device alone.
SetMetaNoSocket(old, s) ==
  Overwrite(old, [netns |-> s.dev, mark |-> s.mark, ifindex |-> s.ifindex])

SetMeta(old, s) ==
  Overwrite(old, [netns |-> GetNetns(s), mark |-> s.mark,
                  ifindex |-> s.ifindex])

\* Fault: ports are left as they were in the reused memory.
ClearTupleButPorts(old) ==
  Overwrite(old, [l3 |-> 0, l4 |-> 0, flags |-> 0, addrs |-> 0])

\* set_tuple first clears every field it may leave unwritten.
ClearTuple(old) ==
  Overwrite(old, [l3 |-> 0, l4 |-> 0, flags |-> 0, ports |-> 0, addrs |-> 0])

\* The two reads that must succeed before any field is written: the 20
\* bytes that give the version, then the header of that version.
IsIP(s) == \/ s.ver = 4 /\ s.depth >= 1
           \/ s.ver = 6 /\ s.depth >= 2

SetL3(t, s) == Overwrite(t, [l3 |-> s.ver, l4 |-> s.l4, addrs |-> s.addrs])

\* Fault: every transport header is taken to begin with two ports.
SetL4AnyPorts(t, s) ==
  IF s.depth = 3 THEN Overwrite(t, [ports |-> s.ports]) ELSE t

\* TCP writes ports and flags, UDP the ports alone, anything else neither.
SetL4(t, s) ==
  IF s.depth = 3 /\ s.l4 = TCP
  THEN Overwrite(t, [ports |-> s.ports, flags |-> s.flags])
  ELSE IF s.depth = 3 /\ s.l4 = UDP
       THEN Overwrite(t, [ports |-> s.ports])
       ELSE t

SetTuple(old, s) ==
  IF IsIP(s) THEN SetL4(SetL3(ClearTuple(old), s), s) ELSE ClearTuple(old)

-----------------------------------------------------------------------------
(* What a reader of the trace takes a line to mean, stated on the packet    *)
(* and not on the steps above.                                             *)

\* The namespace columns and the filters the user gave agree.
AgreesWithCfg(meta) ==
  /\ Cfg.netns # 0 => meta.netns = Cfg.netns
  /\ Cfg.mark # 0 => meta.mark = Cfg.mark
  /\ Cfg.ifindex # 0 => meta.ifindex = Cfg.ifindex

\* A line shows addresses only of an IP packet and then that packet's, ports
\* only of TCP and UDP and then that packet's, flags only of TCP: everything
\* else shows as absent.
DescribesTuple(t, s) ==
  /\ t.l3 \in {0, s.ver}
  /\ t.addrs = IF t.l3 # 0 THEN s.addrs ELSE 0
  /\ t.l4 = IF t.l3 # 0 THEN s.l4 ELSE 0
  /\ t.ports \in {0, s.ports}
  /\ t.ports # 0 => t.l4 \in {TCP, UDP}
  /\ t.flags \in {0, s.flags}
  /\ t.flags # 0 => t.l4 = TCP

DescribesMeta(m, s) ==
  /\ m.mark = s.mark
  /\ m.ifindex = s.ifindex
  /\ m.netns \in {s.dev, s.sock}
=============================================================================
