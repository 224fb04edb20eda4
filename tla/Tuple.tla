------------------------------- MODULE Tuple -------------------------------
(***************************************************************************)
(* The TUPLE column, from the bytes of a packet to the printed line: the    *)
(* search for the L3 header behind VLAN tags (get_l3_header_offset), the    *)
(* reads of set_tuple, both in src/bpf/skbtracer.bpf.c, and format_tuple of *)
(* src/output/tuple_output.cpp.  Packet takes the outcome of the search for *)
(* given; here it is computed.                                             *)
(*                                                                         *)
(* Offsets are in units of four bytes from network_header, the size of a    *)
(* VLAN tag.  A frame is a packet and the memory that it lies in.           *)
(*   proto    skb->protocol: "8021q", "8021ad", or "other"                  *)
(*   tags     the protocol that each VLAN tag encapsulates, outermost first *)
(*   ip       the unit at which its IP header begins, NoIp if it has none   *)
(*   hlen     the length of that header; l4, addrs what it says             *)
(*   trans    whether a transport header follows (not in a later fragment), *)
(*   ports, flags    with these                                             *)
(*   end      how many units of all that are in the packet's buffer         *)
(*   reach    how many units of memory can be read: bpf_probe_read_kernel   *)
(*            fails behind these, and knows nothing of the packet's end     *)
(*   nibbles  what the units 0 to 2 of memory begin with                    *)
(*   other    [hlen, l4, addrs, ports, flags] as found in a place that does *)
(*            not hold the packet's own                                     *)
(***************************************************************************)
EXTENDS Naturals, Sequences

CONSTANTS Frames,   \* the frames that can reach a traced function
          NoIp,     \* "there is no IP header"
          Absent    \* the dash that stands for nothing in a line

Tags == {"8021q", "8021ad"}
MaxTags == 2

TCP == 6
UDP == 17

\* Sizes of the headers that are read.
IpLen == 5
Ip6Len == 10
TcpLen == 5
UdpLen == 2

\* A packet with at most as many tags as the program looks for, cut off
\* anywhere; its own bytes can be read.  Behind the tags it has an IP header or
\* something else, which may begin like one.
WellFormed(f) ==
  /\ f.tags \in Seq(Tags \cup {"other"}) /\ Len(f.tags) <= MaxTags
  /\ f.proto \in Tags \cup {"other"}
  /\ f.proto = "other" <=> f.tags = <<>>
  /\ \A n \in 1 .. Len(f.tags) : f.tags[n] = "other" <=> n = Len(f.tags)
  /\ f.nibbles \in [1 .. MaxTags + 1 -> 0 .. 15]
  /\ f.ip \in {Len(f.tags), NoIp}
  /\ f.ip # NoIp => f.hlen >= IpLen
  /\ f.ip # NoIp /\ f.ip < f.end =>
       \/ f.nibbles[f.ip + 1] = 4
       \/ f.nibbles[f.ip + 1] = 6 /\ f.hlen = Ip6Len
  /\ {f.hlen, f.l4, f.addrs, f.ports, f.flags, f.end, f.reach} \subseteq Nat
  /\ {f.other.hlen, f.other.l4, f.other.addrs, f.other.ports, f.other.flags}
     \subseteq Nat
  /\ f.end <= f.reach /\ f.trans \in BOOLEAN

ASSUME FramesAssumption ==
  /\ \A f \in Frames : WellFormed(f)
  /\ NoIp \notin Nat

VARIABLES frame,    \* the packet
          pc,       \* where the program, and then print_entry, is
          i,        \* the loop counter of get_l3_header_offset
          off,      \* l3_off
          proto,    \* its local proto
          tuple,    \* the tuple of the record
          line      \* the parts of the TUPLE column, in order

vars == <<frame, pc, i, off, proto, tuple, line>>

Cleared == [l3 |-> 0, l4 |-> 0, addrs |-> 0, ports |-> 0, flags |-> 0]

Init ==
  /\ frame \in Frames
  /\ pc = "walk"
  /\ i = 0
  /\ off = 0
  /\ proto = frame.proto
  /\ tuple = Cleared
  /\ line = <<>>

Readable(at, len) == at + len <= frame.reach

Go(next) == pc' = next

-----------------------------------------------------------------------------
(* get_l3_header_offset.                                                    *)

\* Fault: only one kind of tag is known.
IsVlanQ(p) == p = "8021q"

IsVlan(p) == p \in Tags

\* Fault: a second tag is not looked for.
WalksOnce == i < 1 /\ IsVlan(proto)

WalksOn == i < MaxTags /\ IsVlan(proto)

\* The protocol in the tag at off, or in what is taken for one behind the end
\* of the packet; a read that fails leaves 0, no protocol.
Encapsulated ==
  IF ~Readable(off, 1) THEN {"other"}
  ELSE IF off < frame.end /\ off + 1 \in DOMAIN frame.tags
       THEN {frame.tags[off + 1]}
       ELSE Tags \cup {"other"}

SkipTag ==
  /\ pc = "walk" /\ WalksOn
  /\ proto' \in Encapsulated
  /\ off' = off + 1
  /\ i' = i + 1
  /\ UNCHANGED <<frame, pc, tuple, line>>

EndWalk ==
  /\ pc = "walk" /\ ~WalksOn
  /\ Go("version")
  /\ UNCHANGED <<frame, i, off, proto, tuple, line>>

-----------------------------------------------------------------------------
(* set_tuple and __set_tuple.                                               *)

Version == frame.nibbles[off + 1]

\* The 20 bytes of an IPv4 header are read even to learn that it is IPv6.
ReadVersion ==
  /\ pc = "version"
  /\ Go(IF Readable(off, IpLen) /\ Version \in {4, 6} THEN "header"
        ELSE "format")
  /\ UNCHANGED <<frame, i, off, proto, tuple, line>>

HeaderLen == IF Version = 4 THEN IpLen ELSE Ip6Len

\* Where in its header the protocol and the addresses end.
L4End == IF Version = 4 THEN 3 ELSE 2
AddrsEnd == HeaderLen

\* A field of the IP header that ends len units into it, at off: the packet's
\* own, unless its header is elsewhere or the packet ends before.
InHeader(own, other, len) ==
  IF off = frame.ip /\ off + len <= frame.end THEN own ELSE other

L4Here == InHeader(frame.l4, frame.other.l4, L4End)
AddrsHere == InHeader(frame.addrs, frame.other.addrs, AddrsEnd)

ReadHeader ==
  /\ pc = "header"
  /\ IF Readable(off, HeaderLen)
     THEN /\ tuple' = [tuple EXCEPT !.l3 = Version,
                                    !.l4 = L4Here, !.addrs = AddrsHere]
          /\ Go("transport")
     ELSE Go("format") /\ UNCHANGED tuple
  /\ UNCHANGED <<frame, i, off, proto, line>>

\* IPv4 says how long its header is, IPv6 has one length.
LenHere ==
  IF Version = 4 THEN InHeader(frame.hlen, frame.other.hlen, 1) ELSE Ip6Len

\* Fault: an IPv4 header is taken to have no options.
TransportAtFixed == off + HeaderLen

\* trans_hdr.
TransportAt == off + LenHere

\* A field that ends len units into a transport header at the unit at.
InTransport(at, own, other, len) ==
  IF /\ frame.trans /\ frame.ip # NoIp /\ at = frame.ip + frame.hlen
     /\ at + len <= frame.end
  THEN own ELSE other

\* The ports are the first four bytes, the flags are in the fourteenth.
PortsAt(at) == InTransport(at, frame.ports, frame.other.ports, 1)
FlagsAt(at) == InTransport(at, frame.flags, frame.other.flags, 4)

ReadTransport ==
  /\ pc = "transport"
  /\ tuple' =
       IF tuple.l4 = TCP /\ Readable(TransportAt, TcpLen)
       THEN [tuple EXCEPT !.ports = PortsAt(TransportAt),
                          !.flags = FlagsAt(TransportAt)]
       ELSE IF tuple.l4 = UDP /\ Readable(TransportAt, UdpLen)
            THEN [tuple EXCEPT !.ports = PortsAt(TransportAt)]
            ELSE tuple
  /\ Go("format")
  /\ UNCHANGED <<frame, i, off, proto, line>>

-----------------------------------------------------------------------------
(* TupleOutput::format_tuple.                                               *)

HasPorts(l4) == l4 \in {TCP, UDP}

\* An address of all zeros prints as absent.
Address(addrs) == IF addrs = 0 THEN Absent ELSE addrs

\* l4_proto 0 stands for an empty tuple.
FormatTuple(t) ==
  IF t.l4 = 0 THEN <<Absent>>
  ELSE IF HasPorts(t.l4) THEN <<Address(t.addrs), t.ports, t.l4>>
  ELSE <<Address(t.addrs), t.l4>>

Format ==
  /\ pc = "format"
  /\ line' = FormatTuple(tuple)
  /\ Go("done")
  /\ UNCHANGED <<frame, i, off, proto, tuple>>

Next == \/ SkipTag \/ EndWalk \/ ReadVersion \/ ReadHeader \/ ReadTransport
        \/ Format

Spec == Init /\ [][Next]_vars

-----------------------------------------------------------------------------
(* The same frame as Packet describes it.                                   *)

P == INSTANCE Packet WITH Skbs <- {}, Stale <- "stale",
                          Cfg <- [netns |-> 0, mark |-> 0, ifindex |-> 0]

TransportLen(l4) == IF l4 = TCP THEN TcpLen ELSE IF l4 = UDP THEN UdpLen ELSE 0

\* How many headers can be read from off on.
Depth == IF ~Readable(off, IpLen) THEN 0
         ELSE IF Version \in {4, 6} /\ ~Readable(off, HeaderLen) THEN 1
         ELSE IF ~Readable(off + LenHere, TransportLen(L4Here)) THEN 2
         ELSE 3

AsSkb == [ver |-> IF Version \in {4, 6} THEN Version ELSE 0,
          depth |-> Depth, l4 |-> L4Here, addrs |-> AddrsHere,
          ports |-> PortsAt(off + LenHere), flags |-> FlagsAt(off + LenHere)]

\* The step-by-step reads come to the tuple that Packet computes in one go
\* from what memory holds: no order of successful and failed reads leaves
\* another one (set_tuple).
AgreesWithPacket ==
  pc = "format" => tuple = P!SetTuple(Cleared, AsSkb)

\* What the packet holds is shown as it holds it.  A line is printed of a
\* packet whose tags are all there only if what follows them begins like an IP
\* header; and if that is one, then its addresses and its protocol, as far as
\* they are in the packet, appear in the line and nothing else in their place,
\* and for ports those that are in the packet, or 0 if the whole transport
\* header cannot be read.  Only what the packet does not hold, because it is
\* cut off, a later fragment, or not IP at all, is filled from other bytes
\* (get_l3_header_offset, __set_tuple, format_tuple).
TupleTrue ==
  LET at == Len(frame.tags)
      Holds(len) == frame.ip = at /\ at + len <= frame.end
      first == frame.nibbles[at + 1]
  IN  pc = "done" /\ line # <<Absent>> /\ at <= frame.end =>
        /\ first \in {4, 6}
        /\ Holds(IF first = 4 THEN IpLen ELSE Ip6Len) =>
             line[1] = Address(frame.addrs)
        /\ Holds(IF first = 4 THEN 3 ELSE 2) =>
             /\ line[Len(line)] = frame.l4
             /\ Len(line) = 3 <=> HasPorts(frame.l4)
        /\ Holds(frame.hlen + 1) /\ frame.trans /\ HasPorts(frame.l4) =>
             line[2] \in {frame.ports, 0}

\* An IP packet with its whole headers, however many tags are before them and
\* whatever is behind them, shows up as one, and with its ports if it has any
\* (get_l3_header_offset, __set_tuple).
IpSeen ==
  pc = "done" /\ frame.ip # NoIp /\ frame.l4 # 0
  /\ frame.end >= frame.ip + frame.hlen + TransportLen(frame.l4)
    => /\ line[1] = Address(frame.addrs) /\ line[Len(line)] = frame.l4
       /\ HasPorts(frame.l4) /\ frame.trans =>
            line = <<line[1], frame.ports, frame.l4>>

-----------------------------------------------------------------------------
\* --output-tuple prints what its help text lists, ip, port, proto and tcpflags
\* (src/cfg/options.cpp), of a packet whose IP header was read.
ShownAsHelpSays ==
  pc = "done" /\ tuple.l3 # 0 =>
    /\ line[1] = Address(tuple.addrs) /\ line[Len(line)] = tuple.l4
    /\ HasPorts(tuple.l4) => line[2] = tuple.ports
    /\ tuple.flags # 0 => \E n \in DOMAIN line : line[n] = tuple.flags
=============================================================================
