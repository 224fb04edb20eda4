---------------------------- MODULE TupleProofs ----------------------------
(***************************************************************************)
(* Proofs about Tuple, for any packet, cut off anywhere, in any memory.     *)
(*                                                                         *)
(* The argument: the search ends behind the tags if all of them are in the  *)
(* packet; and wherever it ends, the record is what Packet makes of the     *)
(* memory there.  What that memory holds of the packet's own decides what   *)
(* the line shows.                                                         *)
(***************************************************************************)
EXTENDS Tuple, TLAPS

Types ==
  /\ frame \in Frames /\ WellFormed(frame)
  /\ pc \in {"walk", "version", "header", "transport", "format", "done"}
  /\ i = off /\ off \in 0 .. MaxTags

TagsHeld == Len(frame.tags) <= frame.end

\* The program's proto is that of the frame.
Walk ==
  pc = "walk" /\ TagsHeld =>
    /\ off <= Len(frame.tags)
    /\ proto = IF off = 0 THEN frame.proto ELSE frame.tags[off]

\* After the search: behind the tags.
Found == pc # "walk" /\ TagsHeld => off = Len(frame.tags)

\* There is something like an IP header at off.
LooksIp == Version \in {4, 6} /\ Readable(off, IpLen)

\* The fields of the L3 header, with ports and flags.
TupleOf(ports, flags) ==
  [l3 |-> Version, l4 |-> L4Here, addrs |-> AddrsHere, ports |-> ports,
   flags |-> flags]

Whole == Readable(off + LenHere, TransportLen(L4Here))

\* The tuple after set_tuple: empty, or of the IP header, with the ports of a
\* transport header that can be read.
Complete ==
  tuple =
    IF LooksIp /\ Readable(off, HeaderLen)
    THEN TupleOf(
           IF L4Here \in {TCP, UDP} /\ Whole THEN PortsAt(off + LenHere) ELSE 0,
           IF L4Here = TCP /\ Whole THEN FlagsAt(off + LenHere) ELSE 0)
    ELSE Cleared

Reads ==
  /\ pc \in {"walk", "version", "header"} => tuple = Cleared
  /\ pc = "header" => LooksIp
  /\ pc = "transport" =>
       LooksIp /\ Readable(off, HeaderLen) /\ tuple = TupleOf(0, 0)
  /\ pc \in {"format", "done"} => Complete
  /\ pc = "done" => line = FormatTuple(tuple)

IInv == Types /\ Walk /\ Found /\ Reads

-----------------------------------------------------------------------------
LEMMA InitInv == Init => IInv
<1> SUFFICES ASSUME Init PROVE IInv
  OBVIOUS
<1>1. WellFormed(frame) /\ Len(frame.tags) \in Nat
  BY FramesAssumption DEF Init, WellFormed
<1>2. Types
  BY <1>1 DEF Init, Types, MaxTags
<1> QED
  BY <1>1, <1>2 DEF Init, IInv, Walk, Found, Reads

\* The numbers of a frame.
LEMMA FrameTyped ==
  ASSUME Types
  PROVE  /\ Len(frame.tags) \in 0 .. 2 /\ off \in 0 .. 2
         /\ DOMAIN frame.tags = 1 .. Len(frame.tags)
         /\ frame.reach \in Nat /\ frame.end \in Nat /\ frame.end <= frame.reach
         /\ frame.hlen \in Nat /\ frame.l4 \in Nat
         /\ frame.addrs \in Nat /\ frame.ports \in Nat /\ frame.flags \in Nat
         /\ frame.other.hlen \in Nat
<1>1. Len(frame.tags) \in Nat /\ Len(frame.tags) <= 2
  BY DEF Types, WellFormed, MaxTags
<1>2. DOMAIN frame.tags = 1 .. Len(frame.tags)
  BY DEF Types, WellFormed
<1>3. {frame.hlen, frame.l4, frame.addrs, frame.ports, frame.flags, frame.end,
       frame.reach} \subseteq Nat
  BY DEF Types, WellFormed
<1>4. frame.other.hlen \in Nat /\ frame.end <= frame.reach
  BY DEF Types, WellFormed
<1>5. off \in 0 .. 2
  BY DEF Types, MaxTags
<1>6. Len(frame.tags) \in 0 .. 2
  <2>1. \A n \in Nat : n <= 2 => n \in 0 .. 2
    OBVIOUS
  <2> QED
    BY <1>1, <2>1
<1> QED
  BY <1>2, <1>3, <1>4, <1>5, <1>6

\* What follows from the position alone stays while the position does.
LEMMA SamePlace ==
  ASSUME UNCHANGED <<frame, off>>
  PROVE  /\ Version' = Version /\ HeaderLen' = HeaderLen
         /\ LooksIp' = LooksIp /\ L4Here' = L4Here /\ AddrsHere' = AddrsHere
         /\ LenHere' = LenHere /\ Whole' = Whole /\ TagsHeld' = TagsHeld
         /\ Readable(off, HeaderLen)' = Readable(off, HeaderLen)
         /\ PortsAt(off + LenHere)' = PortsAt(off + LenHere)
         /\ FlagsAt(off + LenHere)' = FlagsAt(off + LenHere)
         /\ TupleOf(0, 0)' = TupleOf(0, 0)
         /\ tuple' = tuple => Complete' = Complete
BY DEF Version, HeaderLen, LooksIp, L4Here, AddrsHere, LenHere, Whole, TagsHeld,
   Readable, PortsAt, FlagsAt, InTransport, InHeader, L4End, AddrsEnd, TupleOf,
   Complete

\* The last tag says that no further one follows, and no other does.
LEMMA LastIsOther ==
  ASSUME Types
  PROVE  \A n \in 1 .. Len(frame.tags) :
           frame.tags[n] = "other" <=> n = Len(frame.tags)
BY DEF Types, WellFormed

\* The search does not end before a tag that is there.
LEMMA WalkEnds ==
  ASSUME Types, Walk, pc = "walk", TagsHeld, ~WalksOn
  PROVE  off = Len(frame.tags)
<1>1. /\ off <= Len(frame.tags)
      /\ proto = IF off = 0 THEN frame.proto ELSE frame.tags[off]
  BY DEF Walk
<1>2. CASE off = 0
  BY <1>1, <1>2, FrameTyped
  DEF WalksOn, Types, WellFormed, MaxTags, IsVlan, Tags
<1>3. CASE off \in 1 .. Len(frame.tags)
  <2>1. frame.tags[off] \in Tags \cup {"other"}
    BY <1>3 DEF Types, WellFormed
  <2>2. frame.tags[off] = "other" <=> off = Len(frame.tags)
    BY <1>3, LastIsOther
  <2>3. Len(frame.tags) \in 0 .. 2 /\ off \in 0 .. 2 /\ off # 0 /\ i = off
    BY <1>3, FrameTyped DEF Types
  <2>4. CASE i < MaxTags
    BY <1>1, <2>1, <2>2, <2>3, <2>4 DEF WalksOn, IsVlan
  <2>5. CASE ~(i < MaxTags)
    <3>1. \A m, n \in 0 .. 2 : m <= n /\ ~(m < 2) => m = n
      OBVIOUS
    <3> QED
      BY <1>1, <2>3, <2>5, <3>1 DEF MaxTags
  <2> QED
    BY <2>4, <2>5
<1> QED
  BY <1>1, <1>2, <1>3, FrameTyped

\* Where the search goes on there is a tag.
LEMMA WalkHasTag ==
  ASSUME Types, Walk, pc = "walk", TagsHeld, WalksOn
  PROVE  off < Len(frame.tags)
<1>1. /\ off <= Len(frame.tags) /\ proto \in Tags
      /\ proto = IF off = 0 THEN frame.proto ELSE frame.tags[off]
  BY DEF Walk, WalksOn, IsVlan
<1>2. CASE off = 0
  <2>1. frame.tags # <<>>
    BY <1>1, <1>2 DEF Types, WellFormed, Tags
  <2>2. frame.tags \in Seq(Tags \cup {"other"})
    BY DEF Types, WellFormed
  <2> QED
    BY <1>2, <2>1, <2>2, FrameTyped
<1>3. CASE off \in 1 .. Len(frame.tags)
  <2>1. frame.tags[off] = "other" <=> off = Len(frame.tags)
    BY <1>3, LastIsOther
  <2>2. Len(frame.tags) \in Nat /\ off # 0
    BY <1>3, FrameTyped
  <2>3. frame.tags[off] # "other"
    BY <1>1, <2>2 DEF Tags
  <2> QED
    BY <1>1, <2>1, <2>2, <2>3, FrameTyped
<1> QED
  BY <1>1, <1>2, <1>3, FrameTyped

LEMMA NextInv == IInv /\ [Next]_vars => IInv'
<1> SUFFICES ASSUME IInv, [Next]_vars PROVE IInv'
  OBVIOUS
<1> USE DEF IInv, Go
<1>1. CASE SkipTag
  <2>1. /\ pc = "walk" /\ Types /\ off < 2 /\ off \in 0 .. 2
        /\ off' = off + 1 /\ i' = i + 1 /\ UNCHANGED <<frame, pc, tuple, line>>
        /\ proto' \in Encapsulated
    BY <1>1, FrameTyped DEF SkipTag, WalksOn, Types, MaxTags
  <2>2. Types'
    BY <2>1 DEF Types, MaxTags
  <2>3. Walk'
    <3> SUFFICES ASSUME TagsHeld
                 PROVE  off' <= Len(frame.tags) /\ proto' = frame.tags[off']
      BY <2>1 DEF Walk, TagsHeld
    <3>1. off < Len(frame.tags)
      BY <1>1, WalkHasTag DEF SkipTag
    <3>2. off + 1 \in DOMAIN frame.tags /\ off < frame.end /\ Readable(off, 1)
      BY <2>1, <3>1, FrameTyped DEF TagsHeld, Readable
    <3> QED
      BY <2>1, <3>1, <3>2, FrameTyped DEF Encapsulated
  <2> QED
    BY <2>1, <2>2, <2>3 DEF Found, Reads
<1>2. CASE EndWalk
  <2>1. /\ pc = "walk" /\ pc' = "version"
        /\ UNCHANGED <<frame, i, off, proto, tuple, line>>
    BY <1>2 DEF EndWalk
  <2>2. Found'
    BY <1>2, <2>1, WalkEnds DEF EndWalk, Found, TagsHeld
  <2> QED
    BY <2>1, <2>2 DEF Types, Walk, Reads
<1>3. CASE ReadVersion
  <2>1. /\ pc = "version" /\ pc' \in {"header", "format"}
        /\ UNCHANGED <<frame, i, off, proto, tuple, line>>
    BY <1>3 DEF ReadVersion
  <2>2. pc' = "header" <=> LooksIp
    BY <1>3 DEF ReadVersion, LooksIp
  <2>3. pc' = "format" => Complete
    BY <2>1, <2>2 DEF Complete, Reads
  <2> QED
    BY <2>1, <2>2, <2>3, SamePlace DEF Types, Walk, Found, Reads, TagsHeld
<1>4. CASE ReadHeader
  <2>1. /\ pc = "header" /\ pc' \in {"transport", "format"} /\ LooksIp
        /\ UNCHANGED <<frame, i, off, proto, line>> /\ tuple = Cleared
    BY <1>4 DEF ReadHeader, Reads
  <2>2. pc' = "transport" => Readable(off, HeaderLen) /\ tuple' = TupleOf(0, 0)
    BY <1>4, <2>1 DEF ReadHeader, Cleared, TupleOf
  <2>3. pc' = "format" => tuple' = Cleared /\ ~Readable(off, HeaderLen)
    BY <1>4, <2>1 DEF ReadHeader
  <2>4. pc' = "format" => Complete'
    BY <2>1, <2>3, SamePlace DEF Complete
  <2> QED
    BY <2>1, <2>2, <2>4, SamePlace DEF Types, Walk, Found, Reads
<1>5. CASE ReadTransport
  <2>1. /\ pc = "transport" /\ pc' = "format" /\ LooksIp /\ tuple = TupleOf(0, 0)
        /\ Readable(off, HeaderLen) /\ UNCHANGED <<frame, i, off, proto, line>>
    BY <1>5 DEF ReadTransport, Reads
  <2>2. tuple.l4 = L4Here /\ TransportAt = off + LenHere
    BY <2>1 DEF TupleOf, TransportAt
  <2> DEFINE ports == PortsAt(off + LenHere)
             flags == FlagsAt(off + LenHere)
  <2>3. tuple' = TupleOf(IF L4Here \in {TCP, UDP} /\ Whole THEN ports ELSE 0,
                         IF L4Here = TCP /\ Whole THEN flags ELSE 0)
    <3>1. CASE L4Here = TCP
      <4>1. tuple' = IF Whole THEN [tuple EXCEPT !.ports = ports, !.flags = flags]
                     ELSE tuple
        BY <1>5, <2>2, <3>1 DEF ReadTransport, Whole, TransportLen, TCP, UDP
      <4> QED
        BY <2>1, <3>1, <4>1 DEF TupleOf
    <3>2. CASE L4Here = UDP
      <4>1. tuple' = IF Whole THEN [tuple EXCEPT !.ports = ports] ELSE tuple
        BY <1>5, <2>2, <3>2 DEF ReadTransport, Whole, TransportLen, TCP, UDP
      <4> QED
        BY <2>1, <3>2, <4>1 DEF TupleOf, TCP, UDP
    <3>3. CASE L4Here \notin {TCP, UDP}
      <4>1. tuple' = tuple
        BY <1>5, <2>2, <3>3 DEF ReadTransport
      <4> QED
        BY <2>1, <3>3, <4>1 DEF TupleOf
    <3> QED
      BY <3>1, <3>2, <3>3
  <2>4. Complete'
    <3>1. \A p, f : TupleOf(p, f)' = TupleOf(p, f)
      BY <2>1, SamePlace DEF TupleOf
    <3> HIDE DEF ports, flags
    <3>2. /\ tuple' = IF LooksIp /\ Readable(off, HeaderLen)
                      THEN TupleOf(IF L4Here \in {TCP, UDP} /\ Whole THEN ports ELSE 0,
                                   IF L4Here = TCP /\ Whole THEN flags ELSE 0)
                      ELSE Cleared
      BY <2>1, <2>3
    <3> QED
      BY <2>1, <3>1, <3>2, SamePlace DEF Complete, ports, flags
  <2> QED
    BY <2>1, <2>4, SamePlace DEF Types, Walk, Found, Reads
<1>6. CASE Format
  <2>1. /\ pc = "format" /\ pc' = "done" /\ line' = FormatTuple(tuple)
        /\ UNCHANGED <<frame, i, off, proto, tuple>>
    BY <1>6 DEF Format
  <2> QED
    BY <2>1, SamePlace DEF Types, Walk, Found, Reads, FormatTuple, HasPorts, Address
<1>7. CASE UNCHANGED vars
  BY <1>7, SamePlace DEF vars, Types, Walk, Found, Reads
<1> QED
  BY <1>1, <1>2, <1>3, <1>4, <1>5, <1>6, <1>7 DEF Next

\* The inductive invariant.
THEOREM Invariance == Spec => []IInv
  BY InitInv, NextInv, PTL DEF Spec

\* The reads, one after the other, come to the tuple that Packet defines
\* without steps, wherever the headers are and the packet ends (set_tuple).
THEOREM TupleOfPacket == Spec => []AgreesWithPacket
<1>1. ASSUME IInv, pc = "format"
      PROVE  tuple = P!SetTuple(Cleared, AsSkb)
  <2> USE DEF P!SetTuple, P!ClearTuple, P!Overwrite, P!IsIP
  <2>1. P!ClearTuple(Cleared) = Cleared
    BY DEF Cleared
  <2>2. Complete /\ Types
    BY <1>1 DEF IInv, Reads
  <2>3. CASE ~(LooksIp /\ Readable(off, HeaderLen))
    <3>1. tuple = Cleared
      BY <2>2, <2>3 DEF Complete
    <3>2. ~P!IsIP(AsSkb)
      BY <2>2, <2>3 DEF AsSkb, Depth, LooksIp, HeaderLen
    <3> QED
      BY <2>1, <3>1, <3>2
  <2>4. CASE LooksIp /\ Readable(off, HeaderLen)
    <3> DEFINE ports == PortsAt(off + LenHere)
               flags == FlagsAt(off + LenHere)
    <3>1. /\ AsSkb.ver = Version /\ AsSkb.depth = IF Whole THEN 3 ELSE 2
          /\ AsSkb.l4 = L4Here /\ AsSkb.addrs = AddrsHere
          /\ AsSkb.ports = ports /\ AsSkb.flags = flags
      BY <2>4 DEF AsSkb, Depth, LooksIp, Whole
    <3> HIDE DEF ports, flags
    <3>2. P!IsIP(AsSkb)
      BY <2>4, <3>1 DEF LooksIp
    <3>3. P!SetL3(Cleared, AsSkb) = TupleOf(0, 0)
      BY <3>1 DEF P!SetL3, Cleared, TupleOf
    <3>4. P!SetL4(TupleOf(0, 0), AsSkb) = TupleOf(
             IF L4Here \in {TCP, UDP} /\ Whole THEN ports ELSE 0,
             IF L4Here = TCP /\ Whole THEN flags ELSE 0)
      <4>1. P!TCP = TCP /\ P!UDP = UDP /\ TCP # UDP
        BY DEF P!TCP, P!UDP, TCP, UDP
      <4>2. \A p : P!Overwrite(TupleOf(0, 0), [ports |-> p]) = TupleOf(p, 0)
        BY DEF TupleOf
      <4>3. \A p, f : P!Overwrite(TupleOf(0, 0), [ports |-> p, flags |-> f])
                      = TupleOf(p, f)
        BY DEF TupleOf
      <4> HIDE DEF P!Overwrite
      <4> QED
        BY <3>1, <4>1, <4>2, <4>3 DEF P!SetL4
    <3>5. tuple = P!SetL4(TupleOf(0, 0), AsSkb)
      BY <2>2, <2>4, <3>4 DEF Complete, ports, flags
    <3> QED
      BY <2>1, <3>2, <3>3, <3>5 DEF P!SetTuple
  <2> QED
    BY <2>3, <2>4
<1>2. IInv => AgreesWithPacket
  BY <1>1 DEF AgreesWithPacket
<1> QED
  BY Invariance, <1>2, PTL

\* What a printed line is made of.
LEMMA LineOf ==
  ASSUME IInv, pc = "done", line # <<Absent>>
  PROVE  /\ LooksIp /\ Readable(off, HeaderLen)
         /\ line = IF HasPorts(L4Here)
                   THEN <<Address(AddrsHere),
                          IF Whole THEN PortsAt(off + LenHere) ELSE 0, L4Here>>
                   ELSE <<Address(AddrsHere), L4Here>>
<1> DEFINE ports == PortsAt(off + LenHere)
<1>1. Complete /\ line = FormatTuple(tuple)
  BY DEF IInv, Reads
<1>2. LooksIp /\ Readable(off, HeaderLen)
  BY <1>1 DEF Complete, FormatTuple, Cleared
<1>3. /\ tuple.l4 = L4Here /\ tuple.addrs = AddrsHere
      /\ tuple.ports = IF L4Here \in {TCP, UDP} /\ Whole THEN ports ELSE 0
  BY <1>1, <1>2 DEF Complete, TupleOf
<1> HIDE DEF ports
<1>4. line = IF HasPorts(L4Here) THEN <<Address(AddrsHere), tuple.ports, L4Here>>
             ELSE <<Address(AddrsHere), L4Here>>
  BY <1>1, <1>3 DEF FormatTuple
<1>5. HasPorts(L4Here) <=> L4Here \in {TCP, UDP}
  BY DEF HasPorts
<1> QED
  BY <1>2, <1>3, <1>4, <1>5 DEF ports

\* The ports of the packet's transport header are found where it is.
LEMMA OwnPorts ==
  ASSUME Types, frame.ip = off, frame.trans, LenHere = frame.hlen,
         off + frame.hlen + 1 <= frame.end
  PROVE  PortsAt(off + LenHere) = frame.ports
<1>1. frame.ip # NoIp
  BY FrameTyped, FramesAssumption
<1> QED
  BY <1>1 DEF PortsAt, InTransport

\* A line has the packet's addresses, protocol and ports wherever the packet
\* has them, and is printed only of what begins like an IP header, however
\* many tags are in front of it and wherever it is cut off (set_tuple).
THEOREM ShowsPacket == Spec => []TupleTrue
<1>1. ASSUME IInv, pc = "done", line # <<Absent>>, Len(frame.tags) <= frame.end
      PROVE  LET at == Len(frame.tags)
                 Holds(len) == frame.ip = at /\ at + len <= frame.end
                 first == frame.nibbles[at + 1]
             IN  /\ first \in {4, 6}
                 /\ Holds(IF first = 4 THEN IpLen ELSE Ip6Len) =>
                      line[1] = Address(frame.addrs)
                 /\ Holds(IF first = 4 THEN 3 ELSE 2) =>
                      /\ line[Len(line)] = frame.l4
                      /\ Len(line) = 3 <=> HasPorts(frame.l4)
                 /\ Holds(frame.hlen + 1) /\ frame.trans /\ HasPorts(frame.l4) =>
                      line[2] \in {frame.ports, 0}
  <2> DEFINE Holds(len) == frame.ip = off /\ off + len <= frame.end
  <2>1. /\ Types /\ off = Len(frame.tags) /\ Version = frame.nibbles[off + 1]
        /\ Version \in {4, 6}
    BY <1>1, LineOf DEF IInv, Found, TagsHeld, Version, LooksIp
  <2>2. line = IF HasPorts(L4Here)
               THEN <<Address(AddrsHere),
                      IF Whole THEN PortsAt(off + LenHere) ELSE 0, L4Here>>
               ELSE <<Address(AddrsHere), L4Here>>
    BY <1>1, LineOf
  <2>3. ASSUME Holds(IF Version = 4 THEN IpLen ELSE Ip6Len)
        PROVE  line[1] = Address(frame.addrs)
    <3>1. AddrsHere = frame.addrs
      BY <2>3 DEF AddrsHere, AddrsEnd, HeaderLen, InHeader
    <3> QED
      BY <2>2, <3>1
  <2>4. ASSUME Holds(IF Version = 4 THEN 3 ELSE 2)
        PROVE  /\ line[Len(line)] = frame.l4
               /\ Len(line) = 3 <=> HasPorts(frame.l4)
    <3>1. L4Here = frame.l4
      BY <2>4 DEF L4Here, L4End, InHeader
    <3> QED
      BY <2>2, <3>1
  <2>5. ASSUME Holds(frame.hlen + 1), frame.trans, HasPorts(frame.l4)
        PROVE  line[2] \in {frame.ports, 0}
    <3> off \in 0 .. 2 /\ frame.end \in Nat /\ frame.hlen \in Nat
      BY <2>1, FrameTyped
    <3>1. /\ frame.ip = off /\ frame.ip # NoIp
          /\ off + (frame.hlen + 1) <= frame.end
      BY <2>5, FramesAssumption
    <3>2. frame.hlen >= 5 /\ off < frame.end
      <4>1. frame.hlen >= 5
        BY <2>1, <3>1 DEF Types, WellFormed, IpLen
      <4> QED
        BY <3>1, <4>1
    <3>3. Version = 6 => frame.hlen = Ip6Len
      BY <2>1, <3>1, <3>2 DEF Types, WellFormed
    <3>4. off + 1 <= frame.end /\ off + 2 <= frame.end /\ off + 3 <= frame.end
      BY <3>1, <3>2
    <3>5. L4Here = frame.l4
      BY <3>1, <3>4 DEF L4Here, L4End, InHeader
    <3>6. LenHere = frame.hlen
      BY <2>1, <3>1, <3>3, <3>4 DEF LenHere, InHeader
    <3>7. PortsAt(off + LenHere) = frame.ports
      BY <2>1, <2>5, <3>1, <3>6, OwnPorts
    <3> QED
      BY <2>2, <2>5, <3>5, <3>7
  <2> QED
    BY <2>1, <2>3, <2>4, <2>5
<1>2. IInv => TupleTrue
  BY <1>1 DEF TupleTrue
<1> QED
  BY Invariance, <1>2, PTL

\* Every IP packet that has its headers is shown, behind any tags, and with
\* its ports (get_l3_header_offset, __set_tuple).
THEOREM SeesIp == Spec => []IpSeen
<1>1. ASSUME IInv, pc = "done", frame.ip # NoIp, frame.l4 # 0,
             frame.end >= frame.ip + frame.hlen + TransportLen(frame.l4)
      PROVE  /\ line[1] = Address(frame.addrs) /\ line[Len(line)] = frame.l4
             /\ HasPorts(frame.l4) /\ frame.trans =>
                  line = <<line[1], frame.ports, frame.l4>>
  <2>1. /\ Complete /\ line = FormatTuple(tuple) /\ Types /\ Found
        /\ frame.ip = Len(frame.tags) /\ frame.hlen >= 5
    BY <1>1 DEF IInv, Reads, Types, WellFormed, IpLen
  <2>2. TransportLen(frame.l4) \in Nat /\ (HasPorts(frame.l4) => TransportLen(frame.l4) >= 1)
    BY DEF TransportLen, TcpLen, UdpLen, HasPorts
  <2>3. /\ off = frame.ip /\ off \in Nat /\ frame.hlen \in Nat
        /\ frame.end \in Nat /\ frame.reach \in Nat /\ frame.end <= frame.reach
        /\ off + frame.hlen + TransportLen(frame.l4) <= frame.end
        /\ off + frame.hlen <= frame.end /\ off < frame.end
    <3>1. /\ Len(frame.tags) \in Nat /\ frame.hlen \in Nat /\ frame.end \in Nat
          /\ frame.reach \in Nat /\ frame.end <= frame.reach
      BY <2>1, FrameTyped
    <3>2. ASSUME NEW at \in Nat, NEW len \in Nat, NEW more \in Nat, NEW to \in Nat,
                 len >= 5, to >= at + len + more
          PROVE  at + len + more <= to /\ at + len <= to /\ at < to /\ at <= to
      BY <3>2
    <3>3. /\ frame.ip + frame.hlen + TransportLen(frame.l4) <= frame.end
          /\ frame.ip + frame.hlen <= frame.end /\ frame.ip < frame.end
          /\ frame.ip <= frame.end
      BY <1>1, <2>1, <2>2, <3>1, <3>2
    <3>4. off = Len(frame.tags)
      BY <1>1, <2>1, <3>3 DEF Found, TagsHeld
    <3> QED
      BY <2>1, <3>1, <3>3, <3>4
  <2>4. /\ Version \in {4, 6} /\ (Version = 6 => frame.hlen = Ip6Len)
    BY <1>1, <2>1, <2>3 DEF Types, WellFormed, Version
  <2>5. HeaderLen <= frame.hlen /\ HeaderLen \in {5, 10}
    BY <2>1, <2>3, <2>4 DEF HeaderLen, IpLen, Ip6Len
  <2>6. LooksIp /\ Readable(off, HeaderLen)
    BY <2>1, <2>3, <2>4, <2>5 DEF LooksIp, Readable, IpLen
  <2>7. off + HeaderLen <= frame.end /\ off + 1 <= frame.end /\ off + 3 <= frame.end
    BY <2>1, <2>3, <2>5
  <2>8. L4Here = frame.l4 /\ AddrsHere = frame.addrs /\ LenHere = frame.hlen
    BY <2>3, <2>4, <2>7
    DEF L4Here, L4End, AddrsHere, AddrsEnd, LenHere, InHeader
  <2>9. Whole
    <3>1. /\ off + LenHere = off + frame.hlen
          /\ TransportLen(L4Here) = TransportLen(frame.l4)
      BY <2>8
    <3>2. off + frame.hlen + TransportLen(frame.l4) <= frame.reach
      BY <2>2, <2>3
    <3> QED
      BY <3>1, <3>2 DEF Whole, Readable
  <2>10. HasPorts(frame.l4) /\ frame.trans => PortsAt(off + LenHere) = frame.ports
    BY <2>1, <2>2, <2>3, <2>8, OwnPorts
  <2>11. /\ tuple.l4 = frame.l4 /\ tuple.addrs = frame.addrs
         /\ HasPorts(frame.l4) => tuple.ports = PortsAt(off + LenHere)
    BY <2>1, <2>6, <2>8, <2>9 DEF Complete, TupleOf, HasPorts
  <2>12. line = IF HasPorts(frame.l4)
                THEN <<Address(frame.addrs), tuple.ports, frame.l4>>
                ELSE <<Address(frame.addrs), frame.l4>>
    BY <1>1, <2>1, <2>11 DEF FormatTuple
  <2> QED
    BY <2>10, <2>11, <2>12
<1>2. IInv => IpSeen
  BY <1>1 DEF IpSeen
<1> QED
  BY Invariance, <1>2, PTL
=============================================================================
