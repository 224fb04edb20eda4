----------------------------- MODULE MCCapture -----------------------------
(***************************************************************************)
(* Instances of Capture for TLC.  The packets, in the order of the list:   *)
(*   tcp    an IPv4 TCP packet received by a device in the traced netns     *)
(*   icmp   an ICMPv6 packet with no device yet, whose socket is in the     *)
(*          traced netns, and with a payload that is no TCP or UDP header   *)
(*   other  a packet of another netns                                       *)
(*   plain  a packet of the traced netns without the traced mark            *)
(***************************************************************************)
EXTENDS Capture

Skb(id, mac, dev, sock, mark, ver, depth, l4) ==
  [id |-> id, mac |-> mac, l2 |-> TRUE, l3 |-> ver # 0, dev |-> dev,
   sock |-> sock, mark |-> mark, ifindex |-> IF dev = 0 THEN 0 ELSE 2,
   ver |-> ver, depth |-> depth, l4 |-> l4, addrs |-> 100 + id,
   ports |-> 200 + id, flags |-> 300 + id]

MCtcp   == Skb(1, TRUE, 7, 0, 5, 4, 3, TCP)
MCicmp  == Skb(2, FALSE, 0, 7, 5, 6, 3, 58)
MCother == Skb(3, TRUE, 8, 7, 5, 4, 3, UDP)
MCplain == Skb(4, TRUE, 7, 0, 6, 4, 3, TCP)

MCSkbs    == {MCtcp, MCicmp, MCother, MCplain}
MCSkbsOne == {MCtcp}

\* Trace one mark in one namespace, on all interfaces or on one.
MCCfgMark  == [netns |-> 7, mark |-> 5, ifindex |-> 0]
MCCfgIface == [netns |-> 7, mark |-> 5, ifindex |-> 2]
=============================================================================
