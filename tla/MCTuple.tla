------------------------------ MODULE MCTuple ------------------------------
(* Small instances of Tuple. *)
EXTENDS Tuple

CONSTANT MaxEnd   \* the longest packet, in units of four bytes

Tagged == {<<>>, <<"8021q">>, <<"8021ad">>, <<"8021ad", "8021q">>,
           <<"8021q", "8021q">>}

\* What follows the tags: IPv4 without and with options, a later fragment,
\* IPv6; ARP, and an LLC frame of the spanning tree protocol (its first byte is
\* 0x42), which begins like an IPv4 header.
Ip4 == [nibble |-> 4, isIp |-> TRUE, hlen |-> 5, trans |-> TRUE]
Ip4Options == [Ip4 EXCEPT !.hlen = 6]
Ip4Fragment == [Ip4 EXCEPT !.trans = FALSE]
Ip6 == [nibble |-> 6, isIp |-> TRUE, hlen |-> 10, trans |-> TRUE]
Arp == [nibble |-> 0, isIp |-> FALSE, hlen |-> 0, trans |-> FALSE]
Llc == [Arp EXCEPT !.nibble = 4]
Nets == {Ip4, Ip4Options, Ip4Fragment, Ip6, Arp, Llc}

\* Other bytes: of a TCP packet, of nothing known, zeros.
Others == {[hlen |-> 5, l4 |-> TCP, addrs |-> 11, ports |-> 21, flags |-> 3],
           [hlen |-> 2, l4 |-> 1, addrs |-> 11, ports |-> 21, flags |-> 3],
           [hlen |-> 0, l4 |-> 0, addrs |-> 0, ports |-> 0, flags |-> 0]}

\* A frame with tags in front of net.  The TCI of a tag of priority 2 begins
\* with the bits 0100, like an IPv4 header.
Frame(first, inner, net, l4, end, reach, other) ==
  LET ip == Len(inner)
  IN  [proto |-> first, tags |-> inner,
       nibbles |-> [n \in 1 .. 3 |-> IF n = ip + 1 THEN net.nibble ELSE 4],
       ip |-> IF net.isIp THEN ip ELSE NoIp,
       hlen |-> net.hlen, l4 |-> l4, addrs |-> 10, trans |-> net.trans,
       ports |-> 20, flags |-> IF l4 = TCP THEN 2 ELSE 0,
       end |-> end, reach |-> reach, other |-> other]

\* Received frames: network_header is just behind the Ethernet header, and
\* skb->protocol is what stands there.  Memory can be read to the end of the
\* packet, a little further, or much further.
Received(nets, l4s, ends) ==
  {Frame(Head(Append(t, "other")), Tail(Append(t, "other")), net, l4, end,
         end + more, other) :
     t \in Tagged, net \in nets, l4 \in l4s, end \in ends,
     more \in {0, 2, 20}, other \in Others}

ReceivedFrames == Received(Nets, {0, 1, TCP, UDP}, 0 .. MaxEnd)

\* Packets with TCP, and IPv6 packets that begin with a hop-by-hop header.
WholeFrames ==
  Received({Ip4, Ip4Options, Ip6}, {TCP}, {MaxEnd})
  \cup Received({Ip6}, {0}, {MaxEnd})
=============================================================================
