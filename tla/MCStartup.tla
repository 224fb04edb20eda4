----------------------------- MODULE MCStartup -----------------------------
(* A kernel with functions of its own and of two modules: with the packet   *)
(* first, later, twice, too late for a program, and not at all.             *)
EXTENDS Startup

Def(mod, params) == [mod |-> mod, params |-> params]
F(mod, params, avail) == [defs |-> {Def(mod, params)}, avail |-> avail]

\* Two static functions of the same name.
Twice(params, others) ==
  [defs |-> {Def("vmlinux", params), Def("vmlinux", others)}, avail |-> TRUE]

MCKernel ==
  [ip_rcv      |-> F("vmlinux", <<"skb", "other">>, TRUE),
   ip_output   |-> F("vmlinux", <<"other", "other", "skb">>, TRUE),
   skb_morph   |-> F("vmlinux", <<"skb", "skb">>, TRUE),
   rcv_finish  |-> Twice(<<"skb">>, <<"other", "skb">>),
   inlined     |-> F("vmlinux", <<"skb">>, FALSE),
   notrace     |-> F("vmlinux", <<"skb">>, TRUE),
   many_args   |-> F("vmlinux", <<"other", "other", "other", "other", "other",
                                  "skb">>, TRUE),
   no_packet   |-> F("vmlinux", <<"other">>, TRUE),
   br_forward  |-> F("bridge", <<"other", "skb">>, TRUE),
   veth_xmit   |-> F("veth", <<"skb", "other">>, TRUE)]

\* Every line of /proc/modules has at least six fields.
MCLoaded == [bridge |-> 6, veth |-> 7]
MCWithBtf == {"bridge"}
\* Room for all probes, for some, for none.
MCBudgets == {10, 3, 0}
MCBudgetsLarge == {10}
MCUnattachable == {"notrace"}
\* No --filter-func; some of every kind; nothing that can be attached.
MCAll == {DOMAIN MCKernel}
MCAny == MCAll \cup {{"notrace", "many_args", "ip_output", "br_forward"},
                     {"notrace", "many_args"}}
=============================================================================
