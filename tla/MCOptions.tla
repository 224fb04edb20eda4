----------------------------- MODULE MCOptions -----------------------------
(* Small instances of Options: the tracer's namespace and another one, a    *)
(* path that another process can change, two names, words of 2 and 4 bits.  *)
EXTENDS Options, TLC

CONSTANTS home, other, noNs, self_path, path, empty, bad, eth0, lo

MCNsFile == (home :> [dev |-> 1, ino |-> 2, ns |-> home])
            @@ (other :> [dev |-> 1, ino |-> 3, ns |-> other])

\* An ordinary file whose inode is the number of the tracer's namespace.
Ordinary == [dev |-> 2, ino |-> 2, ns |-> noNs]

MCInitPaths == path :> MCNsFile[other]
MCOtherFiles == {MCNsFile[home], Ordinary}

MCInitIfs == (home :> (eth0 :> 1 @@ lo :> 2))
             @@ (other :> (eth0 :> 2 @@ lo :> 0))

Num(mag) == [neg |-> FALSE, mag |-> mag, junk |-> FALSE]
Neg(mag) == [Num(mag) EXCEPT !.neg = TRUE]
Junk(mag) == [Num(mag) EXCEPT !.junk = TRUE]

Mark(n) == [opt |-> "m", arg |-> n]
Iface(name) == [opt |-> "i", arg |-> name]
Netns(spec) == [opt |-> "n", arg |-> spec]
Other == [opt |-> "other", arg |-> empty]
Wrong == [opt |-> "wrong", arg |-> empty]

\* Every kind of -i and -n together, and every number.
Places == {<<>>} \cup {<<Netns(s)>> : s \in {path, self_path, bad, empty,
             [inode |-> Num(0)], [inode |-> Num(3)], [inode |-> Num(4)], [inode |-> Junk(1)]}}
Ifaces == {<<>>} \cup {<<Iface(i)>> : i \in {eth0, lo, empty}}
Marks == {<<Mark(n)>> : n \in {Num(0), Num(1), Num(3), Num(4), Num(15), Num(16),
                               Neg(0), Neg(1), Neg(13), Neg(15), Junk(1)}}

MCCommandLines ==
  {p \o i : p \in Places, i \in Ifaces} \cup Marks
  \cup {<<Mark(Num(1)), Iface(eth0), Netns(path)>>,
        <<Netns(path), Mark(Num(2)), Netns([inode |-> Num(2)])>>,
        <<Iface(lo), Other, Iface(eth0)>>,
        <<Mark(Num(1)), Mark(Num(3))>>,
        <<Other, Wrong>>}
=============================================================================
