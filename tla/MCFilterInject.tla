--------------------------- MODULE MCFilterInject ---------------------------
(* Programs for FilterInject: a kprobe program with the two stubs and up to *)
(* two more subprograms, in every order in which libbpf could append them,  *)
(* with calls in both directions across each stub.                          *)
EXTENDS FilterInject, SequencesExt

MCKind == [main |-> "other", l2 |-> "l2", l3 |-> "l3",
           aux |-> "other", sub |-> "other"]

MCStubLen == 7
MCLens == {2, 7, 9}
MCSizeMod == 1024

\* The functions that each function calls, in the order of its instructions.
Calls == [main |-> <<"l2", "aux", "l3">>, aux |-> <<"l3", "sub", "l2">>,
          sub |-> <<"l2">>, l2 |-> <<>>, l3 |-> <<>>]

BodyLen(f) == IF IsStub(f) THEN MCStubLen ELSE Len(Calls[f]) + 1

\* Where the k-th body of a layout begins, counted from 0.
Begins(layout) ==
  [k \in DOMAIN layout |->
     FoldFunctionOnSet(+, 0, [f \in Functions |-> BodyLen(f)],
                       {layout[j] : j \in 1 .. k - 1})]

\* A layout of functions as one program; calls to functions that are not
\* linked are other instructions.
Linked(layout) ==
  LET begin == Begins(layout)
      Where(f) == CHOOSE k \in DOMAIN layout : layout[k] = f
      Body(k) ==
        LET f == layout[k]
        IN  [a \in 1 .. BodyLen(f) |->
              LET callee == IF a <= Len(Calls[f]) THEN Calls[f][a] ELSE f
                  is_call == callee # f /\ callee \in ToSet(layout)
              IN  [call |-> is_call,
                   imm |-> IF is_call
                           THEN begin[Where(callee)] - (begin[k] + a) ELSE 0,
                   fn |-> f, at |-> a - 1, of |-> BodyLen(f),
                   callee |-> callee, text |-> "program"]]
  IN  [prog |-> FlattenSeq([k \in DOMAIN layout |-> Body(k)]),
       info |-> [k \in DOMAIN layout |->
                   [fn |-> layout[k], off |-> begin[k]]]]

Layouts ==
  {<<"main">> \o l : l \in UNION {SetToSeqs(S \cup {"l2", "l3"}) :
                                    S \in SUBSET {"aux", "sub"}}}

MCObjects == {Linked(l) : l \in Layouts}
=============================================================================
