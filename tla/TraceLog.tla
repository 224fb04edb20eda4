------------------------------ MODULE TraceLog ------------------------------
(***************************************************************************)
(* What skbtracer promises about the events it traces, with no ring buffer,*)
(* no positions and no poll loop: a bounded first-in first-out log.        *)
(*                                                                         *)
(* A call of a traced function is either accepted, which fixes its place in*)
(* the output for good, or not traced at all.  An accepted call is complete*)
(* once its record is written.  Lines come out in the order of acceptance, *)
(* each once, each from a complete record.  Capture implements this.       *)
(***************************************************************************)
EXTENDS Naturals, Sequences

CONSTANTS Calls,      \* the calls that can be traced: [cpu, skb]
          Capacity    \* records the log can hold before one is emitted

VARIABLES queue,      \* accepted and not yet emitted: [src, done]
          out         \* the calls whose line was printed, oldest first

logVars == <<queue, out>>

LogTypeOK ==
  /\ queue \in Seq([src : Calls, done : BOOLEAN])
  /\ out \in Seq(Calls)

LogInit == queue = <<>> /\ out = <<>>

\* One CPU runs one program at a time, so it has one incomplete record.
Accept(h) ==
  /\ Len(queue) < Capacity
  /\ \A i \in DOMAIN queue : queue[i].src.cpu = h.cpu => queue[i].done
  /\ queue' = Append(queue, [src |-> h, done |-> FALSE])
  /\ UNCHANGED out

Complete(i) ==
  /\ ~queue[i].done
  /\ queue' = [queue EXCEPT ![i].done = TRUE]
  /\ UNCHANGED out

Emit ==
  /\ queue # <<>>
  /\ Head(queue).done
  /\ out' = Append(out, Head(queue).src)
  /\ queue' = Tail(queue)

LogNext == \/ \E h \in Calls : Accept(h)
           \/ \E i \in DOMAIN queue : Complete(i)
           \/ Emit

LogSpec == LogInit /\ [][LogNext]_logVars
=============================================================================
