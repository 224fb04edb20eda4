------------------------------ MODULE Capture ------------------------------
(***************************************************************************)
(* Capture of the packets that pass through traced functions: the kprobe   *)
(* programs of src/bpf/skbtracer.bpf.c on every CPU, the BPF ring buffer   *)
(* `events' they write, and the loop of TraceMgr::run that prints what it  *)
(* holds until a signal stops it.                                          *)
(*                                                                         *)
(* The model starts after attach_skb_func succeeded for some function, so  *)
(* programs run already, and before TraceMgr::run is entered.              *)
(*                                                                         *)
(* The ring buffer is the sequence of all reservations ever made; those at *)
(* positions consPos+1 .. Len(ring) occupy its memory.  A reservation is    *)
(* given memory of unknown content (Stale).  Kernel (ring buffer, epoll)   *)
(* and libbpf (ring_buffer__poll) are external: they are modelled as far as *)
(* the code in src/ depends on them.                                       *)
(***************************************************************************)
EXTENDS Packet, Sequences

CONSTANTS CPUs,       \* the CPUs that run kprobe programs
          Capacity,   \* records the ring buffer memory can hold
          MaxEvents,  \* bound of the model: reservations ever made
          NoSkb       \* "no packet": the CPU is not in a program

ASSUME CapacityAssumption == Capacity \in Nat \ {0}
ASSUME MaxEventsAssumption == MaxEvents \in Nat
ASSUME NoSkbAssumption == NoSkb \notin Skbs

VARIABLES pc,         \* where each CPU is in kprobe_skb
          skb,        \* its argument
          slot,       \* the position of the record it holds, 0 for none
          ring,       \* every reservation: [busy, src, data]
          consPos,    \* reservations whose memory was given back
          now,        \* bpf_ktime_get_ns
          loop,       \* where TraceMgr::run is
          exiting,    \* p->exiting
          ready,      \* the ring buffer is on epoll's ready list
          printed,    \* lines printed: [data, shown]
          startTs,    \* Output::start_ts, 0 until the first line
          ret         \* "none" until run returns, then "ok" or "error"

cpuVars  == <<pc, skb, slot>>
loopVars == <<loop, ready, ret>>
outVars  == <<printed, startTs>>
vars == <<pc, skb, slot, ring, consPos, now, loop, exiting, ready, printed,
          startTs, ret>>

prodPos == Len(ring)

Origins == [cpu : CPUs, skb : Skbs]

EventType == [cpu : CPUs \cup {Stale}, ts : Field, skb : Skbs \cup {Stale},
              meta : MetaType, tuple : TupleType]

RecordType == [busy : BOOLEAN, src : Origins, data : EventType]

TypeOK ==
  /\ pc \in [CPUs -> {"idle", "reserve", "fill", "submit"}]
  /\ skb \in [CPUs -> Skbs \cup {NoSkb}]
  /\ slot \in [CPUs -> Nat]
  /\ ring \in Seq(RecordType)
  /\ consPos \in Nat
  /\ now \in Nat \ {0}
  /\ loop \in {"start", "check", "poll", "wait", "drain", "release",
               "returned"}
  /\ exiting \in BOOLEAN
  /\ ready \in BOOLEAN
  /\ printed \in Seq([data : EventType, shown : Nat])
  /\ startTs \in Nat
  /\ ret \in {"none", "ok", "error"}

StaleEvent ==
  [cpu |-> Stale, ts |-> Stale, skb |-> Stale,
   meta |-> [netns |-> Stale, mark |-> Stale, ifindex |-> Stale],
   tuple |-> [l3 |-> Stale, l4 |-> Stale, addrs |-> Stale, ports |-> Stale,
              flags |-> Stale]]

Init ==
  /\ pc = [c \in CPUs |-> "idle"]
  /\ skb = [c \in CPUs |-> NoSkb]
  /\ slot = [c \in CPUs |-> 0]
  /\ ring = <<>>
  /\ consPos = 0
  /\ now = 1
  /\ loop = "start"
  /\ exiting = FALSE
  /\ ready = FALSE
  /\ printed = <<>>
  /\ startTs = 0
  /\ ret = "none"

-----------------------------------------------------------------------------
(* The kprobe program on CPU c.  The kernel does not nest BPF programs of   *)
(* kprobes on one CPU, so a CPU is in at most one.                         *)

\* A traced function is entered with packet s: the filter decides.
Probe(c, s) ==
  /\ pc[c] = "idle"
  /\ IF Filter(s)
     THEN /\ pc' = [pc EXCEPT ![c] = "reserve"]
          /\ skb' = [skb EXCEPT ![c] = s]
     ELSE UNCHANGED <<pc, skb>>
  /\ UNCHANGED <<slot, ring, consPos, now, exiting, loopVars, outVars>>

Reserve(c) ==
  /\ pc[c] = "reserve"
  /\ prodPos - consPos < Capacity
  /\ prodPos < MaxEvents
  /\ ring' = Append(ring, [busy |-> TRUE,
                           src |-> [cpu |-> c, skb |-> skb[c]],
                           data |-> StaleEvent])
  /\ slot' = [slot EXCEPT ![c] = prodPos + 1]
  /\ pc' = [pc EXCEPT ![c] = "fill"]
  /\ UNCHANGED <<skb, consPos, now, exiting, loopVars, outVars>>

\* bpf_ringbuf_reserve returns NULL: the event is lost and nobody is told.
\* It does so when the ring buffer is full; once MaxEvents is reached the
\* model treats it as full for good.
ReserveFails(c) ==
  /\ pc[c] = "reserve"
  /\ prodPos - consPos >= Capacity \/ prodPos = MaxEvents
  /\ pc' = [pc EXCEPT ![c] = "idle"]
  /\ skb' = [skb EXCEPT ![c] = NoSkb]
  /\ UNCHANGED <<slot, ring, consPos, now, exiting, loopVars, outVars>>

\* The record of packet s on CPU c, taken at time t, over memory old.
FillEvent(old, c, s, t) ==
  Overwrite(old, [cpu |-> c, ts |-> t, skb |-> s,
                  meta |-> SetMeta(old.meta, s),
                  tuple |-> SetTuple(old.tuple, s)])

\* Fault: a program that finds no device gives up between the reservation
\* and the submission.
FillOrGiveUp(c) ==
  /\ pc[c] = "fill"
  /\ now' \in {now, now + 1}
  /\ IF skb[c].dev # 0
     THEN /\ ring' = [ring EXCEPT ![slot[c]].data =
                                     FillEvent(@, c, skb[c], now')]
          /\ pc' = [pc EXCEPT ![c] = "submit"]
          /\ UNCHANGED <<skb, slot>>
     ELSE /\ pc' = [pc EXCEPT ![c] = "idle"]
          /\ skb' = [skb EXCEPT ![c] = NoSkb]
          /\ slot' = [slot EXCEPT ![c] = 0]
          /\ UNCHANGED ring
  /\ UNCHANGED <<consPos, exiting, loopVars, outVars>>

\* The time is read after the reservation, and does not run backwards.
Fill(c) ==
  /\ pc[c] = "fill"
  /\ now' \in {now, now + 1}
  /\ ring' = [ring EXCEPT ![slot[c]].data = FillEvent(@, c, skb[c], now')]
  /\ pc' = [pc EXCEPT ![c] = "submit"]
  /\ UNCHANGED <<skb, slot, consPos, exiting, loopVars, outVars>>

\* Fault: submitted with BPF_RB_NO_WAKEUP.
SubmitNeverWakes(i) == FALSE

\* With flags 0 bpf_ringbuf_submit wakes the reader only if the reader has
\* caught up with this very record.
SubmitWakes(i) == i = consPos + 1

Submit(c) ==
  /\ pc[c] = "submit"
  /\ ring' = [ring EXCEPT ![slot[c]].busy = FALSE]
  /\ ready' = (ready \/ SubmitWakes(slot[c]))
  /\ pc' = [pc EXCEPT ![c] = "idle"]
  /\ skb' = [skb EXCEPT ![c] = NoSkb]
  /\ slot' = [slot EXCEPT ![c] = 0]
  /\ UNCHANGED <<consPos, now, loop, ret, exiting, outVars>>

-----------------------------------------------------------------------------
(* TraceMgr::run.                                                           *)

kernelVars == <<cpuVars, ring, now>>

Return(r) == loop' = "returned" /\ ret' = r

\* ring_buffer__new registers the map with epoll, which looks once whether
\* it can be read already; no map fd or no ring buffer is an error.
StartRun ==
  /\ loop = "start"
  /\ \/ /\ loop' = "check"
        /\ ready' = (consPos < prodPos)
        /\ UNCHANGED ret
     \/ Return("error") /\ UNCHANGED ready
  /\ UNCHANGED <<kernelVars, consPos, exiting, outVars>>

\* while (!p->exiting)
Check ==
  /\ loop = "check"
  /\ IF exiting THEN Return("ok") ELSE loop' = "poll" /\ UNCHANGED ret
  /\ UNCHANGED <<kernelVars, consPos, exiting, ready, outVars>>

\* epoll_wait: a map on the ready list is looked at again.  It counts as
\* readable when it holds any record, submitted or not; otherwise it leaves
\* the list until a submission wakes the reader.
EnterPoll ==
  /\ loop = "poll"
  /\ IF ready /\ consPos < prodPos
     THEN loop' = "drain" /\ UNCHANGED ready
     ELSE loop' = "wait" /\ ready' = FALSE
  /\ UNCHANGED <<kernelVars, consPos, exiting, ret, outVars>>

Wakeup ==
  /\ loop = "wait" /\ ready
  /\ loop' = "poll"
  /\ UNCHANGED <<kernelVars, consPos, exiting, ready, ret, outVars>>

\* Fault: ring_buffer__poll is called with timeout -1.
NoPollTimeout == FALSE /\ UNCHANGED vars

\* 100 ms passed without a wake-up: ring_buffer__poll returns 0.
PollTimeout ==
  /\ loop = "wait" /\ ~ready
  /\ loop' = "check"
  /\ UNCHANGED <<kernelVars, consPos, exiting, ready, ret, outVars>>

\* A signal without a handler (stop and continue) makes epoll_wait fail
\* with EINTR too: `continue'.
PollInterrupted ==
  /\ loop = "wait"
  /\ loop' = "check"
  /\ UNCHANGED <<kernelVars, consPos, exiting, ready, ret, outVars>>

\* Any other error ends the loop.
PollError ==
  /\ loop \in {"poll", "wait"}
  /\ Return("error")
  /\ UNCHANGED <<kernelVars, consPos, exiting, ready, outVars>>

\* Faults: the difference taken as a signed, and as an 8-bit number.
ElapsedSigned(ts, start) == ts - start
ElapsedWraps(ts, start) == (ts + 256 - start) % 256

\* A later event shows the time since start_ts, an earlier one shows 0.
Elapsed(ts, start) == IF ts >= start THEN ts - start ELSE 0

\* Fault: an event earlier than start_ts is dropped.
PrintEntryDropsEarly(event) ==
  /\ startTs' = IF startTs = 0 THEN event.ts ELSE startTs
  /\ printed' = IF event.ts < startTs THEN printed
                ELSE Append(printed, [data |-> event,
                                      shown |-> Elapsed(event.ts, startTs')])

PrintEntry(event) ==
  /\ startTs' = IF startTs = 0 THEN event.ts ELSE startTs
  /\ printed' = Append(printed, [data |-> event,
                                 shown |-> Elapsed(event.ts, startTs')])

\* The oldest record is there and submitted: the callback prints it.
HandleEvent ==
  /\ loop = "drain"
  /\ consPos < prodPos
  /\ ~ring[consPos + 1].busy
  /\ PrintEntry(ring[consPos + 1].data)
  /\ loop' = "release"
  /\ UNCHANGED <<kernelVars, consPos, exiting, ready, ret>>

\* libbpf gives the record's memory back only after the callback returned.
ReleaseRecord ==
  /\ loop = "release"
  /\ consPos' = consPos + 1
  /\ loop' = "drain"
  /\ UNCHANGED <<kernelVars, exiting, ready, ret, outVars>>

\* Nothing left, or the oldest record is still being written: whatever was
\* submitted after it waits.
PollReturns ==
  /\ loop = "drain"
  /\ consPos < prodPos => ring[consPos + 1].busy
  /\ loop' = "check"
  /\ UNCHANGED <<kernelVars, consPos, exiting, ready, ret, outVars>>

\* SIGINT or SIGTERM: TraceMgr::stop, and EINTR if the loop is blocked.
Signal ==
  /\ loop # "returned"
  /\ exiting' = TRUE
  /\ loop' = IF loop = "wait" THEN "check" ELSE loop
  /\ UNCHANGED <<kernelVars, consPos, ready, ret, outVars>>

-----------------------------------------------------------------------------
Program(c) == Reserve(c) \/ ReserveFails(c) \/ Fill(c) \/ Submit(c)

Run == \/ StartRun \/ Check \/ EnterPoll \/ Wakeup \/ PollTimeout
       \/ HandleEvent \/ ReleaseRecord \/ PollReturns

Next == \/ \E c \in CPUs : Program(c) \/ \E s \in Skbs : Probe(c, s)
        \/ Run
        \/ PollInterrupted \/ PollError \/ Signal

\* A program once entered runs to its end, and the tracer's thread is
\* scheduled; packets, signals and errors come or not.
Fairness == /\ \A c \in CPUs : WF_vars(Program(c))
            /\ WF_vars(Run)

Spec == Init /\ [][Next]_vars

FairSpec == Spec /\ Fairness

-----------------------------------------------------------------------------
(* Safety.                                                                  *)

\* The i-th line is about the i-th call that got a record, whatever the
\* order in which the CPUs filled and submitted them, and shows nothing but
\* what that packet holds: no byte of an earlier event or of another CPU's
\* (kprobe_skb, set_output, and the drain order of ring_buffer__poll).
PrintedTruthfully ==
  \A i \in DOMAIN printed :
    LET d == printed[i].data
        h == ring[i].src
    IN  /\ d.cpu = h.cpu
        /\ d.skb = h.skb
        /\ DescribesMeta(d.meta, h.skb)
        /\ DescribesTuple(d.tuple, h.skb)

\* The filter and the record read the packet separately (filter_meta,
\* set_meta): no line contradicts the filters the user gave.
PrintedAgreesWithFilter ==
  \A i \in DOMAIN printed : AgreesWithCfg(printed[i].data.meta)

\* Lines of one CPU do not go back in time, neither in the time recorded nor
\* in the time shown, although the line that sets start_ts need not be the
\* earliest event (print_entry, format_time).
TimesOrderedPerCpu ==
  \A i, j \in DOMAIN printed :
    i < j /\ printed[i].data.cpu = printed[j].data.cpu =>
      /\ printed[i].data.ts <= printed[j].data.ts
      /\ printed[i].shown <= printed[j].shown

\* A record being written belongs to exactly one program that will submit
\* it: an orphan would stop the reader at its position for good.
BusyIsOwned ==
  /\ \A i \in DOMAIN ring : ring[i].busy => \E c \in CPUs : slot[c] = i
  /\ \A c, d \in CPUs : slot[c] = slot[d] /\ slot[c] # 0 => c = d

-----------------------------------------------------------------------------
(* Liveness, under FairSpec.                                                *)

\* A call that got a record has its line printed, unless the loop is told to
\* stop or fails: neither adaptive wake-ups, nor records submitted out of
\* order, nor interrupted polls leave one behind (kprobe_skb, run).
Delivered ==
  \A i \in 1 .. MaxEvents :
    prodPos >= i ~> Len(printed) >= i \/ exiting \/ ret = "error"

\* A stop request ends the loop, also when the signal comes between the test
\* of exiting and epoll_wait, where it interrupts nothing (stop, run).  The
\* bound MaxEvents makes the traffic finite, and the property needs that:
\* ring_buffer__poll does not return while the programs keep up with it.
StopObserved == exiting ~> loop = "returned"

-----------------------------------------------------------------------------
(* The abstract log: what is between the last line and the last reservation *)
(* is in its queue, and each line stands for the call it names.             *)

Log == INSTANCE TraceLog WITH
         Calls <- Origins,
         queue <- [i \in 1 .. Len(ring) - Len(printed) |->
                     [src  |-> ring[Len(printed) + i].src,
                      done |-> ~ring[Len(printed) + i].busy]],
         out <- [i \in 1 .. Len(printed) |->
                     [cpu |-> printed[i].data.cpu,
                      skb |-> printed[i].data.skb]]

\* Capture is a bounded FIFO log: calls are accepted in reservation order,
\* completed in any order, printed in acceptance order, once each.
ImplementsTraceLog == Log!LogSpec
=============================================================================
