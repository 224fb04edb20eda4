--------------------------- MODULE CaptureProofs ---------------------------
(***************************************************************************)
(* Proofs about Capture, for any set of CPUs and packets, any filter and   *)
(* any ring buffer size.                                                   *)
(*                                                                         *)
(* IInv, the inductive invariant, says who owns a record (Ownership), what *)
(* is in it (Contents), how the records of one CPU follow each other       *)
(* (CpuOrder), and how the printed lines mirror the ring (Lines, Times).   *)
(***************************************************************************)
EXTENDS Capture, SequenceTheorems, TLAPS

\* The record a program writes for call h at time t.
EventOf(h, t) == FillEvent(StaleEvent, h.cpu, h.skb, t)

\* The program that made reservation i has filled it.
Filled(i) == ~ring[i].busy \/ pc[ring[i].src.cpu] = "submit"

\* A program between reservation and submission holds a busy record behind
\* the printed ones, and every busy record is held by the program it names.
Ownership ==
  /\ \A c \in CPUs :
       /\ pc[c] = "idle" => skb[c] = NoSkb /\ slot[c] = 0
       /\ pc[c] # "idle" => skb[c] \in Skbs /\ Filter(skb[c])
       /\ pc[c] = "reserve" => slot[c] = 0
       /\ pc[c] \in {"fill", "submit"} =>
            /\ slot[c] \in Len(printed) + 1 .. Len(ring)
            /\ ring[slot[c]].busy
            /\ ring[slot[c]].src = [cpu |-> c, skb |-> skb[c]]
  /\ \A i \in 1 .. Len(ring) :
       ring[i].busy => slot[ring[i].src.cpu] = i

Contents ==
  \A i \in 1 .. Len(ring) :
    /\ Filter(ring[i].src.skb)
    /\ Filled(i) => \E t \in 1 .. now : ring[i].data = EventOf(ring[i].src, t)
    /\ ~Filled(i) => ring[i].data = StaleEvent

\* A CPU reserves its next record only after it submitted the last one, and
\* reads the time after it reserved.
CpuOrder ==
  \A i, j \in 1 .. Len(ring) :
    i < j /\ ring[i].src.cpu = ring[j].src.cpu =>
      /\ ~ring[i].busy
      /\ Filled(j) => ring[i].data.ts <= ring[j].data.ts

Lines ==
  /\ Len(printed) = IF loop = "release" THEN consPos + 1 ELSE consPos
  /\ Len(printed) <= Len(ring)
  /\ Len(ring) - consPos <= Capacity
  /\ \A i \in 1 .. Len(printed) :
       ~ring[i].busy /\ printed[i].data = ring[i].data

Times ==
  /\ startTs = 0 <=> Len(printed) = 0
  /\ \A i \in 1 .. Len(printed) :
       printed[i].shown = Elapsed(printed[i].data.ts, startTs)

IInv == TypeOK /\ Ownership /\ Contents /\ CpuOrder /\ Lines /\ Times

-----------------------------------------------------------------------------
(* The record a program writes.                                            *)

LEMMA StaleEventType == StaleEvent \in EventType
BY DEF StaleEvent, EventType, MetaType, TupleType, Field

NoTuple == [l3 |-> 0, l4 |-> 0, addrs |-> 0, ports |-> 0, flags |-> 0]

\* What set_tuple leaves in any memory it is given.
LEMMA SetTupleValue ==
  ASSUME NEW old \in TupleType, NEW s \in SkbType
  PROVE  SetTuple(old, s) =
           IF IsIP(s)
           THEN [l3 |-> s.ver, l4 |-> s.l4, addrs |-> s.addrs,
                 ports |-> IF s.depth = 3 /\ s.l4 \in {TCP, UDP}
                           THEN s.ports ELSE 0,
                 flags |-> IF s.depth = 3 /\ s.l4 = TCP THEN s.flags ELSE 0]
           ELSE NoTuple
<1>1. ClearTuple(old) = NoTuple
  BY DEF ClearTuple, Overwrite, TupleType, NoTuple
<1> DEFINE t == SetL3(NoTuple, s)
<1>2. /\ NoTuple \in TupleType
      /\ NoTuple.ports = 0 /\ NoTuple.flags = 0
  BY DEF NoTuple, TupleType, Field
<1>3. /\ t = [l3 |-> s.ver, l4 |-> s.l4, addrs |-> s.addrs, ports |-> 0,
              flags |-> 0]
      /\ t \in TupleType
  <2>1. \A u \in TupleType :
          SetL3(u, s) = [l3 |-> s.ver, l4 |-> s.l4, addrs |-> s.addrs,
                         ports |-> u.ports, flags |-> u.flags]
    BY DEF SetL3, Overwrite, TupleType
  <2> QED  BY <1>2, <2>1 DEF TupleType, Field, SkbType
<1>4. CASE s.depth = 3 /\ s.l4 \in {TCP, UDP}
  <2>1. \A u \in TupleType :
          Overwrite(u, [ports |-> s.ports]) =
            [l3 |-> u.l3, l4 |-> u.l4, addrs |-> u.addrs,
             ports |-> s.ports, flags |-> u.flags]
    BY DEF Overwrite, TupleType
  <2>2. \A u \in TupleType :
          Overwrite(u, [ports |-> s.ports, flags |-> s.flags]) =
            [l3 |-> u.l3, l4 |-> u.l4, addrs |-> u.addrs,
             ports |-> s.ports, flags |-> s.flags]
    BY DEF Overwrite, TupleType
  <2>3. SetL4(t, s) = [l3 |-> s.ver, l4 |-> s.l4, addrs |-> s.addrs,
                       ports |-> s.ports,
                       flags |-> IF s.l4 = TCP THEN s.flags ELSE 0]
    BY <1>3, <1>4, <2>1, <2>2 DEF SetL4, TCP, UDP
  <2> QED  BY <1>1, <1>4, <2>3 DEF SetTuple
<1>5. CASE ~(s.depth = 3 /\ s.l4 \in {TCP, UDP})
  <2>1. SetL4(t, s) = t
    BY <1>5 DEF SetL4
  <2> QED  BY <1>1, <1>3, <1>5, <2>1 DEF SetTuple
<1> QED
  BY <1>4, <1>5

LEMMA SetMetaValue ==
  ASSUME NEW old \in MetaType, NEW s \in SkbType
  PROVE  SetMeta(old, s) =
           [netns |-> GetNetns(s), mark |-> s.mark, ifindex |-> s.ifindex]
BY DEF SetMeta, Overwrite, MetaType

\* The record of a call is well formed and names its CPU, packet and time.
LEMMA EventOfType ==
  ASSUME NEW h \in Origins, NEW t \in Nat
  PROVE  /\ EventOf(h, t) \in EventType
         /\ EventOf(h, t).ts = t
         /\ EventOf(h, t).cpu = h.cpu
         /\ EventOf(h, t).skb = h.skb
         /\ EventOf(h, t).meta = SetMeta(StaleEvent.meta, h.skb)
         /\ EventOf(h, t).tuple = SetTuple(StaleEvent.tuple, h.skb)
<1>1. h.skb \in SkbType /\ h.skb \in Skbs /\ h.cpu \in CPUs
  BY SkbsAssumption DEF Origins
<1>2. StaleEvent.meta \in MetaType /\ StaleEvent.tuple \in TupleType
  BY StaleEventType DEF EventType
<1>3. SetMeta(StaleEvent.meta, h.skb) \in MetaType
  BY <1>1, <1>2, SetMetaValue DEF MetaType, Field, GetNetns, SkbType
<1>4. SetTuple(StaleEvent.tuple, h.skb) \in TupleType
  <2>1. CASE IsIP(h.skb)
    <3>1. PICK p \in Nat, f \in Nat :
            SetTuple(StaleEvent.tuple, h.skb) =
              [l3 |-> h.skb.ver, l4 |-> h.skb.l4, addrs |-> h.skb.addrs,
               ports |-> p, flags |-> f]
      BY <1>1, <1>2, <2>1, SetTupleValue DEF SkbType
    <3> QED  BY <1>1, <3>1 DEF TupleType, Field, SkbType
  <2>2. CASE ~IsIP(h.skb)
    BY <1>1, <1>2, <2>2, SetTupleValue DEF TupleType, Field, NoTuple
  <2> QED  BY <2>1, <2>2
<1>5. EventOf(h, t) = [cpu |-> h.cpu, ts |-> t, skb |-> h.skb,
                       meta |-> SetMeta(StaleEvent.meta, h.skb),
                       tuple |-> SetTuple(StaleEvent.tuple, h.skb)]
  BY DEF EventOf, FillEvent, Overwrite, StaleEvent
<1> QED
  BY <1>1, <1>3, <1>4, <1>5 DEF EventType, Field

\* The record does not depend on what the reused memory held.
LEMMA FillErasesStale ==
  ASSUME NEW old \in EventType, NEW h \in Origins, NEW t \in Nat
  PROVE  FillEvent(old, h.cpu, h.skb, t) = EventOf(h, t)
<1>1. h.skb \in SkbType
  BY SkbsAssumption DEF Origins
<1>2. SetMeta(old.meta, h.skb) = SetMeta(StaleEvent.meta, h.skb)
  BY <1>1, SetMetaValue, StaleEventType DEF EventType
<1>3. SetTuple(old.tuple, h.skb) = SetTuple(StaleEvent.tuple, h.skb)
  BY <1>1, SetTupleValue, StaleEventType DEF EventType
<1>4. FillEvent(old, h.cpu, h.skb, t) =
        [cpu |-> h.cpu, ts |-> t, skb |-> h.skb,
         meta |-> SetMeta(old.meta, h.skb),
         tuple |-> SetTuple(old.tuple, h.skb)]
  BY DEF FillEvent, Overwrite, EventType
<1>5. EventOf(h, t) = [cpu |-> h.cpu, ts |-> t, skb |-> h.skb,
                       meta |-> SetMeta(StaleEvent.meta, h.skb),
                       tuple |-> SetTuple(StaleEvent.tuple, h.skb)]
  BY DEF EventOf, FillEvent, Overwrite, StaleEvent
<1> QED
  BY <1>2, <1>3, <1>4, <1>5

\* The record tells the truth about the packet.
LEMMA EventOfTruthful ==
  ASSUME NEW h \in Origins, NEW t \in Nat
  PROVE  /\ DescribesMeta(EventOf(h, t).meta, h.skb)
         /\ DescribesTuple(EventOf(h, t).tuple, h.skb)
<1>1. h.skb \in SkbType
  BY SkbsAssumption DEF Origins
<1>2. StaleEvent.meta \in MetaType /\ StaleEvent.tuple \in TupleType
  BY StaleEventType DEF EventType
<1>3. DescribesMeta(EventOf(h, t).meta, h.skb)
  BY <1>1, <1>2, EventOfType, SetMetaValue DEF DescribesMeta, GetNetns
<1>4. CASE ~IsIP(h.skb)
  BY <1>1, <1>2, <1>3, <1>4, EventOfType, SetTupleValue
  DEF DescribesTuple, NoTuple
<1>5. CASE IsIP(h.skb)
  <2>1. h.skb.ver # 0
    BY <1>5 DEF IsIP
  <2>2. EventOf(h, t).tuple =
          [l3 |-> h.skb.ver, l4 |-> h.skb.l4, addrs |-> h.skb.addrs,
           ports |-> IF h.skb.depth = 3 /\ h.skb.l4 \in {TCP, UDP}
                     THEN h.skb.ports ELSE 0,
           flags |-> IF h.skb.depth = 3 /\ h.skb.l4 = TCP
                     THEN h.skb.flags ELSE 0]
    BY <1>1, <1>2, <1>5, EventOfType, SetTupleValue
  <2> QED
    BY <1>3, <2>1, <2>2 DEF DescribesTuple
<1> QED
  BY <1>4, <1>5

\* A packet that passed the filter yields a record that agrees with it.
LEMMA EventOfAgrees ==
  ASSUME NEW h \in Origins, NEW t \in Nat, Filter(h.skb)
  PROVE  AgreesWithCfg(EventOf(h, t).meta)
<1>1. h.skb \in SkbType
  BY SkbsAssumption DEF Origins
<1>2. EventOf(h, t).meta = [netns |-> GetNetns(h.skb), mark |-> h.skb.mark,
                            ifindex |-> h.skb.ifindex]
  BY <1>1, EventOfType, SetMetaValue, StaleEventType DEF EventType
<1> QED
  BY <1>2 DEF Filter, FilterMeta, AgreesWithCfg

-----------------------------------------------------------------------------
(* The invariant is inductive: one lemma per action that touches what it    *)
(* talks about.                                                             *)

LEMMA ReplacedSeq ==
  ASSUME NEW S, NEW q \in Seq(S), NEW k \in 1 .. Len(q), NEW r \in S,
         NEW z, z = [q EXCEPT ![k] = r]
  PROVE  /\ z \in Seq(S)
         /\ Len(z) = Len(q)
         /\ \A i \in 1 .. Len(q) : i # k => z[i] = q[i]
         /\ z[k] = r
OBVIOUS

LEMMA RingTyped ==
  ASSUME TypeOK
  PROVE  /\ Len(ring) \in Nat
         /\ \A i \in 1 .. Len(ring) :
              /\ ring[i] \in RecordType
              /\ ring[i].busy \in BOOLEAN
              /\ ring[i].src \in Origins
              /\ ring[i].src.cpu \in CPUs
              /\ ring[i].src.skb \in Skbs
              /\ ring[i].data \in EventType
<1>1. ring \in Seq(RecordType)
  BY DEF TypeOK
<1>2. \A i \in 1 .. Len(ring) : ring[i] \in RecordType
  BY <1>1
<1>3. Len(ring) \in Nat
  BY <1>1
<1> QED
  BY <1>2, <1>3 DEF RecordType, Origins

\* Two reservations of one CPU are not both under way.
LEMMA OwnerUnique ==
  ASSUME Ownership, TypeOK, NEW i \in 1 .. Len(ring), NEW c \in CPUs,
         ring[i].src.cpu = c, ring[i].busy
  PROVE  slot[c] = i /\ pc[c] \in {"fill", "submit"}
<1>1. slot[c] = i /\ i # 0
  BY DEF Ownership
<1>2. pc[c] \in {"idle", "reserve", "fill", "submit"}
  BY DEF TypeOK
<1> QED
  BY <1>1, <1>2 DEF Ownership

LEMMA InitIInv ==
  ASSUME Init
  PROVE  IInv
<1>1. Len(ring) = 0 /\ Len(printed) = 0 /\ 1 .. 0 = {}
  BY DEF Init
<1>2. TypeOK
  <2>1. ring \in Seq(RecordType)
    BY DEF Init
  <2>2. printed \in Seq([data : EventType, shown : Nat])
    BY DEF Init
  <2>3. /\ pc \in [CPUs -> {"idle", "reserve", "fill", "submit"}]
        /\ skb \in [CPUs -> Skbs \cup {NoSkb}]
        /\ slot \in [CPUs -> Nat]
    BY DEF Init
  <2>4. consPos \in Nat /\ now \in Nat \ {0} /\ startTs \in Nat
    BY DEF Init
  <2>5. /\ loop \in {"start", "check", "poll", "wait", "drain", "release",
                     "returned"}
        /\ ret \in {"none", "ok", "error"}
    BY DEF Init
  <2>6. exiting \in BOOLEAN /\ ready \in BOOLEAN
    BY DEF Init
  <2> QED  BY <2>1, <2>2, <2>3, <2>4, <2>5, <2>6 DEF TypeOK
<1>3. Ownership
  BY <1>1 DEF Init, Ownership
<1>4. Contents /\ CpuOrder
  BY <1>1 DEF Contents, CpuOrder
<1>5. Lines
  BY <1>1, CapacityAssumption DEF Init, Lines
<1>6. Times
  BY <1>1 DEF Init, Times
<1> QED
  BY <1>2, <1>3, <1>4, <1>5, <1>6 DEF IInv

\* A step of the loop that prints and releases nothing changes nothing the
\* invariant relates.
LEMMA LoopStep ==
  ASSUME IInv, UNCHANGED <<kernelVars, consPos, outVars>>,
         loop' \in {"start", "check", "poll", "wait", "drain", "release",
                    "returned"},
         loop' = "release" <=> loop = "release",
         exiting' \in BOOLEAN, ready' \in BOOLEAN,
         ret' \in {"none", "ok", "error"}
  PROVE  IInv'
<1> USE DEF kernelVars, cpuVars, outVars
<1>1. TypeOK'
  BY DEF IInv, TypeOK
<1>2. Ownership'
  BY DEF IInv, Ownership
<1>3. Contents'
  BY DEF IInv, Contents, Filled
<1>4. CpuOrder'
  BY DEF IInv, CpuOrder, Filled
<1>5. Lines'
  BY DEF IInv, Lines
<1>6. Times'
  BY DEF IInv, Times
<1> QED
  BY <1>1, <1>2, <1>3, <1>4, <1>5, <1>6 DEF IInv

LEMMA ProbeIInv ==
  ASSUME IInv, NEW c \in CPUs, NEW s \in Skbs, Probe(c, s)
  PROVE  IInv'
<1>1. TypeOK /\ Ownership /\ Contents /\ CpuOrder /\ Lines /\ Times
  BY DEF IInv
<1>2. UNCHANGED <<slot, ring, consPos, now, exiting, loop, ready, ret,
                  printed, startTs>>
  BY DEF Probe, loopVars, outVars
<1>3. TypeOK'
  BY <1>1, <1>2 DEF TypeOK, Probe
<1>4. \A i \in 1 .. Len(ring) : Filled(i)' <=> Filled(i)
  BY <1>1, <1>2, RingTyped DEF Filled, Probe, TypeOK
<1>5. Ownership'
  <2>1. CASE Filter(s)
    <3>1. /\ pc' = [pc EXCEPT ![c] = "reserve"]
          /\ skb' = [skb EXCEPT ![c] = s]
          /\ pc[c] = "idle" /\ slot[c] = 0
      BY <1>1, <2>1 DEF Probe, Ownership
    <3> QED  BY <1>1, <1>2, <2>1, <3>1 DEF Ownership, TypeOK
  <2>2. CASE ~Filter(s)
    BY <1>1, <1>2, <2>2 DEF Ownership, Probe
  <2> QED  BY <2>1, <2>2
<1>6. Contents'
  BY <1>1, <1>2, <1>4 DEF Contents
<1>7. CpuOrder'
  BY <1>1, <1>2, <1>4 DEF CpuOrder
<1>8. Lines' /\ Times'
  BY <1>1, <1>2 DEF Lines, Times
<1> QED
  BY <1>3, <1>5, <1>6, <1>7, <1>8 DEF IInv

LEMMA ReserveFailsIInv ==
  ASSUME IInv, NEW c \in CPUs, ReserveFails(c)
  PROVE  IInv'
<1>1. TypeOK /\ Ownership /\ Contents /\ CpuOrder /\ Lines /\ Times
  BY DEF IInv
<1>2. UNCHANGED <<slot, ring, consPos, now, exiting, loop, ready, ret,
                  printed, startTs>>
  BY DEF ReserveFails, loopVars, outVars
<1>3. TypeOK'
  BY <1>1, <1>2 DEF TypeOK, ReserveFails
<1>4. \A i \in 1 .. Len(ring) : Filled(i)' <=> Filled(i)
  BY <1>1, <1>2, RingTyped DEF Filled, ReserveFails, TypeOK
<1>5. Ownership'
  BY <1>1, <1>2 DEF Ownership, ReserveFails, TypeOK
<1>6. Contents'
  BY <1>1, <1>2, <1>4 DEF Contents
<1>7. CpuOrder'
  BY <1>1, <1>2, <1>4 DEF CpuOrder
<1>8. Lines' /\ Times'
  BY <1>1, <1>2 DEF Lines, Times
<1> QED
  BY <1>3, <1>5, <1>6, <1>7, <1>8 DEF IInv
LEMMA ReserveIInv ==
  ASSUME IInv, NEW c \in CPUs, Reserve(c)
  PROVE  IInv'
<1> DEFINE r == [busy |-> TRUE, src |-> [cpu |-> c, skb |-> skb[c]],
                 data |-> StaleEvent]
<1>1. TypeOK /\ Ownership /\ Contents /\ CpuOrder /\ Lines /\ Times
  BY DEF IInv
<1>2. /\ UNCHANGED <<skb, consPos, now, exiting, loop, ready, ret,
                     printed, startTs>>
      /\ pc[c] = "reserve"
      /\ pc' = [pc EXCEPT ![c] = "fill"]
      /\ slot' = [slot EXCEPT ![c] = Len(ring) + 1]
      /\ ring' = Append(ring, r)
      /\ Len(ring) - consPos < Capacity
  BY DEF Reserve, loopVars, outVars, prodPos
<1>3. skb[c] \in Skbs /\ Filter(skb[c]) /\ slot[c] = 0
  BY <1>1, <1>2 DEF Ownership
<1>4. /\ r \in RecordType
      /\ r.busy /\ r.src = [cpu |-> c, skb |-> skb[c]]
      /\ r.src.cpu = c /\ r.src.skb = skb[c] /\ r.data = StaleEvent
  BY <1>3, StaleEventType DEF RecordType, Origins
<1>5. ring \in Seq(RecordType) /\ Len(ring) \in Nat
  BY <1>1, RingTyped DEF TypeOK
<1> PICK n \in Nat : n = Len(ring) + 1
  BY <1>5
<1>6. /\ ring' \in Seq(RecordType)
      /\ Len(ring') = n
      /\ ring'[n] = r
      /\ \A i \in 1 .. Len(ring) : ring'[i] = ring[i]
      /\ n = Len(ring) + 1
  BY <1>2, <1>4, <1>5
<1> HIDE DEF r
<1>7. TypeOK'
  BY <1>1, <1>2, <1>5, <1>6 DEF TypeOK
<1>8. \A i \in 1 .. Len(ring) : ring[i].src.cpu = c => ~ring[i].busy
  BY <1>1, <1>2, OwnerUnique
<1>9. \A i \in 1 .. Len(ring) : Filled(i)' <=> Filled(i)
  BY <1>1, <1>2, <1>6, <1>8, RingTyped DEF Filled, TypeOK
<1>10. ~Filled(n)'
  BY <1>1, <1>2, <1>4, <1>6 DEF Filled, TypeOK
<1>11. \A i \in 1 .. Len(ring') : i \in 1 .. Len(ring) \/ i = n
  BY <1>5, <1>6
<1>12. Ownership'
  <2>1. ASSUME NEW d \in CPUs
        PROVE  /\ pc'[d] = "idle" => skb'[d] = NoSkb /\ slot'[d] = 0
               /\ pc'[d] # "idle" => skb'[d] \in Skbs /\ Filter(skb'[d])
               /\ pc'[d] = "reserve" => slot'[d] = 0
               /\ pc'[d] \in {"fill", "submit"} =>
                    /\ slot'[d] \in Len(printed') + 1 .. Len(ring')
                    /\ ring'[slot'[d]].busy
                    /\ ring'[slot'[d]].src = [cpu |-> d, skb |-> skb'[d]]
    <3>1. CASE d = c
      BY <1>1, <1>2, <1>3, <1>4, <1>5, <1>6, <3>1 DEF TypeOK, Lines
    <3>2. CASE d # c
      BY <1>1, <1>2, <1>5, <1>6, <3>2 DEF TypeOK, Lines, Ownership
    <3> QED  BY <3>1, <3>2
  <2>2. ASSUME NEW i \in 1 .. Len(ring'), ring'[i].busy
        PROVE  slot'[ring'[i].src.cpu] = i
    <3>1. CASE i = n
      BY <1>1, <1>2, <1>4, <1>6, <3>1 DEF TypeOK
    <3>2. CASE i \in 1 .. Len(ring)
      BY <1>1, <1>2, <1>6, <1>8, <2>2, <3>2, RingTyped DEF TypeOK, Ownership
    <3> QED  BY <1>11, <3>1, <3>2
  <2> QED  BY <2>1, <2>2 DEF Ownership
<1>13. Contents'
  BY <1>1, <1>2, <1>3, <1>4, <1>6, <1>9, <1>10, <1>11 DEF Contents
<1>14. CpuOrder'
  <2> SUFFICES ASSUME NEW i \in 1 .. Len(ring'), NEW j \in 1 .. Len(ring'),
                      i < j, ring'[i].src.cpu = ring'[j].src.cpu
               PROVE  /\ ~ring'[i].busy
                      /\ Filled(j)' => ring'[i].data.ts <= ring'[j].data.ts
    BY DEF CpuOrder
  <2>1. i \in 1 .. Len(ring) /\ ring'[i] = ring[i]
    BY <1>5, <1>6
  <2>2. CASE j = n
    BY <1>4, <1>6, <1>8, <1>10, <2>1, <2>2
  <2>3. CASE j \in 1 .. Len(ring)
    BY <1>1, <1>6, <1>9, <2>1, <2>3 DEF CpuOrder
  <2> QED  BY <1>11, <2>2, <2>3
<1>15. Lines'
  <2>1. Len(printed) <= Len(ring) /\ Len(printed) \in Nat /\ consPos \in Nat
    BY <1>1 DEF Lines, TypeOK
  <2>2. Len(ring') - consPos' <= Capacity
    BY <1>2, <1>5, <1>6, <2>1, CapacityAssumption
  <2>3. \A i \in 1 .. Len(printed) : ring'[i] = ring[i]
    BY <1>5, <1>6, <2>1
  <2> QED  BY <1>1, <1>2, <1>5, <1>6, <2>1, <2>2, <2>3 DEF Lines
<1>16. Times'
  BY <1>1, <1>2 DEF Times
<1> QED
  BY <1>7, <1>12, <1>13, <1>14, <1>15, <1>16 DEF IInv

\* What Fill does to the ring: the record of the CPU's own call is written,
\* nothing else changes.
LEMMA FilledRing ==
  ASSUME TypeOK, Ownership, NEW c \in CPUs, Fill(c)
  PROVE  \E k \in 1 .. Len(ring) :
           /\ k = slot[c]
           /\ ring' \in Seq(RecordType)
           /\ Len(ring') = Len(ring)
           /\ \A i \in 1 .. Len(ring) : i # k => ring'[i] = ring[i]
           /\ ring[k].busy /\ ring'[k].busy
           /\ ring'[k].src = ring[k].src /\ ring[k].src.cpu = c
           /\ ring'[k].data = EventOf(ring[k].src, now')
           /\ ring'[k].data.ts = now'
<1>1. TypeOK /\ Ownership
  OBVIOUS
<1> PICK k \in 1 .. Len(ring) : k = slot[c]
  <2>1. slot[c] \in Len(printed) + 1 .. Len(ring)
    BY <1>1 DEF Ownership, Fill
  <2>2. Len(printed) \in Nat
    BY <1>1 DEF TypeOK
  <2> QED  BY <1>1, <2>1, <2>2, RingTyped
<1> PICK e : e = FillEvent(ring[k].data, c, skb[c], now')
  OBVIOUS
<1>2. /\ UNCHANGED <<skb, slot, consPos, exiting, loop, ready, ret,
                     printed, startTs>>
      /\ pc[c] = "fill"
      /\ ring' = [ring EXCEPT ![k].data = e]
      /\ now' \in Nat \ {0} /\ now' >= now
  <2>1. now \in Nat \ {0}
    BY <1>1 DEF TypeOK
  <2> QED  BY <2>1 DEF Fill, loopVars, outVars
<1>3. /\ ring[k].busy
      /\ ring[k].src = [cpu |-> c, skb |-> skb[c]]
      /\ skb[c] \in Skbs
  BY <1>1, <1>2 DEF Ownership
<1>4. /\ ring[k].src \in Origins
      /\ ring[k].src.cpu = c /\ ring[k].src.skb = skb[c]
      /\ ring[k].data \in EventType /\ ring[k] \in RecordType
  BY <1>1, <1>3, RingTyped
<1>5. e = EventOf(ring[k].src, now') /\ e \in EventType /\ e.ts = now'
  BY <1>2, <1>4, FillErasesStale, EventOfType
<1>6. /\ ring' \in Seq(RecordType)
      /\ Len(ring') = Len(ring)
      /\ \A i \in 1 .. Len(ring) : i # k => ring'[i] = ring[i]
      /\ ring'[k] = [ring[k] EXCEPT !.data = e]
  <2>1. ring \in Seq(RecordType)
    BY <1>1 DEF TypeOK
  <2>2. [ring[k] EXCEPT !.data = e] \in RecordType
    BY <1>4, <1>5 DEF RecordType
  <2> QED  BY <1>2, <2>1, <2>2
<1>7. /\ ring'[k].busy
      /\ ring'[k].src = ring[k].src
      /\ ring'[k].data = e
  BY <1>3, <1>4, <1>6 DEF RecordType
<1> QED
  BY <1>3, <1>4, <1>5, <1>6, <1>7

LEMMA FillIInv ==
  ASSUME IInv, NEW c \in CPUs, Fill(c)
  PROVE  IInv'
<1>1. TypeOK /\ Ownership /\ Contents /\ CpuOrder /\ Lines /\ Times
  BY DEF IInv
<1> PICK k \in 1 .. Len(ring) :
       /\ k = slot[c]
       /\ ring' \in Seq(RecordType)
       /\ Len(ring') = Len(ring)
       /\ \A i \in 1 .. Len(ring) : i # k => ring'[i] = ring[i]
       /\ ring[k].busy /\ ring'[k].busy
       /\ ring'[k].src = ring[k].src /\ ring[k].src.cpu = c
       /\ ring'[k].data = EventOf(ring[k].src, now')
       /\ ring'[k].data.ts = now'
  BY <1>1, FilledRing
<1>2. /\ UNCHANGED <<skb, slot, consPos, exiting, loop, ready, ret,
                     printed, startTs>>
      /\ pc[c] = "fill"
      /\ pc' = [pc EXCEPT ![c] = "submit"]
      /\ now' \in Nat \ {0} /\ now' >= now
  <2>1. now \in Nat \ {0}
    BY <1>1 DEF TypeOK
  <2> QED  BY <2>1 DEF Fill, loopVars, outVars
<1>8. TypeOK'
  BY <1>1, <1>2 DEF TypeOK
<1>9. /\ \A i \in 1 .. Len(ring) : i # k => (Filled(i)' <=> Filled(i))
      /\ Filled(k)'
  <2>1. \A i \in 1 .. Len(ring) :
          i # k /\ ring[i].src.cpu = c => ~ring[i].busy
    BY <1>1, OwnerUnique
  <2> QED
    BY <1>1, <1>2, <2>1, RingTyped DEF Filled, TypeOK
<1>10. Ownership'
  <2>1. ASSUME NEW d \in CPUs
        PROVE  /\ pc'[d] = "idle" => skb'[d] = NoSkb /\ slot'[d] = 0
               /\ pc'[d] # "idle" => skb'[d] \in Skbs /\ Filter(skb'[d])
               /\ pc'[d] = "reserve" => slot'[d] = 0
               /\ pc'[d] \in {"fill", "submit"} =>
                    /\ slot'[d] \in Len(printed') + 1 .. Len(ring')
                    /\ ring'[slot'[d]].busy
                    /\ ring'[slot'[d]].src = [cpu |-> d, skb |-> skb'[d]]
    <3>1. CASE d = c
      BY <1>1, <1>2, <3>1 DEF Ownership, TypeOK
    <3>2. CASE d # c
      <4>1. pc'[d] = pc[d] /\ skb'[d] = skb[d] /\ slot'[d] = slot[d]
        BY <1>1, <1>2, <3>2 DEF TypeOK
      <4>2. pc[d] \in {"fill", "submit"} =>
              /\ slot[d] \in Len(printed) + 1 .. Len(ring)
              /\ ring[slot[d]].busy
              /\ ring[slot[d]].src = [cpu |-> d, skb |-> skb[d]]
        BY <1>1 DEF Ownership
      <4>3. pc[d] \in {"fill", "submit"} =>
              slot[d] \in 1 .. Len(ring) /\ slot[d] # k
        BY <1>1, <3>2, <4>2, RingTyped DEF TypeOK
      <4> QED  BY <1>1, <1>2, <4>1, <4>2, <4>3 DEF Ownership
    <3> QED  BY <3>1, <3>2
  <2>2. ASSUME NEW i \in 1 .. Len(ring), ring'[i].busy
        PROVE  slot'[ring'[i].src.cpu] = i
    BY <1>1, <1>2, <2>2 DEF Ownership
  <2> QED  BY <2>1, <2>2 DEF Ownership
<1>11. Contents'
  <2> SUFFICES ASSUME NEW i \in 1 .. Len(ring)
               PROVE  /\ Filter(ring'[i].src.skb)
                      /\ Filled(i)' => \E t \in 1 .. now' :
                                         ring'[i].data = EventOf(ring'[i].src, t)
                      /\ ~Filled(i)' => ring'[i].data = StaleEvent
    BY DEF Contents
  <2>1. CASE i = k
    BY <1>1, <1>2, <1>9, <2>1 DEF Contents
  <2>2. CASE i # k
    <3>1. 1 .. now \subseteq 1 .. now'
      BY <1>1, <1>2 DEF TypeOK
    <3> QED  BY <1>1, <1>9, <2>2, <3>1 DEF Contents
  <2> QED  BY <2>1, <2>2
<1>12. CpuOrder'
  <2> SUFFICES ASSUME NEW i \in 1 .. Len(ring), NEW j \in 1 .. Len(ring),
                      i < j, ring'[i].src.cpu = ring'[j].src.cpu
               PROVE  /\ ~ring'[i].busy
                      /\ Filled(j)' => ring'[i].data.ts <= ring'[j].data.ts
    BY DEF CpuOrder
  <2>1. ring[i].src.cpu = ring[j].src.cpu
    OBVIOUS
  <2>2. ~ring[i].busy /\ i # k /\ ring'[i] = ring[i]
    BY <1>1, <2>1 DEF CpuOrder
  <2>3. CASE j = k
    <3>1. PICK t \in 1 .. now : ring[i].data = EventOf(ring[i].src, t)
      BY <1>1, <2>2 DEF Contents, Filled
    <3>2. ring[i].data.ts = t /\ t <= now'
      BY <1>1, <1>2, <3>1, EventOfType, RingTyped DEF TypeOK
    <3> QED  BY <2>2, <2>3, <3>2
  <2>4. CASE j # k
    BY <1>1, <1>9, <2>1, <2>2, <2>4 DEF CpuOrder
  <2> QED  BY <2>3, <2>4
<1>13. Lines'
  <2>1. \A i \in 1 .. Len(printed) : i \in 1 .. Len(ring) /\ i # k
    BY <1>1, RingTyped DEF Lines, TypeOK
  <2> QED  BY <1>1, <1>2, <2>1 DEF Lines
<1>14. Times'
  BY <1>1, <1>2 DEF Times
<1> QED
  BY <1>8, <1>10, <1>11, <1>12, <1>13, <1>14 DEF IInv

LEMMA SubmittedRing ==
  ASSUME TypeOK, NEW k \in 1 .. Len(ring)
  PROVE  ring' = [ring EXCEPT ![k].busy = FALSE] =>
           /\ ring' \in Seq(RecordType)
           /\ Len(ring') = Len(ring)
           /\ \A i \in 1 .. Len(ring) : i # k => ring'[i] = ring[i]
           /\ ring'[k] = [ring[k] EXCEPT !.busy = FALSE]
<1>1. PICK r \in RecordType : r = [ring[k] EXCEPT !.busy = FALSE]
  BY RingTyped DEF RecordType
<1>2. ring \in Seq(RecordType)
  BY DEF TypeOK
<1>3. ASSUME ring' = [ring EXCEPT ![k] = r]
      PROVE  /\ ring' \in Seq(RecordType)
             /\ Len(ring') = Len(ring)
             /\ \A i \in 1 .. Len(ring) : i # k => ring'[i] = ring[i]
             /\ ring'[k] = r
  BY <1>2, <1>3, ReplacedSeq
<1> QED
  BY <1>1, <1>3

LEMMA SubmitIInv ==
  ASSUME IInv, NEW c \in CPUs, Submit(c)
  PROVE  IInv'
<1>1. TypeOK /\ Ownership /\ Contents /\ CpuOrder /\ Lines /\ Times
  BY DEF IInv
<1> PICK k \in 1 .. Len(ring) : k = slot[c]
  <2>1. slot[c] \in Len(printed) + 1 .. Len(ring)
    BY <1>1 DEF Ownership, Submit
  <2>2. Len(printed) \in Nat
    BY <1>1 DEF TypeOK
  <2> QED  BY <1>1, <2>1, <2>2, RingTyped
<1>2. /\ UNCHANGED <<consPos, now, exiting, loop, ret, printed, startTs>>
      /\ pc[c] = "submit"
      /\ pc' = [pc EXCEPT ![c] = "idle"]
      /\ skb' = [skb EXCEPT ![c] = NoSkb]
      /\ slot' = [slot EXCEPT ![c] = 0]
      /\ ring' = [ring EXCEPT ![k].busy = FALSE]
  BY DEF Submit, outVars
<1>3. ready' \in BOOLEAN
  BY <1>1 DEF Submit, SubmitWakes, TypeOK
<1>4. /\ ring[k].busy
      /\ ring[k].src.cpu = c
      /\ ring[k] \in RecordType
  <2>1. ring[k].busy /\ ring[k].src = [cpu |-> c, skb |-> skb[c]]
    BY <1>1, <1>2 DEF Ownership
  <2> QED  BY <1>1, <2>1, RingTyped
<1>5. /\ ring' \in Seq(RecordType)
      /\ Len(ring') = Len(ring)
      /\ \A i \in 1 .. Len(ring) : i # k => ring'[i] = ring[i]
      /\ ring'[k] = [ring[k] EXCEPT !.busy = FALSE]
  BY <1>1, <1>2, SubmittedRing
<1>6. /\ ~ring'[k].busy
      /\ ring'[k].src = ring[k].src
      /\ ring'[k].data = ring[k].data
  BY <1>4, <1>5 DEF RecordType
<1>7. TypeOK'
  BY <1>1, <1>2, <1>3, <1>5 DEF TypeOK
<1>8. \A i \in 1 .. Len(ring) :
        i # k /\ ring[i].src.cpu = c => ~ring[i].busy
  BY <1>1, OwnerUnique
<1>9. \A i \in 1 .. Len(ring) : Filled(i)' <=> Filled(i)
  <2>1. Filled(k) /\ Filled(k)'
    BY <1>1, <1>2, <1>4, <1>6 DEF Filled
  <2>2. \A i \in 1 .. Len(ring) : i # k => (Filled(i)' <=> Filled(i))
    BY <1>1, <1>2, <1>5, <1>8, RingTyped DEF Filled, TypeOK
  <2> QED  BY <2>1, <2>2
<1>10. Ownership'
  <2>1. ASSUME NEW d \in CPUs
        PROVE  /\ pc'[d] = "idle" => skb'[d] = NoSkb /\ slot'[d] = 0
               /\ pc'[d] # "idle" => skb'[d] \in Skbs /\ Filter(skb'[d])
               /\ pc'[d] = "reserve" => slot'[d] = 0
               /\ pc'[d] \in {"fill", "submit"} =>
                    /\ slot'[d] \in Len(printed') + 1 .. Len(ring')
                    /\ ring'[slot'[d]].busy
                    /\ ring'[slot'[d]].src = [cpu |-> d, skb |-> skb'[d]]
    <3>1. CASE d = c
      BY <1>1, <1>2, <3>1 DEF TypeOK
    <3>2. CASE d # c
      <4>1. pc'[d] = pc[d] /\ skb'[d] = skb[d] /\ slot'[d] = slot[d]
        BY <1>1, <1>2, <3>2 DEF TypeOK
      <4>2. pc[d] \in {"fill", "submit"} =>
              /\ slot[d] \in Len(printed) + 1 .. Len(ring)
              /\ ring[slot[d]].busy
              /\ ring[slot[d]].src = [cpu |-> d, skb |-> skb[d]]
        BY <1>1 DEF Ownership
      <4>3. pc[d] \in {"fill", "submit"} =>
              slot[d] \in 1 .. Len(ring) /\ slot[d] # k
        BY <1>1, <1>4, <3>2, <4>2, RingTyped DEF TypeOK
      <4> QED  BY <1>1, <1>2, <1>5, <4>1, <4>2, <4>3 DEF Ownership
    <3> QED  BY <3>1, <3>2
  <2>2. ASSUME NEW i \in 1 .. Len(ring'), ring'[i].busy
        PROVE  slot'[ring'[i].src.cpu] = i
    <3>1. i \in 1 .. Len(ring) /\ i # k
      BY <1>5, <1>6, <2>2
    <3>2. ring[i].busy /\ ring'[i] = ring[i] /\ ring[i].src.cpu # c
      BY <1>5, <1>8, <2>2, <3>1
    <3> QED  BY <1>1, <1>2, <3>1, <3>2, RingTyped DEF TypeOK, Ownership
  <2> QED  BY <2>1, <2>2 DEF Ownership
<1>11. Contents'
  <2>1. \A i \in 1 .. Len(ring) : /\ ring'[i].src = ring[i].src
                                  /\ ring'[i].data = ring[i].data
    BY <1>5, <1>6
  <2> QED  BY <1>1, <1>2, <1>5, <1>9, <2>1 DEF Contents
<1>12. CpuOrder'
  <2>1. \A i \in 1 .. Len(ring) : /\ ring'[i].src = ring[i].src
                                  /\ ring'[i].data = ring[i].data
                                  /\ ~ring[i].busy => ~ring'[i].busy
    BY <1>5, <1>6
  <2> QED  BY <1>1, <1>5, <1>9, <2>1 DEF CpuOrder
<1>13. Lines'
  <2>1. \A i \in 1 .. Len(printed) : i \in 1 .. Len(ring) /\ i # k
    BY <1>1, <1>4, RingTyped DEF Lines, TypeOK
  <2> QED  BY <1>1, <1>2, <1>5, <2>1 DEF Lines
<1>14. Times'
  BY <1>1, <1>2 DEF Times
<1> QED
  BY <1>7, <1>10, <1>11, <1>12, <1>13, <1>14 DEF IInv

LEMMA HandleEventIInv ==
  ASSUME IInv, HandleEvent
  PROVE  IInv'
<1>1. TypeOK /\ Ownership /\ Contents /\ CpuOrder /\ Lines /\ Times
  BY DEF IInv
<1> PICK k \in 1 .. Len(ring) : k = consPos + 1
  BY <1>1, RingTyped DEF HandleEvent, prodPos, TypeOK
<1> PICK e : e = ring[k].data
  OBVIOUS
<1> PICK x : x = [data |-> e, shown |-> Elapsed(e.ts, startTs')]
  OBVIOUS
<1>2. /\ UNCHANGED <<pc, skb, slot, ring, now, consPos, exiting, ready, ret>>
      /\ loop = "drain" /\ loop' = "release"
      /\ ~ring[k].busy
      /\ startTs' = IF startTs = 0 THEN e.ts ELSE startTs
      /\ printed' = Append(printed, x)
  BY DEF HandleEvent, PrintEntry, kernelVars, cpuVars
<1>3. PICK t \in 1 .. now : e = EventOf(ring[k].src, t)
  BY <1>1, <1>2 DEF Contents, Filled
<1>4. e \in EventType /\ e.ts = t /\ e.ts \in Nat \ {0}
  BY <1>1, <1>3, EventOfType, RingTyped DEF TypeOK
<1>5. startTs' \in Nat \ {0}
  BY <1>1, <1>2, <1>4 DEF TypeOK
<1>6. /\ x \in [data : EventType, shown : Nat]
      /\ x.data = e /\ x.shown = Elapsed(e.ts, startTs')
  <2>1. e.ts \in Nat /\ startTs' \in Nat
    BY <1>4, <1>5
  <2>2. Elapsed(e.ts, startTs') \in Nat
    BY <2>1 DEF Elapsed
  <2> QED  BY <1>4, <2>2
<1>7. /\ printed' \in Seq([data : EventType, shown : Nat])
      /\ Len(printed') = Len(printed) + 1
      /\ printed'[Len(printed) + 1] = x
      /\ \A i \in 1 .. Len(printed) : printed'[i] = printed[i]
      /\ Len(printed) \in Nat
  BY <1>1, <1>2, <1>6 DEF TypeOK
<1>8. Len(printed) = consPos /\ k = Len(printed) + 1
  BY <1>1, <1>2 DEF Lines
<1>9. TypeOK'
  BY <1>1, <1>2, <1>5, <1>7 DEF TypeOK
<1>10. Ownership'
  <2>1. \A d \in CPUs : pc[d] \in {"fill", "submit"} => slot[d] # k
    BY <1>1, <1>2 DEF Ownership
  <2>2. \A d \in CPUs : pc[d] \in {"fill", "submit"} =>
          slot[d] \in Len(printed') + 1 .. Len(ring)
    <3>1. \A d \in CPUs : pc[d] \in {"fill", "submit"} =>
            slot[d] \in Len(printed) + 1 .. Len(ring)
      BY <1>1 DEF Ownership
    <3>2. Len(ring) \in Nat
      BY <1>1, RingTyped
    <3> QED  BY <1>7, <1>8, <2>1, <3>1, <3>2
  <2> QED  BY <1>1, <1>2, <2>2 DEF Ownership
<1>11. Contents' /\ CpuOrder'
  BY <1>1, <1>2 DEF Contents, CpuOrder, Filled
<1>12. Lines'
  <2>1. \A i \in 1 .. Len(printed') : i \in 1 .. Len(printed) \/ i = k
    BY <1>7, <1>8
  <2>2. Len(printed') <= Len(ring)
    BY <1>7, <1>8, <1>1, RingTyped
  <2> QED  BY <1>1, <1>2, <1>6, <1>7, <1>8, <2>1, <2>2 DEF Lines
<1>13. Times'
  <2>1. ASSUME NEW i \in 1 .. Len(printed')
        PROVE  printed'[i].shown = Elapsed(printed'[i].data.ts, startTs')
    <3>1. CASE i = k
      BY <1>6, <1>7, <1>8, <3>1
    <3>2. CASE i # k
      <4>1. i \in 1 .. Len(printed) /\ startTs # 0
        BY <1>1, <1>7, <1>8, <3>2 DEF Times
      <4> QED  BY <1>1, <1>2, <1>7, <4>1 DEF Times
    <3> QED  BY <3>1, <3>2
  <2> QED  BY <1>5, <1>7, <2>1 DEF Times
<1> QED
  BY <1>9, <1>10, <1>11, <1>12, <1>13 DEF IInv

LEMMA ReleaseRecordIInv ==
  ASSUME IInv, ReleaseRecord
  PROVE  IInv'
<1>1. TypeOK /\ Ownership /\ Contents /\ CpuOrder /\ Lines /\ Times
  BY DEF IInv
<1>2. /\ UNCHANGED <<pc, skb, slot, ring, now, exiting, ready, ret, printed,
                     startTs>>
      /\ loop = "release" /\ loop' = "drain" /\ consPos' = consPos + 1
  BY DEF ReleaseRecord, kernelVars, cpuVars, outVars
<1>3. TypeOK'
  BY <1>1, <1>2 DEF TypeOK
<1>4. Ownership'
  BY <1>1, <1>2 DEF Ownership
<1>5. Contents' /\ CpuOrder'
  BY <1>1, <1>2 DEF Contents, CpuOrder, Filled
<1>6. Lines'
  BY <1>1, <1>2, RingTyped, CapacityAssumption DEF Lines, TypeOK
<1>7. Times'
  BY <1>1, <1>2 DEF Times
<1> QED
  BY <1>3, <1>4, <1>5, <1>6, <1>7 DEF IInv

\* Every step of the programs, of the loop and of its environment preserves
\* the invariant.
LEMMA NextIInv ==
  ASSUME IInv, [Next]_vars
  PROVE  IInv'
<1> USE DEF Run, Program
<1>1. ASSUME NEW c \in CPUs, NEW s \in Skbs, Probe(c, s)
      PROVE  IInv'
  BY <1>1, ProbeIInv
<1>2. ASSUME NEW c \in CPUs, Program(c)
      PROVE  IInv'
  BY <1>2, ReserveIInv, ReserveFailsIInv, FillIInv, SubmitIInv
<1>3. CASE StartRun
  <2>1. ready' \in BOOLEAN
    <3>1. ready \in BOOLEAN /\ (consPos < prodPos) \in BOOLEAN
      BY DEF IInv, TypeOK
    <3>2. ready' = (consPos < prodPos) \/ ready' = ready
      BY <1>3 DEF StartRun
    <3> QED  BY <3>1, <3>2
  <2> QED  BY <1>3, <2>1, LoopStep DEF StartRun, Return, IInv, TypeOK
<1>4. CASE Check
  BY <1>4, LoopStep DEF Check, Return, IInv, TypeOK
<1>5. CASE EnterPoll
  BY <1>5, LoopStep DEF EnterPoll, IInv, TypeOK
<1>6. CASE Wakeup \/ PollTimeout \/ PollInterrupted \/ PollReturns
  BY <1>6, LoopStep DEF Wakeup, PollTimeout, PollInterrupted, PollReturns,
                        IInv, TypeOK
<1>7. CASE PollError
  BY <1>7, LoopStep DEF PollError, Return, IInv, TypeOK
<1>8. CASE Signal
  BY <1>8, LoopStep DEF Signal, IInv, TypeOK
<1>9. CASE HandleEvent \/ ReleaseRecord
  BY <1>9, HandleEventIInv, ReleaseRecordIInv
<1>10. CASE UNCHANGED vars
  BY <1>10, LoopStep DEF vars, kernelVars, cpuVars, outVars, IInv, TypeOK
<1> QED
  BY <1>1, <1>2, <1>3, <1>4, <1>5, <1>6, <1>7, <1>8, <1>9, <1>10 DEF Next

\* The invariant holds in every state of every run.
THEOREM Invariance == Spec => []IInv
<1>1. Init => IInv
  BY InitIInv
<1>2. IInv /\ [Next]_vars => IInv'
  BY NextIInv
<1> QED
  BY <1>1, <1>2, PTL DEF Spec

-----------------------------------------------------------------------------
(* What the invariant gives.                                                *)

\* Every variable keeps its type; in particular the time shown is never
\* negative, and no memory that was not written is ever used as a time.
THEOREM TypeCorrect == Spec => []TypeOK
<1>1. IInv => TypeOK
  BY DEF IInv
<1> QED
  BY <1>1, Invariance, PTL

\* A printed line is the record of the call that made the reservation.
LEMMA LineOfCall ==
  ASSUME IInv, NEW i \in 1 .. Len(printed)
  PROVE  /\ i \in 1 .. Len(ring) /\ ring[i].src \in Origins
         /\ Filter(ring[i].src.skb)
         /\ printed[i].data = ring[i].data
         /\ \E t \in Nat : printed[i].data = EventOf(ring[i].src, t)
<1>1. TypeOK /\ Contents /\ Lines
  BY DEF IInv
<1>2. i \in 1 .. Len(ring)
  BY <1>1, RingTyped DEF Lines, TypeOK
<1>3. Filled(i) /\ printed[i].data = ring[i].data
  BY <1>1 DEF Lines, Filled
<1>4. PICK t \in 1 .. now : ring[i].data = EventOf(ring[i].src, t)
  BY <1>1, <1>2, <1>3 DEF Contents
<1> QED
  BY <1>1, <1>2, <1>3, <1>4, RingTyped DEF Contents

\* Lines come in reservation order and show only what their packet holds,
\* for any interleaving of any number of CPUs.
THEOREM Truthful == Spec => []PrintedTruthfully
<1>1. ASSUME IInv PROVE PrintedTruthfully
  <2>1. DOMAIN printed = 1 .. Len(printed)
    BY <1>1 DEF IInv, TypeOK
  <2>2. ASSUME NEW i \in 1 .. Len(printed)
        PROVE  /\ printed[i].data.cpu = ring[i].src.cpu
               /\ printed[i].data.skb = ring[i].src.skb
               /\ DescribesMeta(printed[i].data.meta, ring[i].src.skb)
               /\ DescribesTuple(printed[i].data.tuple, ring[i].src.skb)
    BY <1>1, LineOfCall, EventOfType, EventOfTruthful
  <2> QED  BY <2>1, <2>2 DEF PrintedTruthfully
<1> QED
  BY <1>1, Invariance, PTL

\* No line contradicts the configured filters.
THEOREM AgreesWithFilter == Spec => []PrintedAgreesWithFilter
<1>1. ASSUME IInv PROVE PrintedAgreesWithFilter
  <2>1. DOMAIN printed = 1 .. Len(printed)
    BY <1>1 DEF IInv, TypeOK
  <2> QED  BY <1>1, <2>1, LineOfCall, EventOfAgrees
           DEF PrintedAgreesWithFilter
<1> QED
  BY <1>1, Invariance, PTL

\* The times of one CPU's lines do not decrease, recorded or shown.
THEOREM TimesOrdered == Spec => []TimesOrderedPerCpu
<1>1. ASSUME IInv PROVE TimesOrderedPerCpu
  <2>1. TypeOK /\ CpuOrder /\ Lines /\ Times
    BY <1>1 DEF IInv
  <2>2. DOMAIN printed = 1 .. Len(printed) /\ startTs \in Nat
    BY <2>1 DEF TypeOK
  <2> SUFFICES ASSUME NEW i \in 1 .. Len(printed),
                      NEW j \in 1 .. Len(printed),
                      i < j, printed[i].data.cpu = printed[j].data.cpu
               PROVE  /\ printed[i].data.ts <= printed[j].data.ts
                      /\ printed[i].shown <= printed[j].shown
    BY <2>2 DEF TimesOrderedPerCpu
  <2>3. PICK t \in Nat : printed[i].data = EventOf(ring[i].src, t)
    BY <1>1, LineOfCall
  <2>4. PICK u \in Nat : printed[j].data = EventOf(ring[j].src, u)
    BY <1>1, LineOfCall
  <2>5. ring[i].src.cpu = ring[j].src.cpu
    BY <1>1, <2>3, <2>4, LineOfCall, EventOfType
  <2>6. printed[i].data.ts = t /\ printed[j].data.ts = u
    BY <1>1, <2>3, <2>4, LineOfCall, EventOfType
  <2>7. Filled(j)
    BY <2>1 DEF Lines, Filled
  <2>8. t <= u
    BY <1>1, <2>1, <2>5, <2>6, <2>7, LineOfCall DEF CpuOrder
  <2>9. Elapsed(t, startTs) <= Elapsed(u, startTs)
    BY <2>2, <2>8 DEF Elapsed
  <2> QED  BY <2>1, <2>6, <2>8, <2>9 DEF Times
<1> QED
  BY <1>1, Invariance, PTL

\* A record under way always belongs to one program that will submit it.
THEOREM NoOrphan == Spec => []BusyIsOwned
<1>1. ASSUME IInv PROVE BusyIsOwned
  <2>1. TypeOK /\ Ownership
    BY <1>1 DEF IInv
  <2>2. DOMAIN ring = 1 .. Len(ring)
    BY <2>1 DEF TypeOK
  <2>3. ASSUME NEW i \in 1 .. Len(ring), ring[i].busy
        PROVE  \E c \in CPUs : slot[c] = i
    BY <2>1, <2>3, RingTyped DEF Ownership
  <2>4. ASSUME NEW c \in CPUs, slot[c] # 0
        PROVE  ring[slot[c]].src.cpu = c
    <3>0. pc[c] \in {"idle", "reserve", "fill", "submit"}
      BY <2>1 DEF TypeOK
    <3>1. pc[c] \in {"fill", "submit"}
      BY <2>1, <2>4, <3>0 DEF Ownership
    <3>2. ring[slot[c]].src = [cpu |-> c, skb |-> skb[c]]
      BY <2>1, <3>1 DEF Ownership
    <3> QED  BY <3>2
  <2> QED  BY <2>2, <2>3, <2>4 DEF BusyIsOwned
<1> QED
  BY <1>1, Invariance, PTL
-----------------------------------------------------------------------------
(* Capture implements TraceLog: initial states map to initial states, a    *)
(* reservation is an Accept, a submission a Complete, a printed line an    *)
(* Emit, and every other step changes nothing of the abstract log.         *)


\* The abstract state, as the instance Log in Capture maps it.
Entry(i) == [src  |-> ring[Len(printed) + i].src,
             done |-> ~ring[Len(printed) + i].busy]

Emitted(i) == [cpu |-> printed[i].data.cpu, skb |-> printed[i].data.skb]

Queue == [i \in 1 .. Len(ring) - Len(printed) |-> Entry(i)]

Out == [i \in 1 .. Len(printed) |-> Emitted(i)]

EntryType == [src : Origins, done : BOOLEAN]

\* A function on 1 .. n is a sequence of length n.
LEMMA FunctionIsSeq ==
  ASSUME NEW S, NEW n \in Nat, NEW f \in [1 .. n -> S]
  PROVE  f \in Seq(S) /\ Len(f) = n
<1>1. f \in Seq(S)
  BY SeqDef
<1>2. DOMAIN f = 1 .. n /\ DOMAIN f = 1 .. Len(f) /\ Len(f) \in Nat
  BY <1>1, LenProperties
<1> QED
  BY <1>1, <1>2

\* The abstract queue and output are sequences of the lengths one expects.
AbstractTypeOK ==
  /\ Len(printed) \in Nat /\ Len(ring) \in Nat
  /\ Len(ring) - Len(printed) \in Nat
  /\ Queue \in Seq(EntryType)
  /\ Len(Queue) = Len(ring) - Len(printed)
  /\ Out \in Seq(Origins)
  /\ Len(Out) = Len(printed)

LEMMA AbstractTyped == IInv => AbstractTypeOK
<1> SUFFICES ASSUME IInv PROVE AbstractTypeOK
  OBVIOUS
<1>1. TypeOK /\ Lines
  BY DEF IInv
<1>2. /\ Len(printed) \in Nat /\ Len(ring) \in Nat
      /\ Len(ring) - Len(printed) \in Nat
  BY <1>1, RingTyped DEF TypeOK, Lines
<1>3. ASSUME NEW i \in 1 .. Len(ring) - Len(printed)
      PROVE  Entry(i) \in EntryType
  <2>1. Len(printed) + i \in 1 .. Len(ring)
    BY <1>2
  <2> QED  BY <1>1, <2>1, RingTyped DEF EntryType, Entry
<1>4. Queue \in [1 .. Len(ring) - Len(printed) -> EntryType]
  BY <1>3 DEF Queue
<1>5. ASSUME NEW i \in 1 .. Len(printed)
      PROVE  Emitted(i) \in Origins
  BY LineOfCall, EventOfType DEF Emitted, Origins
<1>6. Out \in [1 .. Len(printed) -> Origins]
  BY <1>5 DEF Out
<1> QED
  BY <1>2, <1>4, <1>6, FunctionIsSeq DEF AbstractTypeOK

\* The same of the next state.
LEMMA AbstractTypedNext == IInv' => AbstractTypeOK'
BY AbstractTyped, PTL

LEMMA InitRefines == Init => Log!LogInit
<1> SUFFICES ASSUME Init PROVE Log!LogInit
  OBVIOUS
<1>1. Len(ring) = 0 /\ Len(printed) = 0
  BY DEF Init
<1>2. Len(Queue) = 0 /\ Len(Out) = 0
      /\ Queue \in Seq(EntryType) /\ Out \in Seq(Origins)
  BY <1>1, InitIInv, AbstractTyped DEF AbstractTypeOK
<1>3. Queue = <<>> /\ Out = <<>>
  BY <1>2, EmptySeq
<1> QED
  BY <1>3 DEF Log!LogInit, Queue, Entry, Out, Emitted

\* A step that neither prints nor moves, adds or submits a record is a
\* stutter.
LEMMA StutterRefines ==
  ASSUME IInv, UNCHANGED printed, Len(ring') = Len(ring),
         \A i \in 1 .. Len(ring) : /\ ring'[i].src = ring[i].src
                                  /\ ring'[i].busy = ring[i].busy
  PROVE  Queue' = Queue /\ Out' = Out
<1>1. AbstractTypeOK
  BY AbstractTyped
<1>2. \A i \in 1 .. Len(ring) - Len(printed) :
        Len(printed) + i \in 1 .. Len(ring)
  BY <1>1 DEF AbstractTypeOK
<1> QED
  BY <1>2 DEF Queue, Out, Entry, Emitted

LEMMA AcceptRefines ==
  ASSUME IInv, IInv', NEW c \in CPUs, Reserve(c)
  PROVE  \E h \in Origins : Log!Accept(h)
<1> DEFINE h == [cpu |-> c, skb |-> skb[c]]
           x == [src |-> h, done |-> FALSE]
<1>1. /\ AbstractTypeOK /\ AbstractTypeOK'
      /\ TypeOK /\ Ownership /\ Lines
  BY AbstractTyped, AbstractTypedNext DEF IInv
<1>2. /\ printed' = printed
      /\ pc[c] = "reserve"
      /\ Len(ring) - consPos < Capacity
      /\ Len(ring') = Len(ring) + 1
      /\ \A i \in 1 .. Len(ring) : ring'[i] = ring[i]
      /\ ring'[Len(ring) + 1].src = h
      /\ ring'[Len(ring) + 1].busy
  BY <1>1 DEF Reserve, outVars, prodPos, TypeOK
<1>3. h \in Origins /\ x \in EntryType
  BY <1>1, <1>2 DEF Ownership, Origins, EntryType
<1>4. Len(Queue) < Capacity
  BY <1>1, <1>2, CapacityAssumption DEF AbstractTypeOK, Lines, TypeOK
<1>5. ASSUME NEW i \in 1 .. Len(Queue), Queue[i].src.cpu = c
      PROVE  Queue[i].done
  <2>1. Len(printed) + i \in 1 .. Len(ring)
    BY <1>1 DEF AbstractTypeOK
  <2>2. Queue[i] = Entry(i)
    BY <1>1 DEF AbstractTypeOK, Queue
  <2>3. ring[Len(printed) + i].src.cpu = c
    BY <1>5, <2>2 DEF Entry
  <2>4. ~ring[Len(printed) + i].busy
    BY <1>1, <1>2, <2>1, <2>3, OwnerUnique
  <2>5. Queue[i].done = ~ring[Len(printed) + i].busy
    BY <2>2 DEF Entry
  <2> QED  BY <2>4, <2>5, Zenon
<1>6. Queue' = Append(Queue, x)
  <2>1. Append(Queue, x) \in Seq(EntryType)
        /\ Len(Append(Queue, x)) = Len(Queue) + 1
        /\ \A i \in 1 .. Len(Queue) : Append(Queue, x)[i] = Queue[i]
        /\ Append(Queue, x)[Len(Queue) + 1] = x
    BY <1>1, <1>3, AppendProperties DEF AbstractTypeOK
  <2>2. Queue' \in Seq(EntryType) /\ Len(Queue') = Len(Queue) + 1
    BY <1>1, <1>2 DEF AbstractTypeOK
  <2>0. Len(Queue) = Len(ring) - Len(printed) /\ Len(Queue) \in Nat
        /\ Len(printed) \in Nat /\ Len(ring) \in Nat
    BY <1>1 DEF AbstractTypeOK
  <2>3. ASSUME NEW i \in 1 .. Len(Queue) + 1
        PROVE  Queue'[i] = Append(Queue, x)[i]
    <3>1. Queue'[i] = [src  |-> ring'[Len(printed) + i].src,
                       done |-> ~ring'[Len(printed) + i].busy]
      BY <1>1, <1>2 DEF AbstractTypeOK, Queue, Entry
    <3>2. CASE i = Len(Queue) + 1
      <4>1. Len(printed) + i = Len(ring) + 1
        BY <2>0, <3>2
      <4>2. ring'[Len(printed) + i].src = h
        BY <1>2, <4>1
      <4>3. PICK d : /\ d = ~ring'[Len(printed) + i].busy
                     /\ Queue'[i] =
                          [src |-> ring'[Len(printed) + i].src, done |-> d]
        BY <3>1, Zenon
      <4>4. d = FALSE
        BY <1>2, <4>1, <4>3, Zenon
      <4>5. Queue'[i] = x
        BY <4>2, <4>3, <4>4, Zenon
      <4> QED  BY <2>1, <3>2, <4>5
    <3>3. CASE i # Len(Queue) + 1
      <4>1. i \in 1 .. Len(Queue) /\ Len(printed) + i \in 1 .. Len(ring)
        BY <2>0, <3>3
      <4>2. Queue[i] = Entry(i)
        BY <1>1, <4>1 DEF AbstractTypeOK, Queue
      <4> QED  BY <1>2, <2>1, <3>1, <4>1, <4>2 DEF Entry
    <3> QED  BY <3>2, <3>3
  <2> QED  BY <2>1, <2>2, <2>3, SeqEqual
<1>7. Out' = Out
  BY <1>2 DEF Out, Emitted
<1>8. DOMAIN Queue = 1 .. Len(Queue)
  BY <1>1, LenProperties DEF AbstractTypeOK
<1> QED
  BY <1>3, <1>4, <1>5, <1>6, <1>7, <1>8
  DEF Log!Accept, Queue, Out, Entry, Emitted

LEMMA CompleteRefines ==
  ASSUME IInv, IInv', NEW c \in CPUs, Submit(c)
  PROVE  \E m \in DOMAIN Queue : Log!Complete(m)
<1>1. /\ AbstractTypeOK /\ AbstractTypeOK'
      /\ TypeOK /\ Ownership /\ Lines
  BY AbstractTyped, AbstractTypedNext DEF IInv
<1>2. Len(Queue) = Len(ring) - Len(printed) /\ Len(Queue) \in Nat
      /\ Len(printed) \in Nat /\ Len(ring) \in Nat
  BY <1>1 DEF AbstractTypeOK
<1> PICK k \in 1 .. Len(ring) : k = slot[c] /\ k > Len(printed)
  <2>1. slot[c] \in Len(printed) + 1 .. Len(ring)
    BY <1>1 DEF Ownership, Submit
  <2> QED  BY <1>2, <2>1
<1> PICK m \in 1 .. Len(Queue) : k = Len(printed) + m
  <2>1. k - Len(printed) \in 1 .. Len(Queue)
    BY <1>2
  <2> QED  BY <1>2, <2>1
<1>3. /\ printed' = printed
      /\ ring[k].busy
      /\ ring[k] \in RecordType
      /\ ring' = [ring EXCEPT ![k].busy = FALSE]
  BY <1>1, RingTyped DEF Ownership, Submit, outVars
<1>4. /\ Len(ring') = Len(ring)
      /\ \A i \in 1 .. Len(ring) : i # k => ring'[i] = ring[i]
      /\ ring'[k] = [ring[k] EXCEPT !.busy = FALSE]
  BY <1>1, <1>3, SubmittedRing
<1>5. ring'[k].src = ring[k].src /\ ring'[k].busy = FALSE
  BY <1>3, <1>4 DEF RecordType
<1>6. Queue[m].done = FALSE
  <2>1. Queue[m].done = ~ring[k].busy
    BY DEF Queue, Entry
  <2> QED  BY <1>3, <2>1, Zenon
<1>7. Queue' = [Queue EXCEPT ![m].done = TRUE]
  <2>0. Queue[m] = [src |-> ring[k].src, done |-> FALSE]
    <3>1. Queue[m] \in EntryType
      BY <1>1 DEF AbstractTypeOK
    <3>2. Queue[m].src = ring[k].src
      BY DEF Queue, Entry
    <3> QED  BY <1>6, <3>1, <3>2 DEF EntryType
  <2>1. PICK x \in EntryType : x = [src |-> ring[k].src, done |-> TRUE]
    <3>1. ring[k].src \in Origins
      BY <1>1, RingTyped
    <3> QED  BY <3>1 DEF EntryType
  <2>2. [Queue EXCEPT ![m].done = TRUE] = [Queue EXCEPT ![m] = x]
    <3>1. \A q \in EntryType, b \in BOOLEAN :
            [q EXCEPT !.done = b] = [src |-> q.src, done |-> b]
      BY DEF EntryType
    <3>2. Queue[m] \in EntryType
      BY <1>1 DEF AbstractTypeOK
    <3>3. [Queue[m] EXCEPT !.done = TRUE] = x
      BY <2>0, <2>1, <3>1, <3>2
    <3> QED  BY <3>3
  <2>3. /\ [Queue EXCEPT ![m] = x] \in Seq(EntryType)
        /\ Len([Queue EXCEPT ![m] = x]) = Len(Queue)
        /\ [Queue EXCEPT ![m] = x][m] = x
        /\ \A i \in 1 .. Len(Queue) :
             i # m => [Queue EXCEPT ![m] = x][i] = Queue[i]
    BY <1>1, <1>2 DEF AbstractTypeOK
  <2>4. Queue' \in Seq(EntryType) /\ Len(Queue') = Len(Queue)
    BY <1>1, <1>2, <1>3, <1>4 DEF AbstractTypeOK
  <2>5. ASSUME NEW i \in 1 .. Len(Queue)
        PROVE  Queue'[i] = [Queue EXCEPT ![m] = x][i]
    <3>1. PICK d : /\ d = ~ring'[Len(printed) + i].busy
                   /\ Queue'[i] = [src |-> ring'[Len(printed) + i].src,
                                   done |-> d]
      BY <1>2, <1>3, <1>4 DEF Queue, Entry
    <3>2. CASE i = m
      <4>1. d = TRUE
        BY <1>5, <3>1, <3>2, Zenon
      <4> QED  BY <1>5, <2>1, <2>3, <3>1, <3>2, <4>1
    <3>3. CASE i # m
      <4>1. ring'[Len(printed) + i] = ring[Len(printed) + i]
        BY <1>2, <1>4, <3>3
      <4>2. Queue[i] = Entry(i)
        BY <1>2 DEF Queue
      <4> QED  BY <2>3, <3>1, <3>3, <4>1, <4>2, Zenon DEF Entry
    <3> QED  BY <3>2, <3>3
  <2> QED  BY <2>2, <2>3, <2>4, <2>5, SeqEqual
<1>8. Out' = Out
  BY <1>3 DEF Out, Emitted
<1>9. m \in DOMAIN Queue
  BY <1>1, LenProperties DEF AbstractTypeOK
<1> QED
  BY <1>6, <1>7, <1>8, <1>9
  DEF Log!Complete, Queue, Out, Entry, Emitted

LEMMA EmitRefines ==
  ASSUME IInv, IInv', HandleEvent
  PROVE  Log!Emit
<1>1. /\ AbstractTypeOK /\ AbstractTypeOK' /\ IInv
      /\ TypeOK /\ Ownership /\ Lines
  BY AbstractTyped, AbstractTypedNext DEF IInv
<1>2. Len(Queue) = Len(ring) - Len(printed) /\ Len(Queue) \in Nat
      /\ Len(printed) \in Nat /\ Len(ring) \in Nat
  BY <1>1 DEF AbstractTypeOK
<1> PICK k \in 1 .. Len(ring) : k = Len(printed) + 1 /\ k = consPos + 1
  BY <1>1, <1>2 DEF HandleEvent, prodPos, Lines, TypeOK
<1> PICK e : e = printed'[k]
  OBVIOUS
<1>3. /\ ring' = ring
      /\ ~ring[k].busy
      /\ Len(printed') = Len(printed) + 1
      /\ \A i \in 1 .. Len(printed) : printed'[i] = printed[i]
      /\ e.data = ring[k].data
  BY <1>1, <1>2 DEF HandleEvent, PrintEntry, kernelVars, TypeOK
<1>4. e.data.cpu = ring[k].src.cpu /\ e.data.skb = ring[k].src.skb
  <2>1. PICK t \in 1 .. now : ring[k].data = EventOf(ring[k].src, t)
    BY <1>3, <1>1 DEF IInv, Contents, Filled
  <2> QED  BY <1>1, <1>3, <2>1, EventOfType, RingTyped DEF TypeOK
<1>5. Queue # <<>> /\ 1 \in 1 .. Len(Queue)
  BY <1>2
<1>6. Head(Queue) = Queue[1]
  BY <1>1, <1>5 DEF AbstractTypeOK
<1>7. Head(Queue).done /\ Head(Queue).src = ring[k].src
  <2>1. PICK d : /\ d = ~ring[k].busy
                 /\ Queue[1] = [src |-> ring[k].src, done |-> d]
    BY <1>2, <1>5 DEF Queue, Entry
  <2>2. d = TRUE
    BY <1>3, <2>1, Zenon
  <2> QED  BY <1>6, <2>1, <2>2
<1>8. Queue' = Tail(Queue)
  <2>1. /\ Tail(Queue) \in Seq(EntryType)
        /\ Len(Tail(Queue)) = Len(Queue) - 1
        /\ \A i \in 1 .. Len(Tail(Queue)) : Tail(Queue)[i] = Queue[i + 1]
    BY <1>1, <1>5, HeadTailProperties DEF AbstractTypeOK
  <2>2. Queue' \in Seq(EntryType) /\ Len(Queue') = Len(Queue) - 1
    BY <1>1, <1>2, <1>3 DEF AbstractTypeOK
  <2>3. ASSUME NEW i \in 1 .. Len(Queue) - 1
        PROVE  Queue'[i] = Queue[i + 1]
    <3>1. Queue'[i] = [src  |-> ring[Len(printed') + i].src,
                       done |-> ~ring[Len(printed') + i].busy]
      BY <1>2, <1>3 DEF Queue, Entry
    <3>2. Queue[i + 1] = [src  |-> ring[Len(printed) + (i + 1)].src,
                          done |-> ~ring[Len(printed) + (i + 1)].busy]
      BY <1>2 DEF Queue, Entry
    <3>3. Len(printed') + i = Len(printed) + (i + 1)
      BY <1>2, <1>3
    <3> QED  BY <3>1, <3>2, <3>3, Zenon
  <2> QED  BY <1>2, <2>1, <2>2, <2>3, SeqEqual
<1>9. Out' = Append(Out, Head(Queue).src)
  <2>1. ring[k].src \in Origins
    BY <1>1, RingTyped
  <2>2. /\ Append(Out, ring[k].src) \in Seq(Origins)
        /\ Len(Append(Out, ring[k].src)) = Len(Out) + 1
        /\ \A i \in 1 .. Len(Out) : Append(Out, ring[k].src)[i] = Out[i]
        /\ Append(Out, ring[k].src)[Len(Out) + 1] = ring[k].src
    BY <1>1, <2>1, AppendProperties DEF AbstractTypeOK
  <2>3. /\ Out' \in Seq(Origins) /\ Len(Out') = Len(Out) + 1
        /\ Len(Out) = Len(printed)
    BY <1>1, <1>3 DEF AbstractTypeOK
  <2>4. ASSUME NEW i \in 1 .. Len(Out) + 1
        PROVE  Out'[i] = Append(Out, ring[k].src)[i]
    <3>1. Out'[i] = [cpu |-> printed'[i].data.cpu,
                     skb |-> printed'[i].data.skb]
      BY <1>3, <2>3 DEF Out, Emitted
    <3>2. CASE i = k
      <4>1. ring[k].src = [cpu |-> ring[k].src.cpu, skb |-> ring[k].src.skb]
        BY <2>1 DEF Origins
      <4> QED  BY <1>4, <2>2, <2>3, <3>1, <3>2, <4>1
    <3>3. CASE i # k
      <4>1. i \in 1 .. Len(Out)
        BY <1>2, <2>3, <3>3
      <4>2. Out[i] = [cpu |-> printed[i].data.cpu,
                      skb |-> printed[i].data.skb]
        BY <2>3, <4>1 DEF Out, Emitted
      <4> QED  BY <1>3, <2>2, <2>3, <3>1, <4>1, <4>2
    <3> QED  BY <3>2, <3>3
  <2> QED  BY <1>7, <2>2, <2>3, <2>4, SeqEqual
<1> QED
  BY <1>5, <1>7, <1>8, <1>9 DEF Log!Emit, Queue, Out, Entry, Emitted

\* A step of the loop or of its environment that prints nothing.
LEMMA LoopStutters ==
  ASSUME IInv, UNCHANGED <<ring, printed>>
  PROVE  UNCHANGED <<Queue, Out>>
BY DEF Queue, Out, Entry, Emitted

LEMMA FillStutters ==
  ASSUME IInv, NEW c \in CPUs, Fill(c)
  PROVE  UNCHANGED <<Queue, Out>>
<1>1. TypeOK /\ Ownership
  BY DEF IInv
<1>2. /\ printed' = printed
      /\ Len(ring') = Len(ring)
      /\ \A i \in 1 .. Len(ring) : /\ ring'[i].src = ring[i].src
                                   /\ ring'[i].busy = ring[i].busy
  <2>1. PICK k \in 1 .. Len(ring) :
          /\ Len(ring') = Len(ring)
          /\ \A i \in 1 .. Len(ring) : i # k => ring'[i] = ring[i]
          /\ ring[k].busy /\ ring'[k].busy
          /\ ring'[k].src = ring[k].src
          /\ ring' \in Seq(RecordType)
    BY <1>1, FilledRing
  <2>2. ring[k].busy = TRUE /\ ring'[k].busy = TRUE
    <3>1. ring[k].busy \in BOOLEAN /\ ring'[k].busy \in BOOLEAN
      BY <1>1, <2>1, RingTyped DEF RecordType
    <3> QED  BY <2>1, <3>1, Zenon
  <2> QED  BY <2>1, <2>2 DEF Fill, outVars
<1> QED
  BY <1>2, StutterRefines

\* Every step of Capture is a step of TraceLog or changes nothing of it.
LEMMA NextRefines ==
  IInv /\ IInv' /\ [Next]_vars => [Log!LogNext]_(Log!logVars)
<1> SUFFICES ASSUME IInv, IInv', [Next]_vars
             PROVE  Log!LogNext \/ UNCHANGED <<Queue, Out>>
  BY DEF Log!logVars, Queue, Out, Entry, Emitted
<1> USE DEF Run, Program
<1>1. ASSUME NEW c \in CPUs, Reserve(c)
      PROVE  Log!LogNext
  BY <1>1, AcceptRefines DEF Log!LogNext
<1>2. ASSUME NEW c \in CPUs, Submit(c)
      PROVE  Log!LogNext
  BY <1>2, CompleteRefines DEF Log!LogNext, Queue, Entry
<1>3. CASE HandleEvent
  BY <1>3, EmitRefines DEF Log!LogNext
<1>4. ASSUME NEW c \in CPUs, Fill(c)
      PROVE  UNCHANGED <<Queue, Out>>
  BY <1>4, FillStutters
<1>5. ASSUME NEW c \in CPUs, ReserveFails(c) \/ \E s \in Skbs : Probe(c, s)
      PROVE  UNCHANGED <<Queue, Out>>
  BY <1>5, LoopStutters DEF ReserveFails, Probe, outVars
<1>6. CASE \/ StartRun \/ Check \/ EnterPoll \/ Wakeup \/ PollTimeout
           \/ ReleaseRecord \/ PollReturns \/ PollInterrupted \/ PollError
           \/ Signal
  BY <1>6, LoopStutters
  DEF StartRun, Check, EnterPoll, Wakeup, PollTimeout, ReleaseRecord,
      PollReturns, PollInterrupted, PollError, Signal, kernelVars, outVars
<1>7. CASE UNCHANGED vars
  BY <1>7, LoopStutters DEF vars
<1> QED
  BY <1>1, <1>2, <1>3, <1>4, <1>5, <1>6, <1>7 DEF Next

\* For any number of CPUs, any packets and any ring buffer size, the lines
\* printed are a first-in first-out log of the calls that got a record.
THEOREM Refinement == Spec => ImplementsTraceLog
<1>1. Init => Log!LogInit
  BY InitRefines
<1>2. IInv /\ IInv' /\ [Next]_vars => [Log!LogNext]_(Log!logVars)
  BY NextRefines
<1> QED
  BY <1>1, <1>2, Invariance, PTL DEF Spec, ImplementsTraceLog, Log!LogSpec
=============================================================================
