------------------------- MODULE FilterInjectProofs -------------------------
(***************************************************************************)
(* For every program libbpf can hand over, every stub length and filters   *)
(* of every length: no injection breaks a call or a function body, and     *)
(* what is loaded holds the filters.                                       *)
(*                                                                         *)
(* The argument is local.  Lemma InjectedAt says what the injection puts at *)
(* each position; an instruction that was kept is the old one but for imm. *)
(* CallsSurvive then compares each call with its target by where the two    *)
(* lie relative to the cut: no call goes into the inside of a stub, since   *)
(* the target is the first instruction of a function, so the tests against  *)
(* `position' alone decide rightly.  The invariant adds where the stubs not *)
(* yet replaced are: at their func_info offset plus `offset'.               *)
(***************************************************************************)
EXTENDS FilterInject, SequenceTheorems, TLAPS

FilterRecord == [len : Nat \ {0}, text : {"l2", "l3", "false"}]

\* Instruction b is instruction a, but possibly for imm.
Same(a, b) == /\ a.call = b.call /\ a.fn = b.fn /\ a.at = b.at
              /\ a.of = b.of /\ a.callee = b.callee /\ a.text = b.text

-----------------------------------------------------------------------------
LEMMA PatchedSame ==
  ASSUME NEW a \in Insn, NEW d \in Int
  PROVE  /\ Patched(a, d) \in Insn
         /\ Same(Patched(a, d), a)
         /\ Patched(a, d).imm = a.imm + d
BY DEF Patched, Insn, Same

LEMMA FilterBodyType ==
  ASSUME NEW f \in FilterRecord, NEW fn \in Functions
  PROVE  /\ FilterBody(f, fn) \in Seq(Insn)
         /\ Len(FilterBody(f, fn)) = f.len
         /\ \A k \in 1 .. f.len :
              /\ ~FilterBody(f, fn)[k].call
              /\ FilterBody(f, fn)[k].fn = fn
              /\ FilterBody(f, fn)[k].at = k - 1
              /\ FilterBody(f, fn)[k].of = f.len
              /\ FilterBody(f, fn)[k].text = f.text
<1>1. f.len \in Nat /\ f.len >= 1 /\ f.text \in {"l2", "l3", "false"}
  BY DEF FilterRecord
<1>2. \A k \in 1 .. f.len :
        [call |-> FALSE, imm |-> 0, fn |-> fn, at |-> k - 1, of |-> f.len,
         callee |-> fn, text |-> f.text] \in Insn
  BY <1>1 DEF Insn
<1>3. FilterBody(f, fn) \in [1 .. f.len -> Insn]
  BY <1>2 DEF FilterBody
<1>4. FilterBody(f, fn) \in Seq(Insn) /\ Len(FilterBody(f, fn)) = f.len
  BY <1>1, <1>3
<1>5. QED  BY <1>1, <1>4 DEF FilterBody

LEMMA ConcatAt ==
  ASSUME NEW a \in Seq(Insn), NEW b \in Seq(Insn)
  PROVE  /\ a \o b \in Seq(Insn)
         /\ Len(a \o b) = Len(a) + Len(b)
         /\ \A i \in 1 .. Len(a) : (a \o b)[i] = a[i]
         /\ \A j \in 1 .. Len(b) : (a \o b)[Len(a) + j] = b[j]
<1>1. Len(a) \in Nat /\ Len(b) \in Nat
  OBVIOUS
<1>2. /\ a \o b \in Seq(Insn)
      /\ Len(a \o b) = Len(a) + Len(b)
      /\ \A i \in 1 .. Len(a) + Len(b) :
           (a \o b)[i] = IF i <= Len(a) THEN a[i] ELSE b[i - Len(a)]
  BY ConcatProperties
<1>3. ASSUME NEW j \in 1 .. Len(b)
      PROVE  (a \o b)[Len(a) + j] = b[j]
  <2>1. /\ Len(a) + j \in 1 .. Len(a) + Len(b)
        /\ ~(Len(a) + j <= Len(a))
        /\ (Len(a) + j) - Len(a) = j
    BY <1>1
  <2>2. QED  BY <1>2, <2>1
<1>4. QED  BY <1>1, <1>2, <1>3

\* Position i behind a filter of length l at position n, and in what follows.
LEMMA Behind ==
  ASSUME NEW n \in Nat, NEW l \in Nat, NEW s \in Nat, NEW r \in Nat,
         NEW i \in n + l .. n + l + r - 1
  PROVE  /\ i + 1 - n - l \in 1 .. r
         /\ n + l + (i + 1 - n - l) = i + 1
         /\ n + s + (i + 1 - n - l) - 1 = i - (l - s)
OBVIOUS

\* The three parts of a program of m instructions after a cut at n.
LEMMA PartsOf ==
  ASSUME NEW n \in Nat, NEW l \in Nat, NEW s \in Nat, NEW m \in Nat,
         NEW d \in Int, d = l - s, n + s <= m, NEW i \in 0 .. m + d - 1
  PROVE  \/ i \in 0 .. n - 1
         \/ i - n \in 0 .. l - 1
         \/ i - d \in n + s .. m - 1
OBVIOUS

\* An instruction behind the stub moves by d.
LEMMA Moved ==
  ASSUME NEW n \in Nat, NEW l \in Nat, NEW s \in Nat, NEW m \in Nat,
         NEW d \in Int, d = l - s, NEW o \in n + s .. m - 1
  PROVE  o + d \in n + l .. m + d - 1
OBVIOUS

\* The length after s instructions of m were replaced by l.
LEMMA NewLength ==
  ASSUME NEW n \in Nat, NEW s \in Nat, NEW m \in Nat, NEW l \in Nat,
         NEW r \in Nat, r = m - n - s
  PROVE  n + l + r = m + (l - s)
OBVIOUS

\* What is at each position after an injection.
LEMMA InjectedAt ==
  ASSUME NEW p \in Seq(Insn), NEW position \in Nat,
         NEW f \in FilterRecord, NEW fn \in Functions,
         position + StubLen <= Len(p)
  PROVE  LET q == Injected(p, position, f, fn)
         IN  /\ q \in Seq(Insn)
             /\ Len(q) = Len(p) + Delta(f)
             /\ \A i \in 0 .. position - 1 :
                  At(q, i) = IF CrossesForward(i, At(p, i), position)
                             THEN Patched(At(p, i), Delta(f))
                             ELSE At(p, i)
             /\ \A k \in 0 .. f.len - 1 :
                  At(q, position + k) = FilterBody(f, fn)[k + 1]
             /\ \A i \in position + f.len .. Len(q) - 1 :
                  LET o == i - Delta(f)
                  IN  At(q, i) = IF CrossesBackward(o, At(p, o), position)
                                 THEN Patched(At(p, o), 0 - Delta(f))
                                 ELSE At(p, o)
<1>1. /\ f.len \in Nat /\ f.len >= 1 /\ StubLen \in Nat
      /\ Delta(f) = f.len - StubLen /\ Delta(f) \in Int
      /\ 0 - Delta(f) \in Int /\ Len(p) \in Nat
  BY StubLenAssumption DEF FilterRecord, Delta
<1>2. PICK rest \in Nat : rest = Len(p) - position - StubLen
  <2>1. Len(p) - position - StubLen \in Nat
    BY <1>1
  <2>2. QED  BY <2>1
<1> DEFINE
  before == [j \in 1 .. position |->
        IF CrossesForward(j - 1, p[j], position)
        THEN Patched(p[j], Delta(f)) ELSE p[j]]
  body == FilterBody(f, fn)
  after == [j \in 1 .. rest |->
        LET i == position + StubLen + j - 1
        IN  IF CrossesBackward(i, At(p, i), position)
            THEN Patched(At(p, i), 0 - Delta(f)) ELSE At(p, i)]
  q == Injected(p, position, f, fn)
<1>3. before \in Seq(Insn) /\ Len(before) = position
  <2>1. ASSUME NEW j \in 1 .. position
        PROVE  before[j] \in Insn
    <3>1. p[j] \in Insn
      BY <1>1
    <3>2. Patched(p[j], Delta(f)) \in Insn
      BY <1>1, <3>1, PatchedSame
    <3>3. QED  BY <3>1, <3>2
  <2>2. before \in [1 .. position -> Insn]
    BY <2>1
  <2> HIDE DEF before
  <2>3. QED  BY <2>2
<1>4. body \in Seq(Insn) /\ Len(body) = f.len
  BY FilterBodyType
<1>5. after \in Seq(Insn) /\ Len(after) = rest
  <2>1. ASSUME NEW j \in 1 .. rest
        PROVE  after[j] \in Insn
    <3>1. At(p, position + StubLen + j - 1) \in Insn
      BY <1>1, <1>2 DEF At
    <3>2. Patched(At(p, position + StubLen + j - 1), 0 - Delta(f)) \in Insn
      BY <1>1, <3>1, PatchedSame
    <3>3. QED  BY <3>1, <3>2
  <2>2. after \in [1 .. rest -> Insn]
    BY <2>1
  <2> HIDE DEF after
  <2>3. QED  BY <2>2
<1>6. q = before \o body \o after
  BY <1>2 DEF Injected
<1> HIDE DEF before, body, after, q
<1> DEFINE u == before \o body
<1>7. /\ u \in Seq(Insn) /\ Len(u) = position + f.len
      /\ \A j \in 1 .. position : u[j] = before[j]
      /\ \A k \in 1 .. f.len : u[position + k] = body[k]
  <2>1. /\ u \in Seq(Insn) /\ Len(u) = Len(before) + Len(body)
        /\ \A j \in 1 .. Len(before) : u[j] = before[j]
        /\ \A k \in 1 .. Len(body) : u[Len(before) + k] = body[k]
    BY <1>3, <1>4, ConcatAt
  <2> HIDE DEF u
  <2>2. QED  BY <1>3, <1>4, <2>1
<1> HIDE DEF u
<1>8. /\ q \in Seq(Insn) /\ Len(q) = position + f.len + rest
      /\ \A j \in 1 .. position : q[j] = before[j]
      /\ \A k \in 1 .. f.len : q[position + k] = body[k]
      /\ \A j \in 1 .. rest : q[position + f.len + j] = after[j]
  <2>1. q = u \o after
    BY <1>6 DEF u
  <2> DEFINE v == u \o after
  <2>2. /\ v \in Seq(Insn)
        /\ Len(v) = position + f.len + rest
        /\ \A j \in 1 .. position + f.len : v[j] = u[j]
        /\ \A j \in 1 .. rest : v[position + f.len + j] = after[j]
    <3>1. /\ v \in Seq(Insn) /\ Len(v) = Len(u) + Len(after)
          /\ \A j \in 1 .. Len(u) : v[j] = u[j]
          /\ \A j \in 1 .. Len(after) : v[Len(u) + j] = after[j]
      BY <1>5, <1>7, ConcatAt
    <3> HIDE DEF v
    <3>2. QED  BY <1>5, <1>7, <3>1
  <2>3. \A k \in 1 .. f.len : position + k \in 1 .. position + f.len
    BY <1>1
  <2>4. \A j \in 1 .. position : j \in 1 .. position + f.len
    BY <1>1
  <2>5. QED  BY <1>7, <2>1, <2>2, <2>3, <2>4
<1>9. Len(q) = Len(p) + Delta(f)
  <2>0. PICK l \in Nat, m \in Nat : l = f.len /\ m = Len(p)
    BY <1>1
  <2>1. position + f.len + rest = Len(p) + (f.len - StubLen)
    <3>1. rest = m - position - StubLen
      BY <1>2, <2>0
    <3>2. position + l + rest = m + (l - StubLen)
      BY <1>1, <3>1, NewLength
    <3>3. QED  BY <2>0, <3>2
  <2>2. Len(q) = position + f.len + rest
    BY <1>8
  <2>3. Delta(f) = f.len - StubLen
    BY <1>1
  <2>4. QED  BY <2>1, <2>2, <2>3
<1>10. ASSUME NEW i \in 0 .. position - 1
       PROVE  At(q, i) = IF CrossesForward(i, At(p, i), position)
                         THEN Patched(At(p, i), Delta(f)) ELSE At(p, i)
  <2>1. q[i + 1] = before[i + 1] /\ i + 1 \in 1 .. position
    BY <1>8
  <2>2. (i + 1) - 1 = i
    OBVIOUS
  <2>3. QED  BY <2>1, <2>2 DEF before, At
<1>11. ASSUME NEW k \in 0 .. f.len - 1
       PROVE  At(q, position + k) = body[k + 1]
  <2>1. k + 1 \in 1 .. f.len /\ position + (k + 1) = position + k + 1
    BY <1>1
  <2>2. QED  BY <1>8, <2>1 DEF At
<1>12. ASSUME NEW i \in position + f.len .. Len(q) - 1
       PROVE  At(q, i) =
                IF CrossesBackward(i - Delta(f), At(p, i - Delta(f)), position)
                THEN Patched(At(p, i - Delta(f)), 0 - Delta(f))
                ELSE At(p, i - Delta(f))
  <2>0. PICK l \in Nat : l = f.len
    BY <1>1
  <2>1. i \in position + l .. position + l + rest - 1
    <3>1. Len(q) = position + l + rest
      BY <1>8, <2>0
    <3>2. i \in position + l .. Len(q) - 1
      BY <2>0
    <3>3. QED  BY <3>1, <3>2
  <2>2. PICK j : /\ j \in 1 .. rest
                 /\ position + f.len + j = i + 1
                 /\ position + StubLen + j - 1 = i - Delta(f)
    <3>1. PICK j : /\ j \in 1 .. rest
                   /\ position + l + j = i + 1
                   /\ position + StubLen + j - 1 = i - (l - StubLen)
      <4>1. /\ i + 1 - position - l \in 1 .. rest
            /\ position + l + (i + 1 - position - l) = i + 1
            /\ position + StubLen + (i + 1 - position - l) - 1
                 = i - (l - StubLen)
        BY <1>1, <2>1, Behind
      <4>2. QED  BY <4>1
    <3>2. QED  BY <1>1, <2>0, <3>1
  <2>3. q[i + 1] = after[j]
    BY <1>8, <2>2
  <2>4. QED  BY <2>2, <2>3 DEF after, At
<1>13. QED  BY <1>8, <1>9, <1>10, <1>11, <1>12 DEF body, q

-----------------------------------------------------------------------------
\* The same by where an instruction was before: those before the stub stay
\* at their place, those behind it move by d, and nothing else is there but
\* the l instructions of the filter.
Parts(p, q, n, l, d, fn, text) ==
  /\ Len(q) = Len(p) + d
  /\ d = l - StubLen /\ l >= 1
  /\ \A i \in 0 .. n - 1 :
       /\ Same(At(q, i), At(p, i))
       /\ At(q, i).imm = IF CrossesForward(i, At(p, i), n)
                        THEN At(p, i).imm + d ELSE At(p, i).imm
  /\ \A k \in 0 .. l - 1 :
       /\ ~At(q, n + k).call
       /\ At(q, n + k).fn = fn
       /\ At(q, n + k).at = k
       /\ At(q, n + k).of = l
       /\ At(q, n + k).text = text
  /\ \A o \in n + StubLen .. Len(p) - 1 :
       /\ Same(At(q, o + d), At(p, o))
       /\ At(q, o + d).imm = IF CrossesBackward(o, At(p, o), n)
                            THEN At(p, o).imm - d ELSE At(p, o).imm
  /\ \A i \in 0 .. Len(q) - 1 :
       \/ i \in 0 .. n - 1
       \/ i - n \in 0 .. l - 1
       \/ i - d \in n + StubLen .. Len(p) - 1

LEMMA InjectedParts ==
  ASSUME NEW p \in Seq(Insn), NEW n \in Nat, NEW f \in FilterRecord,
         NEW fn \in Functions, n + StubLen <= Len(p),
         NEW l \in Nat, l = f.len,
         NEW d \in Int, d = Delta(f),
         NEW q, q = Injected(p, n, f, fn)
  PROVE  q \in Seq(Insn) /\ Parts(p, q, n, l, d, fn, f.text)
<1>1. /\ StubLen \in Nat /\ Len(p) \in Nat
      /\ l >= 1 /\ d = l - StubLen
  BY StubLenAssumption DEF FilterRecord, Delta
<1>2. /\ q \in Seq(Insn)
      /\ Len(q) = Len(p) + d
      /\ \A i \in 0 .. n - 1 :
           At(q, i) = IF CrossesForward(i, At(p, i), n)
                      THEN Patched(At(p, i), d) ELSE At(p, i)
      /\ \A k \in 0 .. l - 1 : At(q, n + k) = FilterBody(f, fn)[k + 1]
      /\ \A i \in n + l .. Len(q) - 1 :
           At(q, i) = IF CrossesBackward(i - d, At(p, i - d), n)
                      THEN Patched(At(p, i - d), 0 - d) ELSE At(p, i - d)
  BY InjectedAt
<1>3. \A i \in 0 .. Len(p) - 1 : At(p, i) \in Insn
  BY <1>1 DEF At
<1>4. ASSUME NEW i \in 0 .. n - 1
      PROVE  /\ Same(At(q, i), At(p, i))
             /\ At(q, i).imm = IF CrossesForward(i, At(p, i), n)
                              THEN At(p, i).imm + d ELSE At(p, i).imm
  <2>1. At(p, i) \in Insn
    BY <1>1, <1>3
  <2>2. CASE CrossesForward(i, At(p, i), n)
    <3>1. At(q, i) = Patched(At(p, i), d)
      BY <1>2, <2>2
    <3>2. QED  BY <2>1, <2>2, <3>1, PatchedSame
  <2>3. CASE ~CrossesForward(i, At(p, i), n)
    BY <1>2, <2>3 DEF Same
  <2>4. QED  BY <2>2, <2>3
<1>5. ASSUME NEW k \in 0 .. l - 1
      PROVE  /\ ~At(q, n + k).call
             /\ At(q, n + k).fn = fn
             /\ At(q, n + k).at = k
             /\ At(q, n + k).of = l
             /\ At(q, n + k).text = f.text
  <2>1. k + 1 \in 1 .. f.len /\ (k + 1) - 1 = k
    BY <1>1
  <2>2. At(q, n + k) = FilterBody(f, fn)[k + 1]
    BY <1>2
  <2>3. QED  BY <2>1, <2>2, FilterBodyType
<1>6. ASSUME NEW o \in n + StubLen .. Len(p) - 1
      PROVE  /\ Same(At(q, o + d), At(p, o))
             /\ At(q, o + d).imm = IF CrossesBackward(o, At(p, o), n)
                                  THEN At(p, o).imm - d ELSE At(p, o).imm
  <2>1. At(p, o) \in Insn /\ At(p, o).imm \in Int
    <3>1. At(p, o) \in Insn
      BY <1>1, <1>3
    <3>2. QED  BY <3>1 DEF Insn
  <2>2. o + d \in n + l .. Len(q) - 1 /\ (o + d) - d = o
    <3>1. Len(q) = Len(p) + d
      BY <1>2
    <3>2. PICK m \in Nat : m = Len(p)
      BY <1>1
    <3>3. o \in n + StubLen .. m - 1
      BY <3>2
    <3>4. o + d \in n + l .. m + d - 1
      BY <1>1, <3>3, Moved
    <3>5. o \in Int /\ (o + d) - d = o
      BY <1>1, <3>3
    <3>6. QED  BY <3>1, <3>2, <3>4, <3>5
  <2>3. At(q, o + d) = IF CrossesBackward(o, At(p, o), n)
                       THEN Patched(At(p, o), 0 - d) ELSE At(p, o)
    BY <1>2, <2>2
  <2>4. CASE CrossesBackward(o, At(p, o), n)
    <3>1. At(q, o + d) = Patched(At(p, o), 0 - d) /\ 0 - d \in Int
      BY <2>3, <2>4
    <3>2. /\ Same(At(q, o + d), At(p, o))
          /\ At(q, o + d).imm = At(p, o).imm + (0 - d)
      BY <2>1, <3>1, PatchedSame
    <3>3. At(p, o).imm + (0 - d) = At(p, o).imm - d
      BY <2>1
    <3>4. QED  BY <2>4, <3>2, <3>3
  <2>5. CASE ~CrossesBackward(o, At(p, o), n)
    BY <2>3, <2>5 DEF Same
  <2>6. QED  BY <2>4, <2>5
<1>7. ASSUME NEW i \in 0 .. Len(q) - 1
      PROVE  \/ i \in 0 .. n - 1
             \/ i - n \in 0 .. l - 1
             \/ i - d \in n + StubLen .. Len(p) - 1
  <2>1. Len(q) = Len(p) + d
    BY <1>2
  <2>2. i \in 0 .. Len(p) + d - 1
    BY <2>1
  <2>3. QED  BY <1>1, <2>2, PartsOf
<1>8. QED  BY <1>1, <1>2, <1>4, <1>5, <1>6, <1>7 DEF Parts

\* A call's target is not inside the stub, so it stays or moves by d.
LEMMA TargetKept ==
  ASSUME NEW p \in Seq(Insn), NEW q \in Seq(Insn), NEW n \in Nat, NEW l \in Nat,
         NEW d \in Int, NEW fn, NEW text, Parts(p, q, n, l, d, fn, text),
         StubAt(p, fn, n),
         NEW t \in 1 .. Len(p) - 1, At(p, t).at = 0
  PROVE  \/ /\ t <= n /\ t \in 1 .. Len(q) - 1
            /\ At(q, t).fn = At(p, t).fn
            /\ At(q, t).at = 0
         \/ /\ t >= n + StubLen /\ t + d \in 1 .. Len(q) - 1
            /\ At(q, t + d).fn = At(p, t).fn
            /\ At(q, t + d).at = 0
<1>1. PICK m \in Nat : m = Len(p)
  OBVIOUS
<1>2. /\ StubLen \in Nat /\ StubLen >= 2 /\ l >= 1 /\ d = l - StubLen
      /\ n >= 1 /\ n + StubLen <= m
      /\ Len(q) = m + d /\ t \in 1 .. m - 1
  BY <1>1, StubLenAssumption DEF Parts, StubAt
<1>3. CASE t < n
  <2>1. t \in 0 .. n - 1 /\ t \in 1 .. m + d - 1
    BY <1>2, <1>3
  <2>2. Same(At(q, t), At(p, t))
    BY <2>1 DEF Parts
  <2>3. QED  BY <1>2, <1>3, <2>1, <2>2 DEF Same
<1>4. CASE t = n
  <2>1. At(p, n + 0).fn = fn
    BY <1>2 DEF StubAt
  <2>2. At(q, n + 0).fn = fn /\ At(q, n + 0).at = 0
    BY <1>2 DEF Parts
  <2>3. n + 0 = n /\ n \in 1 .. m + d - 1
    BY <1>2
  <2>4. QED  BY <1>2, <1>4, <2>1, <2>2, <2>3
<1>5. CASE t > n /\ t < n + StubLen
  <2>1. t - n \in 0 .. StubLen - 1 /\ n + (t - n) = t /\ t - n # 0
    BY <1>2, <1>5
  <2>2. At(p, n + (t - n)).at = t - n
    BY <2>1 DEF StubAt
  <2>3. QED  BY <2>1, <2>2
<1>6. CASE t >= n + StubLen
  <2>1. t \in n + StubLen .. m - 1
    BY <1>2, <1>6
  <2>2. t + d \in n + l .. m + d - 1
    BY <1>2, <2>1, Moved
  <2>3. t + d \in 1 .. m + d - 1
    BY <1>2, <2>2
  <2>4. Same(At(q, t + d), At(p, t))
    BY <1>1, <2>1 DEF Parts
  <2>5. QED  BY <1>2, <1>6, <2>3, <2>4 DEF Same
<1>7. QED  BY <1>2, <1>3, <1>4, <1>5, <1>6

\* A call and its target, moved by d together, or the call alone.
LEMMA Shifted ==
  ASSUME NEW o \in Int, NEW imm \in Int, NEW d \in Int
  PROVE  /\ (o + d) + imm + 1 = (o + imm + 1) + d
         /\ (o + d) + (imm - d) + 1 = o + imm + 1
OBVIOUS

\* Each call still goes where it went.
LEMMA ResolvedKept ==
  ASSUME NEW p \in Seq(Insn), NEW q \in Seq(Insn), NEW n \in Nat, NEW l \in Nat,
         NEW d \in Int, NEW fn, NEW text, Parts(p, q, n, l, d, fn, text),
         StubAt(p, fn, n), Resolved(p)
  PROVE  Resolved(q)
<1> SUFFICES ASSUME NEW i \in 0 .. Len(q) - 1, At(q, i).call
             PROVE  LET t == Target(i, At(q, i))
                    IN  /\ t \in 1 .. Len(q) - 1
                        /\ At(q, t).fn = At(q, i).callee
                        /\ At(q, t).at = 0
  BY DEF Resolved
<1>1. PICK m \in Nat : m = Len(p)
  OBVIOUS
<1>2. /\ StubLen \in Nat /\ StubLen >= 2 /\ l >= 1 /\ d = l - StubLen
      /\ n >= 1 /\ n + StubLen <= m
      /\ Len(q) = m + d
  BY <1>1, StubLenAssumption DEF Parts, StubAt
<1>3. ASSUME NEW o \in 0 .. m - 1 PROVE At(p, o).imm \in Int
  <2>1. p[o + 1] \in Insn
    BY <1>1
  <2>2. QED  BY <2>1 DEF At, Insn
<1>4. CASE i \in 0 .. n - 1
  <2>1. Same(At(q, i), At(p, i))
    BY <1>4 DEF Parts
  <2>2. i \in 0 .. m - 1 /\ At(p, i).call
    BY <1>2, <1>4, <2>1 DEF Same
  <2>3. PICK imm \in Int : imm = At(p, i).imm
    BY <1>3, <2>2
  <2>4. PICK t \in 1 .. m - 1 : t = i + imm + 1 /\ At(p, t).fn = At(p, i).callee
                             /\ At(p, t).at = 0
    BY <1>1, <2>2, <2>3 DEF Resolved, Target
  <2>5. SizeT(i + imm) = t - 1
    BY <2>3, <2>4 DEF SizeT
  <2>6. CASE t <= n /\ t \in 1 .. Len(q) - 1
                   /\ At(q, t).fn = At(p, t).fn /\ At(q, t).at = 0
    <3>1. ~CrossesForward(i, At(p, i), n)
      BY <1>2, <2>3, <2>5, <2>6 DEF CrossesForward
    <3>2. At(q, i).imm = imm
      BY <1>4, <2>3, <3>1 DEF Parts
    <3>3. Target(i, At(q, i)) = t
      BY <2>4, <3>2 DEF Target
    <3>4. QED  BY <2>1, <2>4, <2>6, <3>3 DEF Same
  <2>7. CASE t >= n + StubLen /\ t + d \in 1 .. Len(q) - 1
                   /\ At(q, t + d).fn = At(p, t).fn /\ At(q, t + d).at = 0
    <3>1. t - 1 > n
      BY <1>2, <2>7
    <3>2. CrossesForward(i, At(p, i), n)
      BY <2>2, <2>3, <2>5, <3>1 DEF CrossesForward
    <3>3. At(q, i).imm = imm + d
      BY <1>4, <2>3, <3>2 DEF Parts
    <3>4. i + (imm + d) + 1 = t + d
      BY <2>3, <2>4
    <3>5. Target(i, At(q, i)) = t + d
      BY <3>3, <3>4 DEF Target
    <3>6. QED  BY <2>1, <2>4, <2>7, <3>5 DEF Same
  <2>8. QED  BY <1>1, <2>4, <2>6, <2>7, TargetKept
<1>5. CASE i - n \in 0 .. l - 1
  <2>1. i \in Int /\ n + (i - n) = i
    OBVIOUS
  <2>2. ~At(q, n + (i - n)).call
    BY <1>5 DEF Parts
  <2>3. QED  BY <2>1, <2>2
<1>6. CASE i - d \in n + StubLen .. Len(p) - 1
  <2>1. PICK o \in Int : o = i - d
    OBVIOUS
  <2>2. o \in n + StubLen .. m - 1 /\ o + d = i
    BY <1>1, <1>6, <2>1
  <2>3. Same(At(q, i), At(p, o))
    BY <1>1, <2>2 DEF Parts
  <2>4. o \in 0 .. m - 1 /\ At(p, o).call
    BY <1>2, <2>2, <2>3 DEF Same
  <2>5. PICK imm \in Int : imm = At(p, o).imm
    BY <1>3, <2>4
  <2>6. PICK t \in 1 .. m - 1 : t = o + imm + 1 /\ At(p, t).fn = At(p, o).callee
                             /\ At(p, t).at = 0
    BY <1>1, <2>4, <2>5 DEF Resolved, Target
  <2>7. SizeT(o + imm) = t - 1
    BY <2>5, <2>6 DEF SizeT
  <2>8. i + imm + 1 = t + d /\ i + (imm - d) + 1 = t
    <3>1. i = o + d /\ t = o + imm + 1
      BY <2>2, <2>6
    <3>2. QED  BY <3>1, Shifted
  <2>9. CASE t <= n /\ t \in 1 .. Len(q) - 1
                   /\ At(q, t).fn = At(p, t).fn /\ At(q, t).at = 0
    <3>1. t - 1 < n
      BY <2>9
    <3>2. CrossesBackward(o, At(p, o), n)
      BY <2>4, <2>5, <2>7, <3>1 DEF CrossesBackward
    <3>3. At(q, i).imm = imm - d
      BY <1>1, <2>2, <2>5, <3>2 DEF Parts
    <3>4. i + (imm - d) + 1 = t
      BY <2>8
    <3>5. Target(i, At(q, i)) = t
      BY <3>3, <3>4 DEF Target
    <3>6. QED  BY <2>3, <2>6, <2>9, <3>5 DEF Same
  <2>10. CASE t >= n + StubLen /\ t + d \in 1 .. Len(q) - 1
                   /\ At(q, t + d).fn = At(p, t).fn /\ At(q, t + d).at = 0
    <3>1. ~(t - 1 < n)
      BY <1>2, <2>10
    <3>2. ~CrossesBackward(o, At(p, o), n)
      BY <2>5, <2>7, <3>1 DEF CrossesBackward
    <3>3. At(q, i).imm = imm
      BY <1>1, <2>2, <2>5, <3>2 DEF Parts
    <3>4. i + imm + 1 = t + d
      BY <2>8
    <3>5. Target(i, At(q, i)) = t + d
      BY <3>3, <3>4 DEF Target
    <3>6. QED  BY <2>3, <2>6, <2>10, <3>5 DEF Same
  <2>11. t \in 1 .. Len(p) - 1 /\ At(p, t).at = 0
    BY <1>1, <2>6
  <2>12. \/ /\ t <= n /\ t \in 1 .. Len(q) - 1
            /\ At(q, t).fn = At(p, t).fn /\ At(q, t).at = 0
         \/ /\ t >= n + StubLen /\ t + d \in 1 .. Len(q) - 1
            /\ At(q, t + d).fn = At(p, t).fn /\ At(q, t + d).at = 0
    BY <2>11, TargetKept
  <2>13. QED  BY <2>9, <2>10, <2>12
<1>7. QED  BY <1>4, <1>5, <1>6 DEF Parts

-----------------------------------------------------------------------------
\* The instruction at i + e belongs to the body of the one at i, e further.
Beside(p, i, e) == /\ i + e \in 0 .. Len(p) - 1
                   /\ At(p, i + e).fn = At(p, i).fn
                   /\ At(p, i + e).at = At(p, i).at + e
                   /\ At(p, i + e).of = At(p, i).of
                   /\ At(p, i + e).text = At(p, i).text

WholeAt(p, i) == /\ At(p, i).at < At(p, i).of
                 /\ At(p, i).at + 1 < At(p, i).of => Beside(p, i, 1)
                 /\ At(p, i).at > 0 => Beside(p, i, -1)

LEMMA WholeEverywhere ==
  ASSUME NEW p
  PROVE  Whole(p) <=> \A i \in 0 .. Len(p) - 1 : WholeAt(p, i)
BY DEF Whole, WholeAt, Beside

\* Neighbours on one side of the cut stay neighbours.
LEMMA BesideKept ==
  ASSUME NEW p \in Seq(Insn), NEW q \in Seq(Insn), NEW n \in Nat, NEW l \in Nat,
         NEW d \in Int, NEW fn, NEW text, Parts(p, q, n, l, d, fn, text),
         StubAt(p, fn, n), NEW o \in Int, NEW e \in Int, Beside(p, o, e)
  PROVE  /\ o \in 0 .. n - 1 /\ o + e \in 0 .. n - 1 => Beside(q, o, e)
         /\ o \in n + StubLen .. Len(p) - 1 /\ o + e >= n + StubLen
              => Beside(q, o + d, e)
<1>1. PICK m \in Nat : m = Len(p)
  OBVIOUS
<1>2. /\ StubLen \in Nat /\ d = l - StubLen /\ n + StubLen <= m
      /\ Len(q) = m + d
  BY <1>1, StubLenAssumption DEF Parts, StubAt
<1>3. ASSUME o \in 0 .. n - 1, o + e \in 0 .. n - 1
      PROVE  Beside(q, o, e)
  <2>1. Same(At(q, o), At(p, o)) /\ Same(At(q, o + e), At(p, o + e))
    BY <1>3 DEF Parts
  <2>2. o + e \in 0 .. m + d - 1
    BY <1>2, <1>3
  <2>3. QED  BY <1>2, <2>1, <2>2 DEF Beside, Same
<1>4. ASSUME o \in n + StubLen .. Len(p) - 1, o + e >= n + StubLen
      PROVE  Beside(q, o + d, e)
  <2>1. o + e \in n + StubLen .. m - 1
    BY <1>1, <1>2, <1>4 DEF Beside
  <2>2. Same(At(q, o + d), At(p, o)) /\ Same(At(q, (o + e) + d), At(p, o + e))
    BY <1>1, <1>4, <2>1 DEF Parts
  <2>3. (o + e) + d = (o + d) + e /\ (o + e) + d \in 0 .. m + d - 1
    <3>1. (o + e) + d \in n + l .. m + d - 1
      BY <1>2, <2>1, Moved
    <3>2. (o + e) + d = (o + d) + e
      OBVIOUS
    <3>3. QED  BY <3>1, <3>2
  <2>4. QED  BY <1>2, <2>2, <2>3 DEF Beside, Same
<1>5. QED  BY <1>3, <1>4

\* Each body is still in one piece: the cut lies between two bodies.
LEMMA WholeKept ==
  ASSUME NEW p \in Seq(Insn), NEW q \in Seq(Insn), NEW n \in Nat, NEW l \in Nat,
         NEW d \in Int, NEW fn, NEW text, Parts(p, q, n, l, d, fn, text),
         StubAt(p, fn, n), Whole(p)
  PROVE  Whole(q)
<1> SUFFICES ASSUME NEW i \in 0 .. Len(q) - 1
             PROVE  WholeAt(q, i)
  BY WholeEverywhere
<1>1. PICK m \in Nat : m = Len(p)
  OBVIOUS
<1>2. /\ StubLen \in Nat /\ StubLen >= 2 /\ l >= 1 /\ d = l - StubLen
      /\ n >= 1 /\ n + StubLen <= m
      /\ Len(q) = m + d
  BY <1>1, StubLenAssumption DEF Parts, StubAt
<1>3. ASSUME NEW o \in 0 .. m - 1
      PROVE  At(p, o).at \in Nat /\ At(p, o).of \in Nat /\ WholeAt(p, o)
  <2>1. p[o + 1] \in Insn
    BY <1>1
  <2>2. QED  BY <1>1, <2>1, WholeEverywhere DEF At, Insn
<1>4. CASE i \in 0 .. n - 1
  <2>1. i \in 0 .. m - 1 /\ Same(At(q, i), At(p, i))
    BY <1>2, <1>4 DEF Parts
  <2>2. ASSUME At(p, i).at + 1 < At(p, i).of
        PROVE  Beside(q, i, 1)
    <3>1. Beside(p, i, 1)
      BY <1>3, <2>1, <2>2 DEF WholeAt
    <3>2. i + 1 # n
      <4>1. At(p, n + 0).at = 0 /\ n + 0 = n
        BY <1>2 DEF StubAt
      <4>2. At(p, i + 1).at = At(p, i).at + 1
        BY <3>1 DEF Beside
      <4>3. QED  BY <1>3, <2>1, <4>1, <4>2
    <3>3. i + 1 \in 0 .. n - 1
      BY <1>2, <1>4, <3>2
    <3>4. QED  BY <1>4, <3>1, <3>3, BesideKept
  <2>3. ASSUME At(p, i).at > 0
        PROVE  Beside(q, i, -1)
    <3>1. Beside(p, i, -1)
      BY <1>3, <2>1, <2>3 DEF WholeAt
    <3>2. i + (-1) \in 0 .. n - 1
      BY <1>4, <3>1 DEF Beside
    <3>3. QED  BY <1>4, <3>1, <3>2, BesideKept
  <2>4. QED  BY <1>3, <2>1, <2>2, <2>3 DEF WholeAt, Same
<1>5. CASE i - n \in 0 .. l - 1
  <2>1. PICK k \in Int : k = i - n
    OBVIOUS
  <2>2. k \in 0 .. l - 1 /\ n + k = i
    BY <1>5, <2>1
  <2>3. At(q, i).fn = fn /\ At(q, i).at = k /\ At(q, i).of = l /\ At(q, i).text = text
    BY <2>2 DEF Parts
  <2>0. \A j \in 0 .. l - 1 :
          /\ At(q, n + j).fn = fn /\ At(q, n + j).at = j
          /\ At(q, n + j).of = l /\ At(q, n + j).text = text
    BY DEF Parts
  <2>4. ASSUME k + 1 < l
        PROVE  Beside(q, i, 1)
    <3>1. k + 1 \in 0 .. l - 1 /\ n + (k + 1) = i + 1 /\ i + 1 \in 0 .. m + d - 1
      BY <1>2, <2>2, <2>4
    <3>2. /\ At(q, i + 1).fn = fn /\ At(q, i + 1).at = k + 1
          /\ At(q, i + 1).of = l /\ At(q, i + 1).text = text
      <4>1. At(q, i + 1) = At(q, n + (k + 1))
        BY <3>1
      <4>2. QED  BY <2>0, <3>1, <4>1
    <3>3. QED  BY <1>2, <2>3, <3>1, <3>2 DEF Beside
  <2>5. ASSUME k > 0
        PROVE  Beside(q, i, -1)
    <3>1. k + (-1) \in 0 .. l - 1 /\ n + (k + (-1)) = i + (-1)
          /\ i + (-1) \in 0 .. m + d - 1
      BY <1>2, <2>2, <2>5
    <3>2. /\ At(q, i + (-1)).fn = fn /\ At(q, i + (-1)).at = k + (-1)
          /\ At(q, i + (-1)).of = l /\ At(q, i + (-1)).text = text
      <4>1. At(q, i + (-1)) = At(q, n + (k + (-1)))
        BY <3>1
      <4>2. QED  BY <2>0, <3>1, <4>1
    <3>3. QED  BY <1>2, <2>3, <3>1, <3>2 DEF Beside
  <2>6. k < l
    BY <2>2
  <2>7. QED  BY <2>3, <2>4, <2>5, <2>6 DEF WholeAt
<1>6. CASE i - d \in n + StubLen .. Len(p) - 1
  <2>1. PICK o \in Int : o = i - d
    OBVIOUS
  <2>2. o \in n + StubLen .. m - 1 /\ o + d = i /\ o \in 0 .. m - 1
    BY <1>1, <1>2, <1>6, <2>1
  <2>3. Same(At(q, i), At(p, o))
    BY <1>1, <2>2 DEF Parts
  <2>4. ASSUME At(p, o).at + 1 < At(p, o).of
        PROVE  Beside(q, i, 1)
    <3>1. Beside(p, o, 1)
      BY <1>3, <2>2, <2>4 DEF WholeAt
    <3>2. o + 1 >= n + StubLen
      BY <1>2, <2>2
    <3>3. QED  BY <1>1, <2>2, <3>1, <3>2, BesideKept
  <2>5. ASSUME At(p, o).at > 0
        PROVE  Beside(q, i, -1)
    <3>1. Beside(p, o, -1)
      BY <1>3, <2>2, <2>5 DEF WholeAt
    <3>2. o # n + StubLen
      <4>1. SUFFICES ASSUME o = n + StubLen PROVE FALSE
        OBVIOUS
      <4>2. StubLen - 1 \in 0 .. StubLen - 1 /\ n + (StubLen - 1) = o + (-1)
        BY <1>2, <4>1
      <4>3. At(p, o + (-1)).at = StubLen - 1 /\ At(p, o + (-1)).of = StubLen
        BY <4>2 DEF StubAt
      <4>4. At(p, o + (-1)).at = At(p, o).at + (-1)
            /\ At(p, o + (-1)).of = At(p, o).of
        BY <3>1 DEF Beside
      <4>5. At(p, o).at < At(p, o).of
        BY <1>3, <2>2 DEF WholeAt
      <4>6. At(p, o).at \in Nat
        BY <1>3, <2>2
      <4>7. QED  BY <1>2, <4>3, <4>4, <4>5, <4>6
    <3>3. o + (-1) >= n + StubLen
      BY <1>2, <2>2, <3>2
    <3>4. QED  BY <1>1, <2>2, <3>1, <3>3, BesideKept
  <2>6. QED  BY <1>3, <2>2, <2>3, <2>4, <2>5 DEF WholeAt, Same
<1>7. QED  BY <1>4, <1>5, <1>6 DEF Parts

\* Where another stub behind the cut is afterwards.
LEMMA StubKept ==
  ASSUME NEW p \in Seq(Insn), NEW q \in Seq(Insn), NEW n \in Nat, NEW l \in Nat,
         NEW d \in Int, NEW fn, NEW text, Parts(p, q, n, l, d, fn, text),
         StubAt(p, fn, n), NEW g, NEW j \in Int, j > n, StubAt(p, g, j)
  PROVE  StubAt(q, g, j + d)
<1>1. PICK m \in Nat : m = Len(p)
  OBVIOUS
<1>2. /\ StubLen \in Nat /\ StubLen >= 2 /\ l >= 1 /\ d = l - StubLen
      /\ n >= 1 /\ n + StubLen <= m /\ j + StubLen <= m
      /\ Len(q) = m + d
  BY <1>1, StubLenAssumption DEF Parts, StubAt
<1>3. j >= n + StubLen
  <2>1. SUFFICES ASSUME j < n + StubLen PROVE FALSE
    BY <1>2
  <2>2. j - n \in 0 .. StubLen - 1 /\ n + (j - n) = j /\ j - n # 0
    BY <1>2, <2>1
  <2>3. At(p, n + (j - n)).at = j - n
    BY <2>2 DEF StubAt
  <2>4. At(p, j + 0).at = 0 /\ j + 0 = j
    BY <1>2 DEF StubAt
  <2>5. QED  BY <2>2, <2>3, <2>4
<1>4. fn # g
  <2>1. At(p, n + 0).fn = fn /\ n + 0 = n /\ n \in 0 .. m - 1
    <3>1. 0 \in 0 .. StubLen - 1 /\ n + 0 = n /\ n \in 0 .. m - 1
      BY <1>2
    <3>2. QED  BY <3>1 DEF StubAt
  <2>2. At(p, n).fn = g => n \in j .. j + StubLen - 1
    BY <1>1, <2>1 DEF StubAt
  <2>3. QED  BY <1>2, <2>1, <2>2
<1>5. ASSUME NEW k \in 0 .. StubLen - 1
      PROVE  /\ At(q, (j + d) + k).fn = g
             /\ At(q, (j + d) + k).at = k
             /\ At(q, (j + d) + k).of = StubLen
             /\ At(q, (j + d) + k).text = "program"
  <2>1. j + k \in n + StubLen .. m - 1 /\ (j + k) + d = (j + d) + k
    BY <1>2, <1>3
  <2>2. Same(At(q, (j + k) + d), At(p, j + k))
    BY <1>1, <2>1 DEF Parts
  <2>3. /\ At(p, j + k).fn = g /\ At(p, j + k).at = k
        /\ At(p, j + k).of = StubLen /\ At(p, j + k).text = "program"
    BY DEF StubAt
  <2>4. QED  BY <2>1, <2>2, <2>3 DEF Same
<1>6. ASSUME NEW i \in 0 .. Len(q) - 1, At(q, i).fn = g
      PROVE  i \in j + d .. (j + d) + StubLen - 1
  <2>1. CASE i \in 0 .. n - 1
    <3>1. At(p, i).fn = g /\ i \in 0 .. m - 1
      BY <1>2, <1>6, <2>1 DEF Parts, Same
    <3>2. i \in j .. j + StubLen - 1
      BY <1>1, <3>1 DEF StubAt
    <3>3. QED  BY <1>2, <2>1, <3>2
  <2>2. CASE i - n \in 0 .. l - 1
    <3>1. At(q, n + (i - n)).fn = fn /\ n + (i - n) = i
      <4>1. n + (i - n) = i
        OBVIOUS
      <4>2. At(q, n + (i - n)).fn = fn
        BY <2>2 DEF Parts
      <4>3. QED  BY <4>1, <4>2
    <3>2. QED  BY <1>4, <1>6, <3>1
  <2>3. CASE i - d \in n + StubLen .. Len(p) - 1
    <3>1. PICK o \in Int : o = i - d
      OBVIOUS
    <3>2. o \in n + StubLen .. m - 1 /\ o + d = i /\ o \in 0 .. m - 1
      BY <1>1, <1>2, <2>3, <3>1
    <3>3. At(p, o).fn = g
      BY <1>1, <1>6, <3>2 DEF Parts, Same
    <3>4. o \in j .. j + StubLen - 1
      BY <1>1, <3>2, <3>3 DEF StubAt
    <3>5. QED  BY <1>2, <3>2, <3>4
  <2>4. QED  BY <2>1, <2>2, <2>3 DEF Parts
<1>7. j + d >= 1 /\ (j + d) + StubLen <= Len(q)
  BY <1>2, <1>3
<1>8. QED  BY <1>5, <1>6, <1>7 DEF StubAt

-----------------------------------------------------------------------------
(* The inductive invariant.                                                 *)

Sorted ==
  \A j, k \in DOMAIN funcInfo : j < k => funcInfo[j].off < funcInfo[k].off

\* Nothing was replaced before the filters are prepared.
Untouched ==
  status = "start" =>
    /\ next = 1 /\ offset = 0
    /\ \A i \in 0 .. Len(prog) - 1 : At(prog, i).text = "program"

\* The stubs still to come are where func_info says, moved by offset.
Pending ==
  status \in {"start", "walk"} =>
    \A j \in DOMAIN funcInfo :
      j >= next /\ IsStub(funcInfo[j].fn) =>
        StubAt(prog, funcInfo[j].fn, funcInfo[j].off + offset)

\* A stub's function is still to come, or it is the filter of its kind.
Covered ==
  status # "error" =>
    \A i \in 0 .. Len(prog) - 1 :
      IsStub(At(prog, i).fn) =>
        \/ /\ At(prog, i).text = "program"
           /\ \E j \in DOMAIN funcInfo :
                j >= next /\ funcInfo[j].fn = At(prog, i).fn
        \/ /\ At(prog, i).text = FilterFor(At(prog, i).fn).text
           /\ At(prog, i).of = FilterFor(At(prog, i).fn).len

FiltersReady ==
  status \in {"walk", "ok"} =>
    \A k \in {"l2", "l3"} : filter[k].len >= 1 /\ filter[k].text \in {k, "false"}

Dropped == status = "ok" => funcInfo = <<>>

IInv == /\ TypeOK
        /\ CallsResolved
        /\ BodiesWhole
        /\ Sorted
        /\ Untouched
        /\ Pending
        /\ Covered
        /\ FiltersReady
        /\ Dropped

LEMMA InitIInv == Init => IInv
<1> SUFFICES ASSUME Init PROVE IInv
  OBVIOUS
<1>1. PICK o \in Objects : prog = o.prog /\ funcInfo = o.info
  BY DEF Init
<1>2. WellFormed(o)
  BY <1>1, ObjectsAssumption
<1>3. /\ filter = [k \in {"l2", "l3"} |-> [len |-> 0, text |-> k]]
      /\ next = 1 /\ offset = 0 /\ status = "start"
  BY DEF Init
<1>4. TypeOK
  BY <1>1, <1>2, <1>3 DEF TypeOK, WellFormed, FilterType
<1>5. CallsResolved /\ BodiesWhole /\ Sorted
  BY <1>1, <1>2 DEF CallsResolved, BodiesWhole, Sorted, WellFormed
<1>6. \A i \in 0 .. Len(prog) - 1 :
        At(prog, i).text = "program" /\ i + 1 \in DOMAIN prog
  BY <1>1, <1>2 DEF WellFormed, At
<1>7. Untouched
  BY <1>3, <1>6 DEF Untouched
<1>8. Pending
  <2>1. ASSUME NEW j \in DOMAIN funcInfo, IsStub(funcInfo[j].fn)
        PROVE  StubAt(prog, funcInfo[j].fn, funcInfo[j].off + offset)
    <3>1. StubAt(prog, funcInfo[j].fn, funcInfo[j].off)
      BY <1>1, <1>2, <2>1 DEF WellFormed
    <3>2. funcInfo[j].off \in Nat
      <4>1. funcInfo[j] \in FuncInfoType
        BY <1>4 DEF TypeOK
      <4>2. QED  BY <4>1 DEF FuncInfoType
    <3>3. funcInfo[j].off + offset = funcInfo[j].off
      BY <1>3, <3>2
    <3>4. QED  BY <3>1, <3>3
  <2>2. QED  BY <2>1 DEF Pending
<1>9. Covered
  <2>1. ASSUME NEW i \in 0 .. Len(prog) - 1, IsStub(At(prog, i).fn)
        PROVE  \E j \in DOMAIN funcInfo :
                 j >= next /\ funcInfo[j].fn = At(prog, i).fn
    <3>1. PICK j \in DOMAIN funcInfo : funcInfo[j].fn = At(prog, i).fn
      BY <1>1, <1>2, <1>6, <2>1 DEF WellFormed, At
    <3>2. j >= next
      BY <1>1, <1>2, <1>3 DEF WellFormed
    <3>3. QED  BY <3>1, <3>2
  <2>2. QED  BY <1>6, <2>1 DEF Covered
<1>10. FiltersReady /\ Dropped
  BY <1>3 DEF FiltersReady, Dropped
<1>11. QED  BY <1>4, <1>5, <1>7, <1>8, <1>9, <1>10 DEF IInv

LEMMA PrepareIInv == IInv /\ PrepareFilters => IInv'
<1> SUFFICES ASSUME IInv, PrepareFilters PROVE IInv'
  OBVIOUS
<1> USE DEF IInv
<1>1. PICK n \in [{"l2", "l3"} -> Lens \cup {0}] :
        IF n["l2"] = 0 /\ n["l3"] = 0
        THEN status' = "error" /\ UNCHANGED filter
        ELSE /\ filter' = [k \in {"l2", "l3"} |->
                             IF n[k] = 0 THEN [len |-> 2, text |-> "false"]
                             ELSE [len |-> n[k], text |-> k]]
             /\ status' = "walk"
  BY DEF PrepareFilters
<1>2. /\ status = "start"
      /\ UNCHANGED <<prog, funcInfo, next, offset>>
  BY DEF PrepareFilters
<1>3. \A k \in {"l2", "l3"} : n[k] \in Nat
  <2>1. Lens \cup {0} \subseteq Nat
    BY LensAssumption
  <2>2. \A k \in {"l2", "l3"} : n[k] \in Lens \cup {0}
    OBVIOUS
  <2>3. QED  BY <2>1, <2>2
<1>4. CASE n["l2"] = 0 /\ n["l3"] = 0
  <2>1. status' = "error" /\ filter' = filter
    BY <1>1, <1>4
  <2>2. QED
    BY <1>2, <2>1 DEF TypeOK, CallsResolved, BodiesWhole, Sorted, Untouched,
                      Pending, Covered, FiltersReady, Dropped
<1>5. CASE ~(n["l2"] = 0 /\ n["l3"] = 0)
  <2>1. /\ status' = "walk"
        /\ filter' = [k \in {"l2", "l3"} |->
                       IF n[k] = 0 THEN [len |-> 2, text |-> "false"]
                       ELSE [len |-> n[k], text |-> k]]
    BY <1>1, <1>5
  <2>2. \A k \in {"l2", "l3"} :
          /\ filter'[k] \in [len : Nat, text : {"l2", "l3", "false"}]
          /\ filter'[k].len >= 1 /\ filter'[k].text \in {k, "false"}
    BY <1>3, <2>1
  <2>3. filter' \in FilterType
    BY <2>1, <2>2 DEF FilterType
  <2>4. TypeOK'
    BY <1>2, <2>1, <2>3 DEF TypeOK
  <2>5. CallsResolved' /\ BodiesWhole' /\ Sorted' /\ Untouched' /\ Dropped'
    BY <1>2, <2>1 DEF CallsResolved, BodiesWhole, Sorted, Untouched, Dropped
  <2>6. Pending'
    BY <1>2, <2>1 DEF Pending
  <2>7. FiltersReady'
    BY <2>1, <2>2 DEF FiltersReady
  <2>8. Covered'
    <3>1. ASSUME NEW i \in 0 .. Len(prog) - 1, IsStub(At(prog, i).fn)
          PROVE  /\ At(prog, i).text = "program"
                 /\ \E j \in DOMAIN funcInfo :
                      j >= next /\ funcInfo[j].fn = At(prog, i).fn
      <4>1. At(prog, i).text = "program"
        BY <1>2 DEF Untouched
      <4>2. i + 1 \in DOMAIN prog
        BY DEF TypeOK
      <4>3. Kind[At(prog, i).fn] \in {"l2", "l3"}
        <5>1. At(prog, i).fn \in Functions
          <6>1. prog[i + 1] \in Insn
            BY <4>2 DEF TypeOK
          <6>2. QED  BY <6>1 DEF At, Insn
        <5>2. QED  BY <3>1, <5>1, KindAssumption DEF IsStub
      <4>4. FilterFor(At(prog, i).fn).text # "program"
        BY <4>3 DEF TypeOK, FilterType, FilterFor
      <4>5. QED  BY <1>2, <3>1, <4>1, <4>4 DEF Covered
    <3>2. QED  BY <1>2, <2>1, <3>1 DEF Covered
  <2>9. QED  BY <2>4, <2>5, <2>6, <2>7, <2>8
<1>6. QED  BY <1>4, <1>5

LEMMA SkipIInv == IInv /\ SkipFunction => IInv'
<1> SUFFICES ASSUME IInv, SkipFunction PROVE IInv'
  OBVIOUS
<1> USE DEF IInv
<1>1. /\ status = "walk" /\ next <= Len(funcInfo) /\ ~IsStub(funcInfo[next].fn)
      /\ next' = next + 1
      /\ UNCHANGED <<prog, funcInfo, filter, offset, status>>
  BY DEF SkipFunction, Entry
<1>2. next \in Nat /\ DOMAIN funcInfo = 1 .. Len(funcInfo)
  BY DEF TypeOK
<1>3. TypeOK' /\ CallsResolved' /\ BodiesWhole' /\ Sorted' /\ Untouched'
      /\ FiltersReady' /\ Dropped'
  BY <1>1 DEF TypeOK, CallsResolved, BodiesWhole, Sorted, Untouched,
              FiltersReady, Dropped
<1>4. \A j \in DOMAIN funcInfo : j >= next /\ j # next => j >= next + 1
  BY <1>2
<1>5. \A j \in DOMAIN funcInfo : j >= next + 1 => j >= next
  BY <1>2
<1>6. Pending'
  BY <1>1, <1>5 DEF Pending
<1>7. Covered'
  <2>1. ASSUME NEW i \in 0 .. Len(prog) - 1, IsStub(At(prog, i).fn),
               NEW j \in DOMAIN funcInfo, j >= next,
               funcInfo[j].fn = At(prog, i).fn
        PROVE  j >= next + 1
    BY <1>1, <1>4, <2>1
  <2>2. FilterFor(At(prog, 0).fn)' = FilterFor(At(prog, 0).fn)
        /\ \A fn : FilterFor(fn)' = FilterFor(fn)
    BY <1>1 DEF FilterFor
  <2>3. QED  BY <1>1, <2>1, <2>2 DEF Covered
<1>8. QED  BY <1>3, <1>6, <1>7

LEMMA FinishIInv == IInv /\ Finish => IInv'
<1> SUFFICES ASSUME IInv, Finish PROVE IInv'
  OBVIOUS
<1> USE DEF IInv
<1>1. /\ status = "walk" /\ next > Len(funcInfo)
      /\ funcInfo' = <<>> /\ status' = "ok"
      /\ UNCHANGED <<prog, filter, next, offset>>
  BY DEF Finish
<1>2. next \in Nat /\ DOMAIN funcInfo = 1 .. Len(funcInfo)
  BY DEF TypeOK
<1>3. funcInfo' \in Seq(FuncInfoType) /\ DOMAIN funcInfo' = {}
  BY <1>1
<1>4. TypeOK' /\ CallsResolved' /\ BodiesWhole' /\ Sorted' /\ Untouched'
      /\ Pending' /\ FiltersReady' /\ Dropped'
  BY <1>1, <1>3 DEF TypeOK, CallsResolved, BodiesWhole, Sorted, Untouched,
              Pending, FiltersReady, Dropped
<1>5. Covered'
  <2>1. \A j \in DOMAIN funcInfo : ~(j >= next)
    BY <1>1, <1>2
  <2>2. \A fn : FilterFor(fn)' = FilterFor(fn)
    BY <1>1 DEF FilterFor
  <2>3. \A i \in 0 .. Len(prog) - 1 :
          IsStub(At(prog, i).fn) =>
            /\ At(prog, i).text = FilterFor(At(prog, i).fn).text
            /\ At(prog, i).of = FilterFor(At(prog, i).fn).len
    BY <1>1, <2>1 DEF Covered
  <2>4. QED  BY <1>1, <2>2, <2>3 DEF Covered
<1>6. QED  BY <1>4, <1>5

LEMMA InjectIInv == IInv /\ InjectFilter => IInv'
<1> SUFFICES ASSUME IInv, InjectFilter PROVE IInv'
  OBVIOUS
<1> USE DEF IInv
<1>1. /\ status = "walk" /\ next <= Len(funcInfo) /\ IsStub(funcInfo[next].fn)
      /\ UNCHANGED <<funcInfo, filter>>
  BY DEF InjectFilter, Entry
<1>2. next \in Nat /\ offset \in Int /\ prog \in Seq(Insn)
      /\ funcInfo \in Seq(FuncInfoType) /\ filter \in FilterType
  BY DEF TypeOK
<1> DEFINE fn == funcInfo[next].fn
           n == funcInfo[next].off + offset
           f == FilterFor(fn)
           d == Delta(f)
<1>3. CASE status' = "error" /\ UNCHANGED <<prog, next, offset>>
  <2>1. QED
    BY <1>1, <1>3 DEF TypeOK, CallsResolved, BodiesWhole, Sorted, Untouched,
                      Pending, Covered, FiltersReady, Dropped
<1>4. CASE /\ prog' = Injected(prog, n, f, fn)
           /\ offset' = offset + d
           /\ next' = next + 1
           /\ status' = status
  <2>1. /\ DOMAIN funcInfo = 1 .. Len(funcInfo) /\ next \in DOMAIN funcInfo
        /\ \A j \in DOMAIN funcInfo : funcInfo[j] \in FuncInfoType
    BY <1>1, <1>2 DEF TypeOK
  <2>2. \A j \in DOMAIN funcInfo :
          funcInfo[j].off \in Nat /\ funcInfo[j].fn \in Functions
    BY <2>1 DEF FuncInfoType
  <2>3. StubAt(prog, fn, n)
    BY <1>1, <1>2, <2>1 DEF Pending
  <2>4. n \in Nat /\ n + StubLen <= Len(prog) /\ fn \in Functions
    <3>1. n \in Int
      BY <1>2, <2>1, <2>2
    <3>2. n >= 1 /\ n + StubLen <= Len(prog)
      BY <2>3 DEF StubAt
    <3> HIDE DEF n
    <3>3. n \in Nat
      BY <3>1, <3>2
    <3>4. QED  BY <2>1, <2>2, <3>2, <3>3
  <2>5. f \in FilterRecord /\ f.len \in Nat /\ f.text \in {Kind[fn], "false"}
    <3>1. Kind[fn] \in {"l2", "l3"}
      BY <1>1, <2>4, KindAssumption DEF IsStub
    <3>2. f \in [len : Nat, text : {"l2", "l3", "false"}]
      BY <1>2, <3>1 DEF FilterType, FilterFor
    <3>3. f.len >= 1 /\ f.text \in {Kind[fn], "false"}
      BY <1>1, <3>1 DEF FiltersReady, FilterFor
    <3> HIDE DEF f
    <3>4. QED  BY <3>2, <3>3 DEF FilterRecord
  <2>6. d \in Int
    BY <2>5, StubLenAssumption DEF Delta
  <2> DEFINE l == f.len
  <2>7. prog' \in Seq(Insn) /\ Parts(prog, prog', n, l, d, fn, f.text)
    <3>1. d = Delta(f) /\ l = f.len /\ l \in Nat
      BY <2>5
    <3>2. PICK q \in {prog'} : q = Injected(prog, n, f, fn)
      BY <1>4
    <3> HIDE DEF n, d, f, fn, l
    <3>3. q \in Seq(Insn) /\ Parts(prog, q, n, l, d, fn, f.text)
      BY <1>2, <2>4, <2>5, <2>6, <3>1, <3>2, InjectedParts
    <3>4. QED  BY <3>2, <3>3
  <2>8. l \in Nat
    BY <2>5
  <2> HIDE DEF n, d, f, fn, l
  <2>9. Resolved(prog') /\ Whole(prog')
    BY <1>2, <2>3, <2>4, <2>6, <2>7, <2>8, ResolvedKept, WholeKept
       DEF CallsResolved, BodiesWhole
  <2>10. TypeOK'
    BY <1>1, <1>2, <1>4, <2>6, <2>7 DEF TypeOK
  <2>11. CallsResolved' /\ BodiesWhole' /\ Sorted' /\ Untouched'
         /\ FiltersReady' /\ Dropped'
    BY <1>1, <1>4, <2>9 DEF CallsResolved, BodiesWhole, Sorted, Untouched,
                            FiltersReady, Dropped
  <2>12. Pending'
    <3>1. ASSUME NEW j \in DOMAIN funcInfo, j >= next + 1,
                 IsStub(funcInfo[j].fn)
          PROVE  StubAt(prog', funcInfo[j].fn, funcInfo[j].off + (offset + d))
      <4>1. funcInfo[next].off < funcInfo[j].off
        BY <1>2, <2>1, <3>1 DEF Sorted
      <4>2. PICK k \in Int : k = funcInfo[j].off + offset
        BY <1>2, <2>2
      <4>3. k > n
        BY <1>2, <2>1, <2>2, <4>1, <4>2 DEF n
      <4>4. StubAt(prog, funcInfo[j].fn, k)
        BY <1>1, <1>2, <2>1, <3>1, <4>2 DEF Pending
      <4>5. StubAt(prog', funcInfo[j].fn, k + d)
        BY <1>2, <2>3, <2>4, <2>6, <2>7, <2>8, <4>3, <4>4, StubKept
      <4>6. k + d = funcInfo[j].off + (offset + d)
        BY <1>2, <2>2, <2>6, <4>2
      <4>7. QED  BY <4>5, <4>6
    <3>2. QED  BY <1>1, <1>4, <3>1 DEF Pending
  <2>13. Covered'
    <3>1. \A g : FilterFor(g)' = FilterFor(g)
      BY <1>1 DEF FilterFor
    <3>2. PICK m \in Nat : m = Len(prog)
      BY <1>2
    <3>3. /\ StubLen \in Nat /\ n >= 1 /\ n + StubLen <= m /\ Len(prog') = m + d
          /\ d = l - StubLen
      BY <2>3, <2>7, <3>2, StubLenAssumption DEF StubAt, Parts
    <3>4. ASSUME NEW o \in 0 .. m - 1, o \notin n .. n + StubLen - 1,
                 NEW b, Same(b, At(prog, o)), IsStub(b.fn)
          PROVE  \/ /\ b.text = "program"
                    /\ \E j \in DOMAIN funcInfo :
                         j >= next + 1 /\ funcInfo[j].fn = b.fn
                 \/ /\ b.text = FilterFor(b.fn).text
                    /\ b.of = FilterFor(b.fn).len
      <4>1. b.fn # fn
        BY <2>3, <3>2, <3>4 DEF StubAt, Same
      <4>2. \A j \in DOMAIN funcInfo :
              j >= next /\ funcInfo[j].fn = b.fn => j >= next + 1
        BY <1>2, <2>1, <4>1 DEF fn
      <4>3. \/ /\ At(prog, o).text = "program"
               /\ \E j \in DOMAIN funcInfo :
                    j >= next /\ funcInfo[j].fn = At(prog, o).fn
            \/ /\ At(prog, o).text = FilterFor(At(prog, o).fn).text
               /\ At(prog, o).of = FilterFor(At(prog, o).fn).len
        BY <1>1, <3>2, <3>4 DEF Covered, Same
      <4>4. QED  BY <3>4, <4>2, <4>3 DEF Same
    <3>5. ASSUME NEW i \in 0 .. Len(prog') - 1, IsStub(At(prog', i).fn)
          PROVE  \/ /\ At(prog', i).text = "program"
                    /\ \E j \in DOMAIN funcInfo :
                         j >= next + 1 /\ funcInfo[j].fn = At(prog', i).fn
                 \/ /\ At(prog', i).text = FilterFor(At(prog', i).fn).text
                    /\ At(prog', i).of = FilterFor(At(prog', i).fn).len
      <4>1. CASE i \in 0 .. n - 1
        <5>1. i \in 0 .. m - 1 /\ i \notin n .. n + StubLen - 1
          BY <2>4, <3>3, <4>1
        <5>2. Same(At(prog', i), At(prog, i))
          BY <2>7, <4>1 DEF Parts
        <5>3. QED  BY <3>4, <3>5, <5>1, <5>2
      <4>2. CASE i - n \in 0 .. l - 1
        <5>1. n + (i - n) = i
          BY <2>4
        <5>2. /\ At(prog', n + (i - n)).fn = fn
              /\ At(prog', n + (i - n)).text = f.text
              /\ At(prog', n + (i - n)).of = l
          BY <2>7, <4>2 DEF Parts
        <5>3. f = FilterFor(fn) /\ l = f.len
          BY DEF f, l
        <5>4. QED  BY <5>1, <5>2, <5>3
      <4>3. CASE i - d \in n + StubLen .. Len(prog) - 1
        <5>1. PICK o \in Int : o = i - d
          BY <2>6
        <5>2. o \in n + StubLen .. Len(prog) - 1
          BY <4>3, <5>1
        <5>3. o + d = i
          BY <2>6, <5>1
        <5>4. o \in 0 .. m - 1 /\ o \notin n .. n + StubLen - 1
          BY <2>4, <3>2, <3>3, <5>2
        <5>5. Same(At(prog', i), At(prog, o))
          BY <2>7, <5>2, <5>3 DEF Parts
        <5>6. QED  BY <3>4, <3>5, <5>4, <5>5
      <4>4. QED  BY <2>7, <4>1, <4>2, <4>3 DEF Parts
    <3>6. QED  BY <1>1, <1>4, <3>1, <3>5 DEF Covered
  <2>14. QED  BY <2>10, <2>11, <2>12, <2>13
<1>5. QED
  BY <1>3, <1>4 DEF InjectFilter, Entry, Advance

\* The invariant holds in every state.
THEOREM Invariance == Spec => []IInv
<1>1. IInv /\ [Next]_vars => IInv'
  <2>1. SUFFICES ASSUME IInv, UNCHANGED vars PROVE IInv'
    BY PrepareIInv, SkipIInv, InjectIInv, FinishIInv DEF Next
  <2>2. QED
    BY <2>1 DEF vars, IInv, TypeOK, CallsResolved, BodiesWhole, Sorted,
                Untouched, Pending, Covered, FiltersReady, Dropped, FilterFor
<1>2. QED  BY InitIInv, <1>1, PTL DEF Spec

\* Every state has its type: the injection makes instructions and offsets.
THEOREM TypeCorrect == Spec => []TypeOK
BY Invariance, PTL DEF IInv

\* inject_ebpf_filter breaks no call, for programs and filters of any length.
THEOREM CallsSurvive == Spec => []CallsResolved
BY Invariance, PTL DEF IInv

\* inject_ebpf_filter tears no function apart.
THEOREM BodiesSurvive == Spec => []BodiesWhole
BY Invariance, PTL DEF IInv

\* A program that is loaded holds the filters and no stub.
THEOREM FiltersArrive == Spec => []FiltersInstalled
<1>1. IInv => FiltersInstalled
  <2> SUFFICES ASSUME IInv, status = "ok",
                      NEW i \in DOMAIN prog, IsStub(prog[i].fn)
               PROVE  /\ prog[i].text = FilterFor(prog[i].fn).text
                      /\ prog[i].text \in {Kind[prog[i].fn], "false"}
                      /\ prog[i].of = FilterFor(prog[i].fn).len
    BY DEF FiltersInstalled
  <2>1. prog[i] \in Insn /\ i - 1 \in 0 .. Len(prog) - 1 /\ (i - 1) + 1 = i
    BY DEF IInv, TypeOK
  <2>2. DOMAIN funcInfo = {}
    BY DEF IInv, Dropped
  <2>3. At(prog, i - 1) = prog[i]
    BY <2>1 DEF At
  <2>4. /\ prog[i].text = FilterFor(prog[i].fn).text
        /\ prog[i].of = FilterFor(prog[i].fn).len
    BY <2>1, <2>2, <2>3 DEF IInv, Covered
  <2>5. prog[i].fn \in Functions
    BY <2>1 DEF Insn
  <2>6. Kind[prog[i].fn] \in {"l2", "l3"}
    BY <2>5, KindAssumption DEF IsStub
  <2>7. QED  BY <2>4, <2>6 DEF IInv, FiltersReady, FilterFor
<1>2. QED  BY Invariance, <1>1, PTL
=============================================================================
