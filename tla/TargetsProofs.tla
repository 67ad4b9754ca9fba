--------------------------- MODULE TargetsProofs ---------------------------
(***************************************************************************)
(* Proofs about Targets, for any number of targets, hosts and tags and all *)
(* sizes of buffers and pages: the types, that the ring buffer holds the   *)
(* latest samples in order, that the indices agree with the targets, what  *)
(* the queries and the directories of tags answer, and that a paged        *)
(* listing is complete.                                                    *)
(***************************************************************************)
EXTENDS Targets, Integers, SequenceTheorems, FiniteSetTheorems, TLAPS

\* The parts of the assumption on the constants.
LEMMA Numbers ==
  /\ MaxId \in Nat /\ MaxEvents \in Nat
  /\ ErrLimit \in Nat \ {0} /\ QueueSize \in Nat \ {0} /\ PageLimit \in Nat \ {0}
  BY TargetsAssumption
LEMMA SizesArePositive == \A size \in Sizes : size \in Nat \ {0}
  BY TargetsAssumption
LEMMA NoneIsApart ==
  /\ None \notin TargetRecords /\ None \notin Dispatches /\ None \notin Pages
  /\ None \notin Samples /\ None \notin States /\ None \notin Asked /\ None \notin Ids
  BY TargetsAssumption
LEMMA NoneIsNoSet ==
  /\ \A S \in SUBSET Ids : S # None
  /\ \A S \in SUBSET Hosts : S # None
  BY TargetsAssumption
LEMMA TagsAreSequences == \A tag \in Tags : tag \in Seq(STRING) /\ tag # <<>>
  BY TargetsAssumption
LEMMA NamesDiffer == Name \in [Ids -> STRING] /\ \A i, j \in Ids : Name[i] = Name[j] => i = j
  BY TargetsAssumption
LEMMA ProtocolType ==
  ASSUME NEW h
  PROVE  ProtocolOf(h) \in Protocols
  BY DEF ProtocolOf, Protocols
-----------------------------------------------------------------------------
(* The ring buffer. *)

\* One turn of the ring is all the write index and the readers need.
LEMMA Wrap ==
  ASSUME NEW n \in Nat \ {0}, NEW x \in 0 .. 2 * n - 1
  PROVE  x % n = IF x < n THEN x ELSE x - n
<1>1. ASSUME NEW y \in 0 .. n - 1 PROVE y % n = y /\ (y + n) % n = y
  BY <1>1
<1>2. CASE x < n
  BY <1>1, <1>2
<1>3. CASE x >= n
  <2>1. x - n \in 0 .. n - 1 /\ (x - n) + n = x
    BY <1>3
  <2> QED BY <1>1, <1>3, <2>1
<1> QED BY <1>2, <1>3

\* The slot of the i-th oldest of count samples.
Slot(w, z, c, i) == IF w + z - c + i - 1 < z THEN w + z - c + i - 1 ELSE w - c + i - 1
\* What a target holds, oldest first, is k.
Holds(b, w, z, c, k) ==
  /\ Len(k) = c
  /\ \A i \in 1 .. c : k[i] = b[Slot(w, z, c, i)]
Ring(t, k) == Holds(t.buffer, t.writeIdx, t.size, t.count, k)

LEMMA LastProperties ==
  ASSUME NEW S, NEW s \in Seq(S), NEW n \in Nat
  PROVE  /\ Last(s, n) \in Seq(S)
         /\ Len(Last(s, n)) = IF n >= Len(s) THEN Len(s) ELSE n
         /\ \A i \in 1 .. Len(Last(s, n)) : Last(s, n)[i] = s[Len(s) - Len(Last(s, n)) + i]
<1>0. Len(s) \in Nat
  BY LenProperties
<1>1. CASE n >= Len(s)
  BY <1>0, <1>1 DEF Last
<1>2. CASE n < Len(s)
  <2>1. \A i \in (Len(s) - n + 1) .. Len(s) : s[i] \in S
    BY <1>0, <1>2, ElementOfSeq
  <2>2. Last(s, n) = SubSeq(s, Len(s) - n + 1, Len(s))
    BY <1>0, <1>2 DEF Last
  <2>3. Len(s) - n + 1 \in Int /\ Len(s) \in Int
    BY <1>0
  <2>4. /\ Last(s, n) \in Seq(S)
        /\ Len(Last(s, n)) = IF Len(s) - n + 1 <= Len(s) THEN Len(s) - (Len(s) - n + 1) + 1 ELSE 0
        /\ \A i \in 1 .. Len(s) - (Len(s) - n + 1) + 1 : Last(s, n)[i] = s[(Len(s) - n + 1) + i - 1]
    BY <2>1, <2>2, <2>3, SubSeqProperties
  <2>5. Len(Last(s, n)) = n /\ Len(s) - (Len(s) - n + 1) + 1 = n
    BY <1>0, <1>2, <2>4
  <2>6. \A i \in 1 .. n : (Len(s) - n + 1) + i - 1 = Len(s) - n + i
    BY <1>0
  <2> QED BY <1>2, <1>0, <2>4, <2>5, <2>6
<1> QED BY <1>0, <1>1, <1>2

\* Writing a sample and moving the write index leaves the latest samples.
LEMMA WriteHolds ==
  ASSUME NEW z \in Nat \ {0}, NEW w \in 0 .. z - 1, NEW c \in 0 .. z, NEW s \in Samples,
         NEW b \in [0 .. z - 1 -> Samples \cup {None}], NEW k \in Seq(Samples),
         Holds(b, w, z, c, k)
  PROVE  Holds([b EXCEPT ![w] = s], (w + 1) % z, z, IF c < z THEN c + 1 ELSE c,
               Last(Append(k, s), z))
<1> DEFINE v == IF w + 1 < z THEN w + 1 ELSE 0
<1> DEFINE d == IF c < z THEN c + 1 ELSE c
<1> DEFINE a == [b EXCEPT ![w] = s]
<1> DEFINE j == Append(k, s)
<1>1. (w + 1) % z = v
  <2>1. w + 1 \in 0 .. 2 * z - 1
    OBVIOUS
  <2>2. PICK x \in 0 .. 2 * z - 1 : x = w + 1
    BY <2>1
  <2>3. x % z = IF x < z THEN x ELSE x - z
    BY Wrap
  <2> QED BY <2>2, <2>3
<1>2. /\ j \in Seq(Samples) /\ Len(j) = c + 1
      /\ \A i \in 1 .. c : j[i] = k[i]
      /\ j[c + 1] = s
  BY AppendProperties DEF Holds
<1>3. /\ Len(Last(j, z)) = d
      /\ \A i \in 1 .. d : Last(j, z)[i] = j[c + 1 - d + i]
  BY <1>2, LastProperties
<1>4. ASSUME NEW i \in 1 .. d PROVE j[c + 1 - d + i] = a[Slot(v, z, d, i)]
  <2> DEFINE m == c + 1 - d + i
  <2>1. m \in 1 .. c + 1
    OBVIOUS
  <2>2. CASE m = c + 1
    <3>1. Slot(v, z, d, i) = w
      BY <2>2 DEF Slot
    <3> QED BY <1>2, <2>2, <3>1
  <2>3. CASE m \in 1 .. c
    <3>1. /\ Slot(v, z, d, i) = Slot(w, z, c, m)
          /\ Slot(w, z, c, m) \in 0 .. z - 1
          /\ Slot(w, z, c, m) # w
      BY <2>3 DEF Slot
    <3>2. j[m] = b[Slot(w, z, c, m)]
      BY <1>2, <2>3 DEF Holds
    <3>3. a[Slot(w, z, c, m)] = b[Slot(w, z, c, m)]
      BY <3>1
    <3> QED BY <3>1, <3>2, <3>3
  <2>4. m = c + 1 \/ m \in 1 .. c
    BY <2>1
  <2> QED BY <2>2, <2>3, <2>4, Zenon
<1> QED BY <1>1, <1>3, <1>4 DEF Holds

-----------------------------------------------------------------------------
(* Targets. *)

LEMMA TargetFields ==
  ASSUME NEW t, IsTarget(t)
  PROVE  /\ t # None
         /\ t.size \in Nat \ {0} /\ t.size \in Sizes
         /\ t.writeIdx \in 0 .. t.size - 1 /\ t.count \in 0 .. t.size
         /\ t.buffer \in [0 .. t.size - 1 -> Samples \cup {None}]
         /\ t.state \in States /\ t.host \in Hosts /\ t.errs \in 0 .. ErrLimit
<1>1. t.size \in Sizes /\ t.state \in States /\ t.host \in Hosts /\ t.errs \in 0 .. ErrLimit
  BY DEF IsTarget, TargetRecords
<1>2. t # None
  BY NoneIsApart DEF IsTarget
<1> QED BY <1>1, <1>2, SizesArePositive DEF IsTarget

LEMMA NewTargetOK ==
  ASSUME NEW host \in Hosts, NEW size \in Sizes
  PROVE  /\ IsTarget(NewTarget(host, size))
         /\ Ring(NewTarget(host, size), <<>>)
         /\ NewTarget(host, size).state = "polling" /\ NewTarget(host, size).host = host
<1> DEFINE t == NewTarget(host, size)
<1>1. size \in Nat \ {0} /\ ErrLimit \in Nat
  BY SizesArePositive, Numbers
<1>2. [i \in 0 .. size - 1 |-> None] \in [0 .. size - 1 -> Samples \cup {None}]
  OBVIOUS
<1>3. t \in TargetRecords
  BY <1>1, <1>2 DEF NewTarget, TargetRecords, States
<1>4. t.buffer = [i \in 0 .. size - 1 |-> None] /\ t.size = size /\ t.writeIdx = 0 /\ t.count = 0
  BY DEF NewTarget
<1>5. IsTarget(t)
  BY <1>1, <1>2, <1>3, <1>4 DEF IsTarget
<1>6. Len(<<>>) = 0
  OBVIOUS
<1>7. Ring(t, <<>>)
  BY <1>4, <1>6 DEF Ring, Holds
<1> QED BY <1>5, <1>7 DEF NewTarget

LEMMA WriteSampleOK ==
  ASSUME NEW t, IsTarget(t), NEW k \in Seq(Samples), Ring(t, k), NEW s \in Samples
  PROVE  /\ IsTarget(WriteSample(t, s))
         /\ Ring(WriteSample(t, s), Last(Append(k, s), t.size))
         /\ WriteSample(t, s).host = t.host
<1> DEFINE u == WriteSample(t, s)
<1> DEFINE w == (t.writeIdx + 1) % t.size
<1> DEFINE c == IF t.count < t.size THEN t.count + 1 ELSE t.count
<1> DEFINE b == [t.buffer EXCEPT ![t.writeIdx] = s]
<1> DEFINE e == IF s = "valid" THEN 0 ELSE IF t.errs < ErrLimit THEN t.errs + 1 ELSE t.errs
<1> DEFINE p == IF s = "valid" THEN "polling"
                ELSE IF e >= ErrLimit THEN "unreachable" ELSE t.state
<1> USE TargetFields
<1>1. w \in 0 .. t.size - 1
  <2>1. PICK x \in 0 .. 2 * t.size - 1 : x = t.writeIdx + 1
    OBVIOUS
  <2>2. x % t.size = IF x < t.size THEN x ELSE x - t.size
    BY Wrap
  <2>3. t.writeIdx + 1 \in Nat /\ x \in Nat
    OBVIOUS
  <2>4. x % t.size \in 0 .. t.size - 1
    BY <2>2, <2>3
  <2> QED BY <2>1, <2>4
<1>2. c \in 0 .. t.size
  OBVIOUS
<1>3. b \in [0 .. t.size - 1 -> Samples \cup {None}]
  OBVIOUS
<1>4. e \in 0 .. ErrLimit
  BY Numbers
<1>5. p \in States
  BY DEF States
<1>6. u = [t EXCEPT !.buffer = b, !.writeIdx = w, !.count = c, !.errs = e, !.state = p]
  BY DEF WriteSample
<1> HIDE DEF u, w, c, b, e, p
<1>7. u \in TargetRecords
  <2>1. w \in Nat /\ c \in Nat
    BY <1>1, <1>2
  <2>2. b \in UNION {[0 .. size - 1 -> Samples \cup {None}] : size \in Sizes}
    BY <1>3
  <2>3. t \in TargetRecords
    BY DEF IsTarget
  <2> QED BY <1>4, <1>5, <1>6, <2>1, <2>2, <2>3 DEF TargetRecords
<1>8. u.buffer = b /\ u.writeIdx = w /\ u.count = c /\ u.size = t.size /\ u.host = t.host
  BY <1>6 DEF IsTarget, TargetRecords
<1>9. IsTarget(u)
  BY <1>1, <1>2, <1>3, <1>7, <1>8 DEF IsTarget
<1>10. Holds(b, w, t.size, c, Last(Append(k, s), t.size))
  BY WriteHolds DEF Ring, b, w, c
<1> QED BY <1>8, <1>9, <1>10 DEF Ring, u

\* The parts of ResizeBuffer.
Keep(c, n) == IF c > n THEN n ELSE c
Start(w, z, c, n) == (w + z - c + (c - Keep(c, n))) % z
Copied(b, w, z, c, n) ==
  [i \in 0 .. n - 1 |-> IF i < Keep(c, n) THEN b[(Start(w, z, c, n) + i) % z] ELSE None]

\* Copying the latest samples to the front of a buffer of another size.
LEMMA CopiedOK ==
  ASSUME NEW z \in Nat \ {0}, NEW w \in 0 .. z - 1, NEW c \in 0 .. z, NEW n \in Nat \ {0},
         NEW b \in [0 .. z - 1 -> Samples \cup {None}], NEW k \in Seq(Samples),
         Holds(b, w, z, c, k)
  PROVE  /\ Copied(b, w, z, c, n) \in [0 .. n - 1 -> Samples \cup {None}]
         /\ Keep(c, n) \in 0 .. n /\ Keep(c, n) % n \in 0 .. n - 1
         /\ Holds(Copied(b, w, z, c, n), Keep(c, n) % n, n, Keep(c, n), Last(k, n))
<1>1. PICK keep \in 0 .. n : keep = Keep(c, n) /\ keep <= c
  BY DEF Keep
<1>2. keep % n = IF keep < n THEN keep ELSE 0
  <2>1. PICK x \in 0 .. 2 * n - 1 : x = keep
    OBVIOUS
  <2>2. x % n = IF x < n THEN x ELSE x - n
    BY Wrap
  <2> QED BY <2>1, <2>2
<1>3. Start(w, z, c, n) = IF w < keep THEN w + z - keep ELSE w - keep
  <2>1. PICK x \in 0 .. 2 * z - 1 : x = w + z - c + (c - keep)
    BY <1>1
  <2>2. x % z = IF x < z THEN x ELSE x - z
    BY Wrap
  <2>3. Start(w, z, c, n) = x % z
    BY <1>1, <2>1 DEF Start
  <2>4. (IF x < z THEN x ELSE x - z) = IF w < keep THEN w + z - keep ELSE w - keep
    BY <1>1, <2>1
  <2> QED BY <2>2, <2>3, <2>4
<1>4. PICK start \in 0 .. z - 1 : start = Start(w, z, c, n)
  BY <1>1, <1>3
<1>5. ASSUME NEW i \in 0 .. keep - 1
      PROVE  (start + i) % z = IF start + i < z THEN start + i ELSE start + i - z
  <2>1. PICK x \in 0 .. 2 * z - 1 : x = start + i
    BY <1>1
  <2>2. x % z = IF x < z THEN x ELSE x - z
    BY Wrap
  <2> QED BY <2>1, <2>2
<1>6. PICK a : a = Copied(b, w, z, c, n)
  OBVIOUS
<1>7. a = [i \in 0 .. n - 1 |-> IF i < keep THEN b[(start + i) % z] ELSE None]
  BY <1>1, <1>4, <1>6 DEF Copied
<1>8. \A i \in 0 .. keep - 1 : a[i] = b[IF start + i < z THEN start + i ELSE start + i - z]
  <2> SUFFICES ASSUME NEW i \in 0 .. keep - 1
               PROVE  a[i] = b[IF start + i < z THEN start + i ELSE start + i - z]
    OBVIOUS
  <2>1. a[i] = b[(start + i) % z]
    BY <1>1, <1>7
  <2> QED BY <1>5, <2>1
<1>9. a \in [0 .. n - 1 -> Samples \cup {None}]
  <2>1. ASSUME NEW i \in 0 .. keep - 1
        PROVE  b[(start + i) % z] \in Samples \cup {None}
    <3>1. (IF start + i < z THEN start + i ELSE start + i - z) \in 0 .. z - 1
      BY <1>1, <1>4
    <3>2. (start + i) % z \in 0 .. z - 1
      BY <1>5, <3>1
    <3> QED BY <3>2
  <2>2. ASSUME NEW i \in 0 .. n - 1, i < keep PROVE i \in 0 .. keep - 1
    BY <2>2
  <2> QED BY <1>7, <2>1, <2>2
<1>10. Holds(a, IF keep < n THEN keep ELSE 0, n, keep, Last(k, n))
  <2>1. keep \in Nat /\ keep = IF c > n THEN n ELSE c
    BY <1>1 DEF Keep
  <2>2. start = IF w < keep THEN w + z - keep ELSE w - keep
    BY <1>3, <1>4
  <2> DEFINE v == IF keep < n THEN keep ELSE 0
  <2>3. /\ Last(k, n) \in Seq(Samples)
        /\ Len(Last(k, n)) = keep
        /\ \A i \in 1 .. keep : Last(k, n)[i] = k[c - keep + i]
    <3>1. /\ Last(k, n) \in Seq(Samples)
          /\ Len(Last(k, n)) = IF n >= Len(k) THEN Len(k) ELSE n
          /\ \A i \in 1 .. Len(Last(k, n)) : Last(k, n)[i] = k[Len(k) - Len(Last(k, n)) + i]
      BY LastProperties
    <3>2. Len(Last(k, n)) = keep
      BY <2>1, <3>1 DEF Holds
    <3> QED BY <3>1, <3>2 DEF Holds
  <2>4. ASSUME NEW i \in 1 .. keep
        PROVE  Last(k, n)[i] = a[Slot(v, n, keep, i)]
    <3>1. Slot(v, n, keep, i) = i - 1 /\ i - 1 \in 0 .. keep - 1
      BY <2>1 DEF Slot
    <3>2. PICK h \in 0 .. keep - 1 : h = i - 1
      BY <3>1
    <3>3. a[h] = b[IF start + h < z THEN start + h ELSE start + h - z]
      BY <1>8
    <3>4. (IF start + h < z THEN start + h ELSE start + h - z) = Slot(w, z, c, c - keep + i)
      BY <2>1, <2>2, <3>2 DEF Slot
    <3>5. c - keep + i \in 1 .. c
      BY <2>1
    <3>6. k[c - keep + i] = b[Slot(w, z, c, c - keep + i)]
      BY <3>5 DEF Holds
    <3> QED BY <2>3, <3>1, <3>2, <3>3, <3>4, <3>6
  <2> QED BY <2>3, <2>4 DEF Holds
<1>11. keep % n \in 0 .. n - 1
  BY <1>2
<1> QED BY <1>1, <1>2, <1>6, <1>9, <1>10, <1>11

LEMMA ResizeBufferOK ==
  ASSUME NEW t, IsTarget(t), NEW k \in Seq(Samples), Ring(t, k), NEW size \in Sizes
  PROVE  /\ IsTarget(ResizeBuffer(t, size))
         /\ Ring(ResizeBuffer(t, size), Last(k, size))
         /\ ResizeBuffer(t, size).host = t.host /\ ResizeBuffer(t, size).state = t.state
<1>0. /\ t.size \in Nat \ {0} /\ t.size \in Sizes
      /\ t.writeIdx \in 0 .. t.size - 1 /\ t.count \in 0 .. t.size
      /\ t.buffer \in [0 .. t.size - 1 -> Samples \cup {None}]
      /\ size \in Nat \ {0}
  BY TargetFields, SizesArePositive
<1>1. CASE size = t.size
  <2>1. ResizeBuffer(t, size) = t
    BY <1>1 DEF ResizeBuffer
  <2>2. Last(k, size) = k
    BY <1>0, <1>1 DEF Last, Ring, Holds
  <2> QED BY <2>1, <2>2
<1>2. CASE size # t.size
  <2> DEFINE u == ResizeBuffer(t, size)
  <2> DEFINE keep == Keep(t.count, size)
  <2> DEFINE b == Copied(t.buffer, t.writeIdx, t.size, t.count, size)
  <2> DEFINE v == keep % size
  <2>1. u = [t EXCEPT !.buffer = b, !.size = size, !.count = keep, !.writeIdx = v]
    BY <1>2 DEF ResizeBuffer, Keep, Start, Copied
  <2>2. /\ b \in [0 .. size - 1 -> Samples \cup {None}]
        /\ keep \in 0 .. size /\ v \in 0 .. size - 1
        /\ Holds(b, v, size, keep, Last(k, size))
    BY <1>0, CopiedOK DEF Ring
  <2> HIDE DEF u, keep, b, v
  <2>3. t \in TargetRecords
    BY DEF IsTarget
  <2>4. u \in TargetRecords
    <3>1. keep \in Nat /\ v \in Nat
      BY <2>2
    <3>2. b \in UNION {[0 .. n - 1 -> Samples \cup {None}] : n \in Sizes}
      BY <2>2
    <3> QED BY <2>1, <2>3, <3>1, <3>2 DEF TargetRecords
  <2>5. /\ u.buffer = b /\ u.size = size /\ u.count = keep /\ u.writeIdx = v
        /\ u.host = t.host /\ u.state = t.state
    BY <2>1, <2>3 DEF TargetRecords
  <2>6. IsTarget(u)
    BY <2>2, <2>4, <2>5 DEF IsTarget
  <2> QED BY <2>2, <2>5, <2>6 DEF Ring, u
<1> QED BY <1>1, <1>2

\* Reading n samples reads the last n.
LEMMA ReadLastNIsLast ==
  ASSUME NEW t, IsTarget(t), NEW k \in Seq(Samples), Ring(t, k), NEW n \in Nat
  PROVE  ReadLastN(t, n) = Last(k, n)
<1>1. PICK z \in Nat \ {0} : z = t.size
  BY TargetFields
<1>2. PICK w \in 0 .. z - 1, c \in 0 .. z, b \in [0 .. z - 1 -> Samples \cup {None}] :
        w = t.writeIdx /\ c = t.count /\ b = t.buffer
  BY <1>1, TargetFields
<1>3. Holds(b, w, z, c, k)
  BY <1>1, <1>2 DEF Ring
<1> DEFINE m == IF n > c THEN c ELSE n
<1> DEFINE start == (w + z - m) % z
<1>11. ReadLastN(t, n) = [i \in 1 .. m |-> b[(start + i - 1) % z]]
  BY <1>1, <1>2 DEF ReadLastN
<1>12. m \in 0 .. c /\ Len(k) = c
  BY <1>3 DEF Holds
<1>13. start = IF w < m THEN w + z - m ELSE w - m
  <2>1. w + z - m \in 0 .. 2 * z - 1
    BY <1>12
  <2>2. PICK x \in 0 .. 2 * z - 1 : x = w + z - m
    BY <2>1
  <2>3. x % z = IF x < z THEN x ELSE x - z
    BY Wrap
  <2> QED BY <2>2, <2>3, <1>12
<1>14. /\ Last(k, n) \in Seq(Samples)
      /\ Len(Last(k, n)) = m
      /\ \A i \in 1 .. m : Last(k, n)[i] = k[c - m + i]
  <2>1. /\ Last(k, n) \in Seq(Samples)
        /\ Len(Last(k, n)) = IF n >= Len(k) THEN Len(k) ELSE n
        /\ \A i \in 1 .. Len(Last(k, n)) : Last(k, n)[i] = k[Len(k) - Len(Last(k, n)) + i]
    BY LastProperties
  <2>2. Len(Last(k, n)) = m
    BY <1>12, <2>1
  <2> QED BY <1>12, <2>1, <2>2
<1> HIDE DEF m, start
<1>15. ASSUME NEW i \in 1 .. m PROVE Last(k, n)[i] = b[(start + i - 1) % z]
  <2>1. start + i - 1 \in 0 .. 2 * z - 1
    BY <1>12, <1>13
  <2>4. PICK x \in 0 .. 2 * z - 1 : x = start + i - 1
    BY <2>1
  <2>5. x % z = IF x < z THEN x ELSE x - z
    BY Wrap
  <2>2. (start + i - 1) % z = Slot(w, z, c, c - m + i)
    BY <2>4, <2>5, <1>12, <1>13 DEF Slot
  <2>3. c - m + i \in 1 .. c
    BY <1>12
  <2> QED BY <1>3, <1>14, <2>2, <2>3 DEF Holds
<1>16. Last(k, n) = [i \in 1 .. m |-> Last(k, n)[i]]
  BY <1>14, LenProperties
<1> QED BY <1>11, <1>15, <1>16

-----------------------------------------------------------------------------
(* The targets and their buffers over a step. *)

TargetsOK == DOMAIN target = Ids /\ \A id \in Ids : target[id] # None => IsTarget(target[id])
KeptOK == kept \in [Ids -> Seq(Samples)]
\* Every buffer holds what history says, slot by slot.
RingOK == \A id \in Ids : target[id] # None => Ring(target[id], kept[id])
BuffersOK == TargetsOK /\ KeptOK /\ RingOK

LEMMA TargetChanged ==
  ASSUME BuffersOK, NEW id \in Ids, NEW t, NEW k \in Seq(Samples),
         t # None => IsTarget(t) /\ Ring(t, k),
         target' = [target EXCEPT ![id] = t], kept' = [kept EXCEPT ![id] = k]
  PROVE  BuffersOK'
<1>1. TargetsOK'
  BY DEF BuffersOK, TargetsOK
<1>2. KeptOK'
  BY DEF BuffersOK, KeptOK
<1>3. ASSUME NEW x \in Ids, target'[x] # None PROVE Ring(target'[x], kept'[x])
  <2>1. CASE x = id
    BY <1>3, <2>1 DEF BuffersOK, TargetsOK, KeptOK
  <2>2. CASE x # id
    <3>1. target'[x] = target[x] /\ kept'[x] = kept[x]
      BY <2>2 DEF BuffersOK, TargetsOK, KeptOK
    <3> QED BY <1>3, <3>1 DEF BuffersOK, RingOK
  <2> QED BY <2>1, <2>2
<1> QED BY <1>1, <1>2, <1>3 DEF BuffersOK, RingOK

LEMMA TargetsSame ==
  ASSUME BuffersOK, UNCHANGED <<target, kept>>
  PROVE  BuffersOK'
  BY DEF BuffersOK, TargetsOK, KeptOK, RingOK

LEMMA EmptyHistory == <<>> \in Seq(Samples)
  OBVIOUS

\* The result that is dispatched.
LEMMA HeadOfResults ==
  ASSUME results \in Seq(Ids \X Samples), results # <<>>
  PROVE  /\ Head(results)[1] \in Ids /\ Head(results)[2] \in Samples
         /\ Tail(results) \in Seq(Ids \X Samples) /\ Len(Tail(results)) <= Len(results)
<1>1. /\ Head(results) \in Ids \X Samples
      /\ Tail(results) \in Seq(Ids \X Samples) /\ Len(Tail(results)) = Len(results) - 1
  BY HeadTailProperties
<1>2. Len(results) \in Nat
  BY LenProperties
<1> QED BY <1>1, <1>2

LEMMA BuffersKept ==
  ASSUME BuffersOK, results \in Seq(Ids \X Samples), [Next]_vars
  PROVE  BuffersOK'
<1>1. ASSUME NEW id \in Ids, Change(id) PROVE BuffersOK'
  <2>1. ASSUME NEW host \in Hosts, NEW size \in Sizes, NEW tags \in SUBSET Tags,
               CreateTarget(id, host, size, tags)
        PROVE  BuffersOK'
    BY <2>1, NewTargetOK, EmptyHistory, TargetChanged DEF CreateTarget
  <2>2. CASE DeleteTarget(id)
    BY <2>2, EmptyHistory, TargetChanged DEF DeleteTarget
  <2>3. ASSUME NEW add, NEW remove, NEW set, UpdateTags(id, add, remove, set) PROVE BuffersOK'
    BY <2>3, TargetsSame DEF UpdateTags
  <2>4. ASSUME NEW size \in Sizes, Resize(id, size) PROVE BuffersOK'
    <3>1. /\ target[id] # None /\ IsTarget(target[id]) /\ Ring(target[id], kept[id])
          /\ kept[id] \in Seq(Samples)
      BY <2>4 DEF Resize, BuffersOK, TargetsOK, KeptOK, RingOK
    <3>2. /\ target' = [target EXCEPT ![id] = ResizeBuffer(target[id], size)]
          /\ kept' = [kept EXCEPT ![id] = Last(kept[id], size)]
      BY <2>4 DEF Resize
    <3>3. Last(kept[id], size) \in Seq(Samples)
      BY <3>1, SizesArePositive, LastProperties
    <3>4. IsTarget(ResizeBuffer(target[id], size)) /\ Ring(ResizeBuffer(target[id], size), Last(kept[id], size))
      BY <3>1, ResizeBufferOK
    <3> QED BY <3>2, <3>3, <3>4, TargetChanged
  <2> QED BY <1>1, <2>1, <2>2, <2>3, <2>4 DEF Change
<1>2. ASSUME NEW id \in Ids, Poll(id) PROVE BuffersOK'
  BY <1>2, TargetsSame DEF Poll, StartPoll, FinishPoll
<1>3. CASE DispatchWrite
  <2> DEFINE id == Head(results)[1]
  <2> DEFINE s == Head(results)[2]
  <2>1. id \in Ids /\ s \in Samples
    BY <1>3, HeadOfResults DEF DispatchWrite
  <2>2. CASE target[id] = None
    BY <1>3, <2>2, TargetsSame DEF DispatchWrite
  <2>3. CASE target[id] # None
    <3>1. /\ IsTarget(target[id]) /\ Ring(target[id], kept[id])
          /\ kept[id] \in Seq(Samples)
      BY <2>1, <2>3 DEF BuffersOK, TargetsOK, KeptOK, RingOK
    <3>2. /\ target' = [target EXCEPT ![id] = WriteSample(target[id], s)]
          /\ kept' = [kept EXCEPT ![id] = Last(Append(kept[id], s), target[id].size)]
      BY <1>3, <2>3 DEF DispatchWrite
    <3> HIDE DEF id, s
    <3>3. Append(kept[id], s) \in Seq(Samples)
      BY <2>1, <3>1, AppendProperties
    <3>4. target[id].size \in Nat
      BY <3>1, TargetFields
    <3>5. Last(Append(kept[id], s), target[id].size) \in Seq(Samples)
      BY <3>3, <3>4, LastProperties
    <3>6. /\ IsTarget(WriteSample(target[id], s))
          /\ Ring(WriteSample(target[id], s), Last(Append(kept[id], s), target[id].size))
      BY <2>1, <3>1, WriteSampleOK
    <3> QED BY <2>1, <3>2, <3>5, <3>6, TargetChanged
  <2> QED BY <2>2, <2>3
<1>4. CASE DispatchIndex
  BY <1>4, TargetsSame DEF DispatchIndex
<1>5. CASE Listing
  BY <1>5, TargetsSame DEF Listing, StartListing, NextPage
<1>6. CASE UNCHANGED vars
  BY <1>6, TargetsSame DEF vars
<1> QED BY <1>1, <1>2, <1>3, <1>4, <1>5, <1>6 DEF Next, Dispatcher

-----------------------------------------------------------------------------
(* The types of the rest of the state over a step. *)

IndexTypes ==
  /\ byState \in [States -> SUBSET Ids] /\ byProtocol \in [Protocols -> SUBSET Ids]
  /\ byHost \in [Hosts -> SUBSET Ids]
  /\ tagToTargets \in [Indexed -> SUBSET Ids] /\ targetToTags \in [Ids -> SUBSET Tags]
QueueTypes ==
  /\ polling \subseteq Ids
  /\ results \in Seq(Ids \X Samples) /\ Len(results) <= QueueSize
  /\ events \in 0 .. MaxEvents
\* A target under dispatch is not deleted: dispatchSample holds the lock.
DispatchOK ==
  /\ dispatch \in Dispatches \cup {None}
  /\ dispatch # None => target[dispatch.id] # None
PageType == page \in Pages \cup {None}

LEMMA TypeOKParts ==
  ASSUME BuffersOK, IndexTypes, QueueTypes, DispatchOK, PageType
  PROVE  TypeOK
  BY DEF TypeOK, BuffersOK, TargetsOK, KeptOK, IndexTypes, QueueTypes, DispatchOK, PageType

LEMMA EventOK ==
  ASSUME QueueTypes, Event
  PROVE  events' \in 0 .. MaxEvents
  BY Numbers DEF QueueTypes, Event

LEMMA QueueKept ==
  ASSUME QueueTypes, [Next]_vars
  PROVE  QueueTypes'
<1>1. ASSUME NEW id \in Ids, Change(id) PROVE QueueTypes'
  <2>1. Event /\ UNCHANGED <<polling, results>>
    BY <1>1 DEF Change, CreateTarget, DeleteTarget, UpdateTags, Resize
  <2> QED BY <2>1, EventOK DEF QueueTypes
<1>2. ASSUME NEW id \in Ids, StartPoll(id) PROVE QueueTypes'
  BY <1>2, EventOK DEF QueueTypes, StartPoll
<1>3. ASSUME NEW id \in Ids, NEW s \in Samples, FinishPoll(id, s) PROVE QueueTypes'
  <2>1. <<id, s>> \in Ids \X Samples
    OBVIOUS
  <2>2. /\ Append(results, <<id, s>>) \in Seq(Ids \X Samples)
        /\ Len(Append(results, <<id, s>>)) = Len(results) + 1
    BY <2>1, AppendProperties DEF QueueTypes
  <2>3. Len(results) \in Nat /\ Len(results) < QueueSize /\ QueueSize \in Nat
    BY <1>3, LenProperties, Numbers DEF FinishPoll, QueueTypes
  <2>4. Len(results) + 1 <= QueueSize
    BY <2>3
  <2> QED BY <1>3, <2>2, <2>4 DEF QueueTypes, FinishPoll
<1>4. CASE DispatchWrite
  <2>1. Tail(results) \in Seq(Ids \X Samples) /\ Len(Tail(results)) <= Len(results)
    BY <1>4, HeadOfResults DEF DispatchWrite, QueueTypes
  <2>2. Len(results) \in Nat /\ Len(Tail(results)) \in Nat /\ QueueSize \in Nat
    BY <2>1, LenProperties, Numbers DEF QueueTypes
  <2>3. Len(Tail(results)) <= QueueSize
    BY <2>1, <2>2 DEF QueueTypes
  <2> QED BY <1>4, <2>1, <2>3 DEF DispatchWrite, QueueTypes
<1>5. CASE StartListing
  BY <1>5, EventOK DEF StartListing, QueueTypes
<1>6. CASE DispatchIndex \/ NextPage \/ UNCHANGED vars
  BY <1>6 DEF DispatchIndex, NextPage, vars, QueueTypes
<1> QED BY <1>1, <1>2, <1>3, <1>4, <1>5, <1>6 DEF Next, Dispatcher, Listing, Poll

LEMMA DispatchKept ==
  ASSUME BuffersOK, DispatchOK, results \in Seq(Ids \X Samples), [Next]_vars
  PROVE  DispatchOK'
<1>1. ASSUME NEW id \in Ids, Change(id) PROVE DispatchOK'
  <2>1. CASE dispatch = None
    BY <1>1, <2>1 DEF Change, CreateTarget, DeleteTarget, UpdateTags, Resize, DispatchOK
  <2>2. CASE dispatch # None
    <3>1. dispatch \in Dispatches /\ dispatch.id \in Ids /\ dispatch' = dispatch
      BY <1>1, <2>2 DEF Change, CreateTarget, DeleteTarget, UpdateTags, Resize, DispatchOK, Dispatches
    <3>2. target[dispatch.id] # None
      BY <2>2 DEF DispatchOK
    <3>3. CASE \E size \in Sizes : Resize(id, size)
      <4>1. PICK size \in Sizes : Resize(id, size)
        BY <3>3
      <4>2. target[id] # None /\ target' = [target EXCEPT ![id] = ResizeBuffer(target[id], size)]
        BY <4>1 DEF Resize
      <4>3. IsTarget(target[id]) /\ Ring(target[id], kept[id]) /\ kept[id] \in Seq(Samples)
        BY <4>2 DEF BuffersOK, TargetsOK, RingOK, KeptOK
      <4>4. ResizeBuffer(target[id], size) # None
        BY <4>3, ResizeBufferOK, TargetFields
      <4>5. target'[dispatch.id] # None
        BY <3>1, <3>2, <4>2, <4>4 DEF BuffersOK, TargetsOK
      <4> QED BY <3>1, <4>5 DEF DispatchOK
    <3>4. CASE UNCHANGED target
      BY <3>1, <3>2, <3>4 DEF DispatchOK
    <3> QED BY <1>1, <2>2, <3>3, <3>4 DEF Change, CreateTarget, DeleteTarget, UpdateTags, MayLock
  <2> QED BY <2>1, <2>2
<1>2. CASE DispatchWrite
  <2> DEFINE id == Head(results)[1]
  <2> DEFINE s == Head(results)[2]
  <2>1. id \in Ids /\ s \in Samples
    BY <1>2, HeadOfResults DEF DispatchWrite
  <2>2. CASE target[id] = None
    BY <1>2, <2>2 DEF DispatchWrite, DispatchOK
  <2>3. CASE target[id] # None
    <3>1. /\ dispatch' = [id |-> id, old |-> target[id].state]
          /\ target' = [target EXCEPT ![id] = WriteSample(target[id], s)]
      BY <1>2, <2>3 DEF DispatchWrite
    <3> HIDE DEF id, s
    <3>2. IsTarget(target[id]) /\ Ring(target[id], kept[id]) /\ kept[id] \in Seq(Samples)
      BY <2>1, <2>3 DEF BuffersOK, TargetsOK, RingOK, KeptOK
    <3>3. WriteSample(target[id], s) # None /\ target[id].state \in States
      BY <2>1, <3>2, WriteSampleOK, TargetFields
    <3>4. dispatch' \in Dispatches /\ dispatch'.id = id
      BY <2>1, <3>1, <3>3 DEF Dispatches
    <3>5. target'[id] # None
      BY <2>1, <3>1, <3>3 DEF BuffersOK, TargetsOK
    <3> QED BY <3>4, <3>5 DEF DispatchOK
  <2> QED BY <2>2, <2>3
<1>3. CASE DispatchIndex
  BY <1>3 DEF DispatchIndex, DispatchOK
<1>4. ASSUME NEW id \in Ids, Poll(id) PROVE DispatchOK'
  BY <1>4 DEF Poll, StartPoll, FinishPoll, DispatchOK
<1>5. CASE Listing \/ UNCHANGED vars
  BY <1>5 DEF Listing, StartListing, NextPage, vars, DispatchOK
<1> QED BY <1>1, <1>2, <1>3, <1>4, <1>5 DEF Next, Dispatcher

-----------------------------------------------------------------------------
(* The tags over a step. *)

TagTypes == tagToTargets \in [Indexed -> SUBSET Ids] /\ targetToTags \in [Ids -> SUBSET Tags]
\* TagsAgree, one id and one prefix at a time.
Tagged(id, p) == \E tag \in targetToTags[id] : p \in Prefixes[tag]
PrefixesOK == \A p \in Indexed, id \in Ids : id \in tagToTargets[p] <=> Tagged(id, p)
UntaggedOK == \A id \in Ids : target[id] = None => targetToTags[id] = {}
TagsOK == TagTypes /\ PrefixesOK /\ UntaggedOK

LEMMA TagsAgreeParts ==
  ASSUME TagTypes
  PROVE  TagsAgree <=> PrefixesOK /\ UntaggedOK
<1>1. \A p \in Indexed : tagToTargets[p] \subseteq Ids
  BY DEF TagTypes
<1>2. (\A p \in Indexed : tagToTargets[p] = {id \in Ids : Tagged(id, p)}) <=> PrefixesOK
  BY <1>1 DEF PrefixesOK
<1>3. (\A id \in Ids \ Present : targetToTags[id] = {}) <=> UntaggedOK
  BY DEF UntaggedOK, Present
<1> QED BY <1>2, <1>3 DEF TagsAgree, Tagged

LEMMA SetTagsOK ==
  ASSUME TagTypes, PrefixesOK, NEW id \in Ids, NEW new \in SUBSET Tags, SetTags(id, new)
  PROVE  /\ TagTypes' /\ PrefixesOK'
         /\ targetToTags'[id] = new
         /\ \A x \in Ids \ {id} : targetToTags'[x] = targetToTags[x]
<1> DEFINE removed == RemoveTags(tagToTargets, id, targetToTags[id])
<1>1. /\ targetToTags' = [targetToTags EXCEPT ![id] = new]
      /\ tagToTargets' = AddTags(removed, id, new)
  BY DEF SetTags, Retagged
<1>2. /\ removed \in [Indexed -> SUBSET Ids]
      /\ \A p \in Indexed :
           removed[p] = IF Tagged(id, p) THEN tagToTargets[p] \ {id} ELSE tagToTargets[p]
  BY DEF RemoveTags, TagTypes, Tagged
<1> HIDE DEF removed
<1>3. /\ tagToTargets' \in [Indexed -> SUBSET Ids]
      /\ \A p \in Indexed :
           tagToTargets'[p] = IF \E tag \in new : p \in Prefixes[tag] THEN removed[p] \cup {id}
                              ELSE removed[p]
  BY <1>1, <1>2 DEF AddTags
<1>4. /\ targetToTags' \in [Ids -> SUBSET Tags] /\ targetToTags'[id] = new
      /\ \A x \in Ids \ {id} : targetToTags'[x] = targetToTags[x]
  BY <1>1 DEF TagTypes
<1>5. ASSUME NEW p \in Indexed, NEW x \in Ids
      PROVE  x \in tagToTargets'[p] <=> Tagged(x, p)'
  <2>1. CASE x = id
    <3>1. Tagged(id, p)' <=> \E tag \in new : p \in Prefixes[tag]
      BY <1>4 DEF Tagged
    <3>2. id \notin removed[p]
      BY <1>2 DEF PrefixesOK
    <3> QED BY <2>1, <1>3, <3>1, <3>2
  <2>2. CASE x # id
    <3>1. Tagged(x, p)' <=> Tagged(x, p)
      BY <1>4, <2>2 DEF Tagged
    <3>2. x \in tagToTargets'[p] <=> x \in tagToTargets[p]
      BY <1>2, <1>3, <2>2
    <3> QED BY <3>1, <3>2 DEF PrefixesOK
  <2> QED BY <2>1, <2>2
<1> QED BY <1>3, <1>4, <1>5 DEF TagTypes, PrefixesOK

LEMMA TagsSame ==
  ASSUME TagsOK, UNCHANGED <<tagToTargets, targetToTags>>,
         \A id \in Ids : target'[id] = None => target[id] = None
  PROVE  TagsOK'
  BY DEF TagsOK, TagTypes, PrefixesOK, UntaggedOK, Tagged

LEMMA TagsSet ==
  ASSUME TagsOK, NEW id \in Ids, NEW new \in SUBSET Tags, SetTags(id, new),
         target'[id] = None => new = {},
         \A x \in Ids \ {id} : target'[x] = target[x]
  PROVE  TagsOK'
<1>1. /\ TagTypes' /\ PrefixesOK'
      /\ targetToTags'[id] = new
      /\ \A x \in Ids \ {id} : targetToTags'[x] = targetToTags[x]
  BY SetTagsOK DEF TagsOK
<1>2. UntaggedOK'
  BY <1>1 DEF TagsOK, UntaggedOK
<1> QED BY <1>1, <1>2 DEF TagsOK

LEMMA TagsKept ==
  ASSUME BuffersOK, BuffersOK', TagsOK, results \in Seq(Ids \X Samples), [Next]_vars
  PROVE  TagsOK'
<1>1. ASSUME NEW id \in Ids, NEW host \in Hosts, NEW size \in Sizes, NEW tags \in SUBSET Tags,
             CreateTarget(id, host, size, tags)
      PROVE  TagsOK'
  <2>1. SetTags(id, tags) /\ target' = [target EXCEPT ![id] = NewTarget(host, size)]
    BY <1>1 DEF CreateTarget, IndexAdd
  <2>2. NewTarget(host, size) # None
    BY NewTargetOK, TargetFields
  <2>3. target'[id] # None /\ \A x \in Ids \ {id} : target'[x] = target[x]
    BY <2>1, <2>2 DEF BuffersOK, TargetsOK
  <2> QED BY <2>1, <2>3, TagsSet
<1>2. ASSUME NEW id \in Ids, DeleteTarget(id) PROVE TagsOK'
  <2>1. SetTags(id, {}) /\ target' = [target EXCEPT ![id] = None]
    BY <1>2 DEF DeleteTarget, IndexRemove
  <2>2. \A x \in Ids \ {id} : target'[x] = target[x]
    BY <2>1 DEF BuffersOK, TargetsOK
  <2> QED BY <2>1, <2>2, TagsSet
<1>3. ASSUME NEW id \in Ids, NEW add \in SUBSET Tags, NEW remove, NEW set \in SUBSET Tags,
             UpdateTags(id, add, remove, set)
      PROVE  TagsOK'
  <2>1. NewTags(targetToTags[id], add, remove, set) \in SUBSET Tags
    BY DEF NewTags, TagsOK, TagTypes
  <2>2. /\ SetTags(id, NewTags(targetToTags[id], add, remove, set))
        /\ target' = target /\ target[id] # None
    BY <1>3 DEF UpdateTags
  <2> QED BY <2>1, <2>2, TagsSet
<1>4. ASSUME NEW id \in Ids, NEW size \in Sizes, Resize(id, size) PROVE TagsOK'
  <2>1. target[id] # None /\ target' = [target EXCEPT ![id] = ResizeBuffer(target[id], size)]
    BY <1>4 DEF Resize
  <2>2. \A x \in Ids : target'[x] = None => target[x] = None
    <3>1. IsTarget(target[id]) /\ Ring(target[id], kept[id]) /\ kept[id] \in Seq(Samples)
      BY <2>1 DEF BuffersOK, TargetsOK, RingOK, KeptOK
    <3>2. ResizeBuffer(target[id], size) # None
      BY <3>1, ResizeBufferOK, TargetFields
    <3> QED BY <2>1, <3>2 DEF BuffersOK, TargetsOK
  <2> QED BY <1>4, <2>2, TagsSame DEF Resize, indices
<1>5. ASSUME NEW id \in Ids, Poll(id) PROVE TagsOK'
  BY <1>5, TagsSame DEF Poll, StartPoll, FinishPoll, indices
<1>6. CASE DispatchWrite
  <2> DEFINE id == Head(results)[1]
  <2> DEFINE s == Head(results)[2]
  <2>1. id \in Ids /\ s \in Samples
    BY <1>6, HeadOfResults DEF DispatchWrite
  <2>2. UNCHANGED <<tagToTargets, targetToTags>>
    BY <1>6 DEF DispatchWrite, indices
  <2>3. CASE target[id] = None
    BY <1>6, <2>2, <2>3, TagsSame DEF DispatchWrite
  <2>4. CASE target[id] # None
    <3>1. target' = [target EXCEPT ![id] = WriteSample(target[id], s)]
      BY <1>6, <2>4 DEF DispatchWrite
    <3> HIDE DEF id, s
    <3>2. IsTarget(target[id]) /\ Ring(target[id], kept[id]) /\ kept[id] \in Seq(Samples)
      BY <2>1, <2>4 DEF BuffersOK, TargetsOK, RingOK, KeptOK
    <3>3. WriteSample(target[id], s) # None
      BY <2>1, <3>2, WriteSampleOK, TargetFields
    <3>4. \A x \in Ids : target'[x] = None => target[x] = None
      BY <3>1, <3>3, <2>1 DEF BuffersOK, TargetsOK
    <3> QED BY <2>2, <3>4, TagsSame
  <2> QED BY <2>3, <2>4
<1>7. CASE DispatchIndex \/ Listing \/ UNCHANGED vars
  BY <1>7, TagsSame DEF DispatchIndex, Listing, StartListing, NextPage, indices, vars
<1>8. ASSUME NEW id \in Ids, Change(id) PROVE TagsOK'
  BY <1>8, <1>1, <1>2, <1>3, <1>4 DEF Change
<1> QED BY <1>5, <1>6, <1>7, <1>8 DEF Next, Dispatcher

-----------------------------------------------------------------------------
(* The indices of states, protocols and hosts over a step. *)

PlaceTypes ==
  /\ byState \in [States -> SUBSET Ids] /\ byProtocol \in [Protocols -> SUBSET Ids]
  /\ byHost \in [Hosts -> SUBSET Ids]
\* IndicesAgree, one id and one key at a time.
StatesOK ==
  \A s \in States, id \in Ids : id \in byState[s] <=> target[id] # None /\ IndexedState(id) = s
HostsOK ==
  \A h \in Hosts, id \in Ids : id \in byHost[h] <=> target[id] # None /\ target[id].host = h
ProtocolsOK ==
  \A p \in Protocols, id \in Ids :
    id \in byProtocol[p] <=> target[id] # None /\ ProtocolOf(target[id].host) = p
PlacesOK == PlaceTypes /\ StatesOK /\ ProtocolsOK /\ HostsOK

LEMMA IndicesAgreeParts ==
  ASSUME PlaceTypes
  PROVE  IndicesAgree <=> StatesOK /\ ProtocolsOK /\ HostsOK
<1>1. /\ \A s \in States : byState[s] \subseteq Ids
      /\ \A p \in Protocols : byProtocol[p] \subseteq Ids
      /\ \A h \in Hosts : byHost[h] \subseteq Ids
  BY DEF PlaceTypes
<1>2. (\A s \in States : byState[s] = {id \in Present : IndexedState(id) = s}) <=> StatesOK
  BY <1>1 DEF StatesOK, Present
<1>3. (\A h \in Hosts : byHost[h] = {id \in Present : target[id].host = h}) <=> HostsOK
  BY <1>1 DEF HostsOK, Present
<1>4. (\A p \in Protocols : byProtocol[p] = {id \in Present : ProtocolOf(target[id].host) = p})
      <=> ProtocolsOK
  BY <1>1 DEF ProtocolsOK, Present
<1> QED BY <1>2, <1>3, <1>4 DEF IndicesAgree

\* A step that changes neither index, nor where a target is to be found.
LEMMA PlacesSame ==
  ASSUME PlacesOK, UNCHANGED <<byState, byProtocol, byHost>>,
         \A id \in Ids :
           /\ target'[id] = None <=> target[id] = None
           /\ target[id] # None => target'[id].host = target[id].host /\ IndexedState(id)' = IndexedState(id)
  PROVE  PlacesOK'
<1>1. PlaceTypes'
  BY DEF PlacesOK, PlaceTypes
<1>2. StatesOK'
  BY DEF PlacesOK, StatesOK
<1>3. HostsOK'
  BY DEF PlacesOK, HostsOK
<1>4. ProtocolsOK'
  BY DEF PlacesOK, ProtocolsOK
<1> QED BY <1>1, <1>2, <1>3, <1>4 DEF PlacesOK

LEMMA PlacesUntouched ==
  ASSUME PlacesOK, UNCHANGED <<byState, byProtocol, byHost, target, dispatch>>
  PROVE  PlacesOK'
  BY DEF PlacesOK, PlaceTypes, StatesOK, ProtocolsOK, HostsOK, IndexedState

LEMMA CreatePlaces ==
  ASSUME TargetsOK, PlacesOK, NEW id \in Ids, NEW host \in Hosts, NEW size \in Sizes, NEW tags,
         CreateTarget(id, host, size, tags)
  PROVE  PlacesOK'
<1> DEFINE t == NewTarget(host, size)
<1>1. /\ dispatch = None /\ dispatch' = None /\ target[id] = None
      /\ target' = [target EXCEPT ![id] = t]
      /\ byState' = [byState EXCEPT !["polling"] = byState["polling"] \cup {id}]
      /\ byProtocol' = [byProtocol EXCEPT ![ProtocolOf(host)] = byProtocol[ProtocolOf(host)] \cup {id}]
      /\ byHost' = [byHost EXCEPT ![host] = byHost[host] \cup {id}]
  BY DEF CreateTarget, IndexAdd, With, MayLock
<1>2. t # None /\ t.state = "polling" /\ t.host = host
  BY NewTargetOK, TargetFields
<1> HIDE DEF t
<1>3. target'[id] = t /\ \A x \in Ids \ {id} : target'[x] = target[x]
  BY <1>1 DEF TargetsOK
<1>4. \A x \in Ids : IndexedState(x) = target[x].state /\ IndexedState(x)' = target'[x].state
  BY <1>1 DEF IndexedState
<1>5. "polling" \in States
  BY DEF States
<1>6. PlaceTypes'
  BY <1>1, <1>5, ProtocolType DEF PlacesOK, PlaceTypes
<1>7. ASSUME NEW s \in States, NEW x \in Ids
      PROVE  x \in byState'[s] <=> target'[x] # None /\ IndexedState(x)' = s
  <2>1. byState'[s] = IF s = "polling" THEN byState[s] \cup {id} ELSE byState[s]
    BY <1>1, <1>5 DEF PlacesOK, PlaceTypes
  <2>2. x \in byState[s] <=> target[x] # None /\ target[x].state = s
    BY <1>4 DEF PlacesOK, StatesOK
  <2> QED BY <1>1, <1>2, <1>3, <1>4, <2>1, <2>2
<1>8. ASSUME NEW h \in Hosts, NEW x \in Ids
      PROVE  x \in byHost'[h] <=> target'[x] # None /\ target'[x].host = h
  <2>1. byHost'[h] = IF h = host THEN byHost[h] \cup {id} ELSE byHost[h]
    BY <1>1 DEF PlacesOK, PlaceTypes
  <2>2. x \in byHost[h] <=> target[x] # None /\ target[x].host = h
    BY DEF PlacesOK, HostsOK
  <2> QED BY <1>1, <1>2, <1>3, <2>1, <2>2
<1>9. ASSUME NEW p \in Protocols, NEW x \in Ids
      PROVE  x \in byProtocol'[p] <=> target'[x] # None /\ ProtocolOf(target'[x].host) = p
  <2>1. byProtocol'[p] = IF p = ProtocolOf(host) THEN byProtocol[p] \cup {id} ELSE byProtocol[p]
    BY <1>1, ProtocolType DEF PlacesOK, PlaceTypes
  <2>2. x \in byProtocol[p] <=> target[x] # None /\ ProtocolOf(target[x].host) = p
    BY DEF PlacesOK, ProtocolsOK
  <2> QED BY <1>1, <1>2, <1>3, <2>1, <2>2
<1> QED BY <1>6, <1>7, <1>8, <1>9 DEF PlacesOK, StatesOK, ProtocolsOK, HostsOK

LEMMA DeletePlaces ==
  ASSUME TargetsOK, PlacesOK, NEW id \in Ids, DeleteTarget(id)
  PROVE  PlacesOK'
<1> DEFINE old == target[id].state
<1> DEFINE host == target[id].host
<1> DEFINE protocol == ProtocolOf(host)
<1>1. /\ dispatch = None /\ dispatch' = None /\ target[id] # None
      /\ target' = [target EXCEPT ![id] = None]
      /\ byState' = [byState EXCEPT ![old] = byState[old] \ {id}]
      /\ byProtocol' = [byProtocol EXCEPT ![protocol] = byProtocol[protocol] \ {id}]
      /\ byHost' = [byHost EXCEPT ![host] = byHost[host] \ {id}]
  BY DEF DeleteTarget, IndexRemove, MayLock
<1>2. old \in States /\ host \in Hosts /\ protocol \in Protocols
  BY <1>1, TargetFields, ProtocolType DEF TargetsOK
<1>3. target'[id] = None /\ \A x \in Ids \ {id} : target'[x] = target[x]
  BY <1>1 DEF TargetsOK
<1>4. \A x \in Ids : IndexedState(x) = target[x].state /\ IndexedState(x)' = target'[x].state
  BY <1>1 DEF IndexedState
<1> HIDE DEF old, host, protocol
<1>5. PlaceTypes'
  BY <1>1, <1>2 DEF PlacesOK, PlaceTypes
<1>6. ASSUME NEW s \in States, NEW x \in Ids
      PROVE  x \in byState'[s] <=> target'[x] # None /\ IndexedState(x)' = s
  <2>1. byState'[s] = IF s = old THEN byState[s] \ {id} ELSE byState[s]
    BY <1>1, <1>2 DEF PlacesOK, PlaceTypes
  <2>2. x \in byState[s] <=> target[x] # None /\ target[x].state = s
    BY <1>4 DEF PlacesOK, StatesOK
  <2> QED BY <1>3, <1>4, <2>1, <2>2 DEF old
<1>7. ASSUME NEW h \in Hosts, NEW x \in Ids
      PROVE  x \in byHost'[h] <=> target'[x] # None /\ target'[x].host = h
  <2>1. byHost'[h] = IF h = host THEN byHost[h] \ {id} ELSE byHost[h]
    BY <1>1, <1>2 DEF PlacesOK, PlaceTypes
  <2>2. x \in byHost[h] <=> target[x] # None /\ target[x].host = h
    BY DEF PlacesOK, HostsOK
  <2> QED BY <1>3, <2>1, <2>2 DEF host
<1>8. ASSUME NEW p \in Protocols, NEW x \in Ids
      PROVE  x \in byProtocol'[p] <=> target'[x] # None /\ ProtocolOf(target'[x].host) = p
  <2>1. byProtocol'[p] = IF p = protocol THEN byProtocol[p] \ {id} ELSE byProtocol[p]
    BY <1>1, <1>2 DEF PlacesOK, PlaceTypes
  <2>2. x \in byProtocol[p] <=> target[x] # None /\ ProtocolOf(target[x].host) = p
    BY DEF PlacesOK, ProtocolsOK
  <2> QED BY <1>3, <2>1, <2>2 DEF protocol, host
<1> QED BY <1>5, <1>6, <1>7, <1>8 DEF PlacesOK, StatesOK, ProtocolsOK, HostsOK

\* dispatchSample, first half: the state may change, the place in the index does not.
LEMMA WritePlaces ==
  ASSUME BuffersOK, PlacesOK, results \in Seq(Ids \X Samples), DispatchWrite
  PROVE  PlacesOK'
<1> DEFINE id == Head(results)[1]
<1> DEFINE s == Head(results)[2]
<1>1. id \in Ids /\ s \in Samples
  BY HeadOfResults DEF DispatchWrite
<1>2. UNCHANGED <<byState, byProtocol, byHost>> /\ dispatch = None
  BY DEF DispatchWrite, indices
<1>3. CASE target[id] = None
  BY <1>2, <1>3, PlacesUntouched DEF DispatchWrite
<1>4. CASE target[id] # None
  <2>1. /\ dispatch' = [id |-> id, old |-> target[id].state]
        /\ target' = [target EXCEPT ![id] = WriteSample(target[id], s)]
    BY <1>4 DEF DispatchWrite
  <2> HIDE DEF id, s
  <2>2. IsTarget(target[id]) /\ Ring(target[id], kept[id]) /\ kept[id] \in Seq(Samples)
    BY <1>1, <1>4 DEF BuffersOK, TargetsOK, RingOK, KeptOK
  <2>3. WriteSample(target[id], s) # None /\ WriteSample(target[id], s).host = target[id].host
    BY <1>1, <2>2, WriteSampleOK, TargetFields
  <2>4. target'[id] = WriteSample(target[id], s) /\ \A x \in Ids \ {id} : target'[x] = target[x]
    BY <1>1, <2>1 DEF BuffersOK, TargetsOK
  <2>5. dispatch' # None /\ dispatch'.id = id /\ dispatch'.old = target[id].state
    <3>1. [id |-> id, old |-> target[id].state] \in Dispatches
      BY <1>1, <2>2, TargetFields DEF Dispatches
    <3> QED BY <2>1, <3>1, NoneIsApart
  <2>6. \A x \in Ids : IndexedState(x)' = IndexedState(x)
    BY <1>2, <2>4, <2>5 DEF IndexedState
  <2> QED BY <1>2, <1>4, <2>3, <2>4, <2>6, PlacesSame
<1> QED BY <1>3, <1>4

\* dispatchSample, second half: the index follows.
LEMMA IndexPlaces ==
  ASSUME BuffersOK, DispatchOK, PlacesOK, DispatchIndex
  PROVE  PlacesOK'
<1> DEFINE id == dispatch.id
<1> DEFINE old == dispatch.old
<1> DEFINE new == target[id].state
<1>1. /\ dispatch # None /\ dispatch \in Dispatches /\ id \in Ids /\ old \in States
      /\ target[id] # None /\ UNCHANGED <<target, byProtocol, byHost>> /\ dispatch' = None
  BY DEF DispatchIndex, DispatchOK, Dispatches
<1>2. new \in States
  BY <1>1, TargetFields DEF BuffersOK, TargetsOK
<1>3. \A x \in Ids : /\ IndexedState(x) = IF x = id THEN old ELSE target[x].state
                     /\ IndexedState(x)' = target[x].state
  BY <1>1 DEF IndexedState
<1>4. CASE old = new
  BY <1>1, <1>3, <1>4, PlacesSame DEF DispatchIndex
<1>5. CASE old # new
  <2>1. byState' = With([byState EXCEPT ![old] = byState[old] \ {id}], new, id)
    BY <1>5 DEF DispatchIndex, UpdateState
  <2> HIDE DEF id, old
  <2>2. /\ byState' \in [States -> SUBSET Ids]
        /\ \A s \in States : byState'[s] = IF s = new THEN byState[s] \cup {id}
                                           ELSE IF s = old THEN byState[s] \ {id} ELSE byState[s]
    BY <1>1, <1>2, <1>5, <2>1 DEF With, PlacesOK, PlaceTypes
  <2>3. PlaceTypes'
    BY <1>1, <2>2 DEF PlacesOK, PlaceTypes
  <2>4. ASSUME NEW s \in States, NEW x \in Ids
        PROVE  x \in byState'[s] <=> target'[x] # None /\ IndexedState(x)' = s
    <3>1. x \in byState[s] <=> target[x] # None /\ IndexedState(x) = s
      BY DEF PlacesOK, StatesOK
    <3> QED BY <1>1, <1>3, <1>5, <2>2, <3>1
  <2>5. HostsOK' /\ ProtocolsOK'
    BY <1>1 DEF PlacesOK, HostsOK, ProtocolsOK
  <2> QED BY <2>3, <2>4, <2>5 DEF PlacesOK, StatesOK
<1> QED BY <1>4, <1>5

LEMMA PlacesKept ==
  ASSUME BuffersOK, DispatchOK, PlacesOK, results \in Seq(Ids \X Samples), [Next]_vars
  PROVE  PlacesOK'
<1>1. ASSUME NEW id \in Ids, NEW size \in Sizes, Resize(id, size) PROVE PlacesOK'
  <2>1. /\ target[id] # None /\ target' = [target EXCEPT ![id] = ResizeBuffer(target[id], size)]
        /\ UNCHANGED <<byState, byProtocol, byHost, dispatch>>
    BY <1>1 DEF Resize, indices
  <2>2. IsTarget(target[id]) /\ Ring(target[id], kept[id]) /\ kept[id] \in Seq(Samples)
    BY <2>1 DEF BuffersOK, TargetsOK, RingOK, KeptOK
  <2>3. /\ ResizeBuffer(target[id], size) # None
        /\ ResizeBuffer(target[id], size).host = target[id].host
        /\ ResizeBuffer(target[id], size).state = target[id].state
    BY <2>2, ResizeBufferOK, TargetFields
  <2>4. target'[id] = ResizeBuffer(target[id], size) /\ \A x \in Ids \ {id} : target'[x] = target[x]
    BY <2>1 DEF BuffersOK, TargetsOK
  <2>5. \A x \in Ids : IndexedState(x)' = IndexedState(x)
    BY <2>1, <2>3, <2>4 DEF IndexedState
  <2> QED BY <2>1, <2>3, <2>4, <2>5, PlacesSame
<1>2. ASSUME NEW id \in Ids, NEW add, NEW remove, NEW set, UpdateTags(id, add, remove, set)
      PROVE  PlacesOK'
  BY <1>2, PlacesUntouched DEF UpdateTags
<1>3. ASSUME NEW id \in Ids, Change(id) PROVE PlacesOK'
  <2>1. TargetsOK
    BY DEF BuffersOK
  <2> QED BY <1>1, <1>2, <1>3, <2>1, CreatePlaces, DeletePlaces DEF Change
<1>4. ASSUME NEW id \in Ids, Poll(id) PROVE PlacesOK'
  BY <1>4, PlacesUntouched DEF Poll, StartPoll, FinishPoll, indices
<1>5. CASE Listing \/ UNCHANGED vars
  BY <1>5, PlacesUntouched DEF Listing, StartListing, NextPage, indices, vars
<1> QED BY <1>3, <1>4, <1>5, WritePlaces, IndexPlaces DEF Next, Dispatcher

-----------------------------------------------------------------------------
(* The listing over a step. *)

\* Up to the cursor the client has seen all that stayed, and nothing beyond it.
PageOK ==
  page # None =>
    /\ page \in Pages
    /\ ~page.twice
    /\ page.stable \subseteq Present
    /\ ~page.done => /\ page.seen \subseteq 1 .. page.cursor
                     /\ page.stable \cap (1 .. page.cursor) \subseteq page.seen
    /\ page.done => page.stable \subseteq page.seen

\* Every set of natural numbers that is not empty has a least element.
LEMMA NatMin ==
  ASSUME NEW S \in SUBSET Nat, S # {}
  PROVE  \E x \in S : \A y \in S : x <= y
<1>1. PICK x \in S : \A y \in S : ~ (<<y, x>> \in OpToRel(<,Nat))
  BY NatLessThanWellFounded, WFMin
<1>2. OpToRel(<,Nat) = {ss \in Nat \X Nat : ss[1] < ss[2]}
  BY DEF OpToRel
<1>3. ASSUME NEW y \in S PROVE x <= y
  <2>1. ~(<<y, x>> \in {ss \in Nat \X Nat : ss[1] < ss[2]})
    BY <1>1, <1>2
  <2>2. x \in Nat /\ y \in Nat
    OBVIOUS
  <2>3. ~(y < x)
    BY <2>1, <2>2
  <2> QED BY <2>2, <2>3
<1> QED BY <1>3

\* And a bounded one has a greatest element.
LEMMA NatMax ==
  ASSUME NEW n \in Nat, NEW S \in SUBSET (1 .. n), S # {}
  PROVE  \E x \in S : \A y \in S : y <= x
<1> DEFINE T == {y \in Nat : \A x \in S : x <= y}
<1>1. T \in SUBSET Nat /\ n \in T
  OBVIOUS
<1>2. PICK m \in T : \A y \in T : m <= y
  BY <1>1, NatMin
<1>3. ASSUME m \notin S PROVE FALSE
  <2>1. \A x \in S : x \in Nat /\ x <= m /\ x # m
    BY <1>3, <1>2
  <2>2. PICK x \in S : TRUE
    OBVIOUS
  <2>3. m \in Nat /\ m # 0
    BY <1>2, <2>1, <2>2
  <2>4. m - 1 \in Nat /\ \A y \in S : y <= m - 1
    BY <2>1, <2>3
  <2>5. m - 1 \in T
    BY <2>4
  <2>6. m <= m - 1
    BY <1>2, <2>5
  <2> QED BY <2>3, <2>6
<1> QED BY <1>2, <1>3

\* The first page of a set: nothing when there is nothing, and no gap before the last.
LEMMA FirstPageOK ==
  ASSUME NEW S \in SUBSET Ids
  PROVE  /\ FirstPage(S) \subseteq S
         /\ S # {} => FirstPage(S) # {}
         /\ \A i \in S, j \in FirstPage(S) : i <= j => i \in FirstPage(S)
<1>0. /\ MaxId \in Nat /\ PageLimit \in Nat \ {0}
      /\ \A i \in Ids : i \in Nat /\ i \in 1 .. MaxId
  BY Numbers DEF Ids
<1>1. FirstPage(S) \subseteq S
  BY DEF FirstPage
<1>2. ASSUME S # {} PROVE FirstPage(S) # {}
  <2>1. S \in SUBSET Nat
    BY <1>0
  <2>2. PICK m \in S : \A y \in S : m <= y
    BY <1>2, <2>1, NatMin
  <2>3. {i \in S : i < m} = {}
    <3>1. ASSUME NEW i \in S PROVE ~(i < m)
      <4>1. i \in Nat /\ m \in Nat /\ m <= i
        BY <2>1, <2>2
      <4> QED BY <4>1
    <3> QED BY <3>1
  <2>4. Cardinality({i \in S : i < m}) < PageLimit
    BY <1>0, <2>3, FS_EmptySet
  <2> QED BY <2>4 DEF FirstPage
<1>3. ASSUME NEW i \in S, NEW j \in FirstPage(S), i <= j PROVE i \in FirstPage(S)
  <2> DEFINE A == {x \in S : x < i}
  <2> DEFINE B == {x \in S : x < j}
  <2>1. j \in S /\ Cardinality(B) < PageLimit
    BY DEF FirstPage
  <2>2. \A x \in S : x \in Nat
    BY <1>0
  <2>3. A \in SUBSET B
    BY <1>3, <2>1, <2>2
  <2>4. IsFiniteSet(Ids)
    BY <1>0, FS_Interval DEF Ids
  <2>5. IsFiniteSet(B)
    BY <2>4, FS_Subset
  <2>6. IsFiniteSet(A) /\ Cardinality(A) <= Cardinality(B)
    BY <2>3, <2>5, FS_Subset
  <2>7. Cardinality(A) \in Nat /\ Cardinality(B) \in Nat
    BY <2>5, <2>6, FS_CardinalityType
  <2>8. Cardinality(A) < PageLimit
    BY <1>0, <2>1, <2>6, <2>7
  <2> QED BY <2>8 DEF FirstPage
<1> QED BY <1>1, <1>2, <1>3

\* A step that leaves the listing alone and deletes no target.
LEMMA PageSame ==
  ASSUME PageOK, UNCHANGED page, Present \subseteq Present'
  PROVE  PageOK'
  BY DEF PageOK

LEMMA NextPageOK ==
  ASSUME PageOK, UNCHANGED target, NextPage
  PROVE  PageOK'
<1> DEFINE after == After(page.cursor)
<1> DEFINE shown == FirstPage(after)
<1> DEFINE more == shown # after
<1> DEFINE last == CHOOSE i \in shown : \A j \in shown : j <= i
<1> DEFINE seen == page.seen \cup shown
<1> DEFINE twice == page.twice \/ (shown \cap page.seen # {})
<1> DEFINE cursor == IF more THEN last ELSE page.cursor
<1> DEFINE done == ~more
<1>1. /\ page \in Pages /\ ~page.twice /\ ~page.done
      /\ page.stable \subseteq Present
      /\ page.seen \subseteq 1 .. page.cursor
      /\ page.stable \cap (1 .. page.cursor) \subseteq page.seen
  BY DEF PageOK, NextPage
<1>2. page' = [page EXCEPT !.seen = seen, !.twice = twice, !.cursor = cursor, !.done = done]
  BY DEF NextPage
<1>3. /\ page.cursor \in 0 .. MaxId /\ page.seen \in SUBSET Ids /\ page.stable \in SUBSET Ids
      /\ MaxId \in Nat
  BY <1>1, Numbers DEF Pages
<1>4. /\ after \in SUBSET Ids /\ after \subseteq Present
      /\ \A i \in Ids : i \in after <=> i \in Present /\ i > page.cursor
  BY DEF After, Present
<1>5. /\ shown \subseteq after
      /\ after # {} => shown # {}
      /\ \A i \in after, j \in shown : i <= j => i \in shown
  BY <1>4, FirstPageOK
<1> HIDE DEF after, shown
<1>6. ASSUME more PROVE last \in shown /\ \A j \in shown : j <= last
  <2>1. shown # {} /\ shown \in SUBSET (1 .. MaxId)
    BY <1>4, <1>5, <1>6 DEF Ids
  <2>2. \E i \in shown : \A j \in shown : j <= i
    BY <1>3, <2>1, NatMax
  <2> QED BY <2>2
<1> HIDE DEF last
<1>7. cursor \in 0 .. MaxId /\ seen \in SUBSET Ids /\ twice \in BOOLEAN /\ done \in BOOLEAN
  <2>1. ASSUME more PROVE last \in 0 .. MaxId
    BY <1>3, <1>4, <1>5, <1>6, <2>1 DEF Ids
  <2>2. cursor \in 0 .. MaxId
    BY <1>3, <2>1
  <2>3. seen \in SUBSET Ids
    BY <1>3, <1>4, <1>5
  <2> QED BY <2>2, <2>3
<1>8. ~twice
  <2>1. ASSUME NEW i \in shown PROVE i \notin page.seen
    <3>1. i \in Ids /\ i > page.cursor
      BY <1>4, <1>5
    <3>2. i \in Nat
      BY <3>1 DEF Ids
    <3> QED BY <1>1, <1>3, <3>1, <3>2
  <2> QED BY <1>1, <2>1
<1>9. ASSUME more
      PROVE  seen \subseteq 1 .. last /\ page.stable \cap (1 .. last) \subseteq seen
  <2>1. last \in Nat /\ last > page.cursor /\ last \in shown
    <3>1. last \in shown
      BY <1>6, <1>9
    <3>2. last \in Ids /\ last > page.cursor
      BY <1>4, <1>5, <3>1
    <3>3. last \in Nat
      BY <3>2 DEF Ids
    <3> QED BY <3>1, <3>2, <3>3
  <2>2. ASSUME NEW i \in seen PROVE i \in 1 .. last
    <3>1. CASE i \in page.seen
      BY <1>1, <1>3, <2>1, <3>1
    <3>2. CASE i \in shown
      <4>1. i \in 1 .. MaxId /\ i <= last
        BY <1>4, <1>5, <1>6, <1>9, <3>2 DEF Ids
      <4> QED BY <2>1, <4>1
    <3> QED BY <3>1, <3>2
  <2>3. ASSUME NEW i \in page.stable, i \in 1 .. last PROVE i \in seen
    <3>1. CASE i <= page.cursor
      <4>1. i \in 1 .. page.cursor
        BY <1>3, <2>1, <2>3, <3>1
      <4> QED BY <1>1, <4>1
    <3>2. CASE i > page.cursor
      <4>1. i \in after
        BY <1>1, <1>3, <1>4, <3>2
      <4>2. i <= last
        BY <2>1, <2>3
      <4> QED BY <1>5, <2>1, <4>1, <4>2
    <3>3. i \in Nat
      BY <2>1, <2>3
    <3> QED BY <1>3, <3>1, <3>2, <3>3
  <2> QED BY <2>2, <2>3
<1>10. ASSUME ~more PROVE page.stable \subseteq seen
  <2>1. ASSUME NEW i \in page.stable PROVE i \in seen
    <3>1. i \in Ids /\ i \in 1 .. MaxId
      BY <1>3 DEF Ids
    <3>2. CASE i <= page.cursor
      <4>1. i \in 1 .. page.cursor
        BY <1>3, <3>1, <3>2
      <4> QED BY <1>1, <4>1
    <3>3. CASE i > page.cursor
      BY <1>1, <1>4, <1>10, <3>1, <3>3
    <3> QED BY <1>3, <3>1, <3>2, <3>3
  <2> QED BY <2>1
<1>11. cursor = IF more THEN last ELSE page.cursor
  OBVIOUS
<1>12. done <=> ~more
  OBVIOUS
<1> HIDE DEF seen, twice, cursor, done, more
<1>13. page' \in Pages
  BY <1>1, <1>2, <1>7 DEF Pages
<1>14. /\ page'.seen = seen /\ page'.twice = twice /\ page'.cursor = cursor /\ page'.done = done
       /\ page'.stable = page.stable
  BY <1>1, <1>2 DEF Pages
<1>15. Present' = Present
  BY DEF Present
<1> QED BY <1>1, <1>8, <1>9, <1>10, <1>11, <1>12, <1>13, <1>14, <1>15 DEF PageOK

LEMMA PageKept ==
  ASSUME BuffersOK, PageOK, results \in Seq(Ids \X Samples), [Next]_vars
  PROVE  PageOK'
<1>1. ASSUME NEW id \in Ids, NEW host \in Hosts, NEW size \in Sizes, NEW tags,
             CreateTarget(id, host, size, tags)
      PROVE  PageOK'
  <2>1. UNCHANGED page /\ target' = [target EXCEPT ![id] = NewTarget(host, size)]
    BY <1>1 DEF CreateTarget
  <2>2. NewTarget(host, size) # None
    BY NewTargetOK, TargetFields
  <2>3. Present \subseteq Present'
    BY <2>1, <2>2 DEF Present, BuffersOK, TargetsOK
  <2> QED BY <2>1, <2>3, PageSame
<1>2. ASSUME NEW id \in Ids, DeleteTarget(id) PROVE PageOK'
  <2>1. page' = Unstable(id) /\ target' = [target EXCEPT ![id] = None]
    BY <1>2 DEF DeleteTarget
  <2>2. Present' = Present \ {id}
    BY <2>1 DEF Present, BuffersOK, TargetsOK
  <2>3. CASE page = None
    BY <2>1, <2>3 DEF Unstable, PageOK
  <2>4. CASE page # None
    <3> DEFINE stable == page.stable \ {id}
    <3>1. page' = [page EXCEPT !.stable = stable] /\ page \in Pages
      BY <2>1, <2>4 DEF Unstable, PageOK
    <3>2. stable \in SUBSET Ids /\ stable \subseteq page.stable
      BY <3>1 DEF Pages
    <3>3. stable \subseteq Present'
      BY <2>2, <2>4 DEF PageOK
    <3> HIDE DEF stable
    <3>4. /\ page' \in Pages
          /\ page'.stable = stable /\ page'.seen = page.seen /\ page'.cursor = page.cursor
          /\ page'.done = page.done /\ page'.twice = page.twice
      BY <3>1, <3>2 DEF Pages
    <3> QED BY <2>4, <3>2, <3>3, <3>4 DEF PageOK
  <2> QED BY <2>3, <2>4
<1>3. ASSUME NEW id \in Ids, NEW add, NEW remove, NEW set, UpdateTags(id, add, remove, set)
      PROVE  PageOK'
  BY <1>3, PageSame DEF UpdateTags, Present
<1>4. ASSUME NEW id \in Ids, NEW size \in Sizes, Resize(id, size) PROVE PageOK'
  <2>1. /\ target[id] # None /\ target' = [target EXCEPT ![id] = ResizeBuffer(target[id], size)]
        /\ UNCHANGED page
    BY <1>4 DEF Resize
  <2>2. IsTarget(target[id]) /\ Ring(target[id], kept[id]) /\ kept[id] \in Seq(Samples)
    BY <2>1 DEF BuffersOK, TargetsOK, RingOK, KeptOK
  <2>3. ResizeBuffer(target[id], size) # None
    BY <2>2, ResizeBufferOK, TargetFields
  <2>4. Present \subseteq Present'
    BY <2>1, <2>3 DEF Present, BuffersOK, TargetsOK
  <2> QED BY <2>1, <2>4, PageSame
<1>5. CASE DispatchWrite
  <2> DEFINE id == Head(results)[1]
  <2> DEFINE s == Head(results)[2]
  <2>1. id \in Ids /\ s \in Samples /\ UNCHANGED page
    BY <1>5, HeadOfResults DEF DispatchWrite
  <2>2. CASE target[id] = None
    BY <1>5, <2>2, PageSame DEF DispatchWrite, Present
  <2>3. CASE target[id] # None
    <3>1. target' = [target EXCEPT ![id] = WriteSample(target[id], s)]
      BY <1>5, <2>3 DEF DispatchWrite
    <3> HIDE DEF id, s
    <3>2. IsTarget(target[id]) /\ Ring(target[id], kept[id]) /\ kept[id] \in Seq(Samples)
      BY <2>1, <2>3 DEF BuffersOK, TargetsOK, RingOK, KeptOK
    <3>3. WriteSample(target[id], s) # None
      BY <2>1, <3>2, WriteSampleOK, TargetFields
    <3>4. Present \subseteq Present'
      BY <3>1, <3>3 DEF Present, BuffersOK, TargetsOK
    <3> QED BY <2>1, <3>4, PageSame
  <2> QED BY <2>2, <2>3
<1>6. CASE StartListing
  <2>1. /\ page' = [cursor |-> 0, seen |-> {}, stable |-> Present, twice |-> FALSE, done |-> FALSE]
        /\ Present' = Present
    BY <1>6 DEF StartListing, Present
  <2>2. PICK zero \in 0 .. MaxId : zero = 0
    BY Numbers
  <2>3. Present \in SUBSET Ids
    BY DEF Present
  <2>4. page' \in Pages
    BY <2>1, <2>2, <2>3 DEF Pages
  <2>5. page'.seen = {} /\ page'.cursor = 0 /\ page'.stable = Present /\ ~page'.twice /\ ~page'.done
    BY <2>1
  <2>6. 1 .. page'.cursor = {}
    BY <2>5
  <2> QED BY <2>1, <2>4, <2>5, <2>6 DEF PageOK
<1>7. CASE NextPage
  BY <1>7, NextPageOK DEF NextPage
<1>8. ASSUME NEW id \in Ids, Poll(id) PROVE PageOK'
  BY <1>8, PageSame DEF Poll, StartPoll, FinishPoll, Present
<1>9. CASE DispatchIndex \/ UNCHANGED vars
  BY <1>9, PageSame DEF DispatchIndex, Present, vars
<1>10. ASSUME NEW id \in Ids, Change(id) PROVE PageOK'
  BY <1>10, <1>1, <1>2, <1>3, <1>4 DEF Change
<1> QED BY <1>5, <1>6, <1>7, <1>8, <1>9, <1>10 DEF Next, Dispatcher, Listing
-----------------------------------------------------------------------------
(* The inductive invariant. *)

IInv == BuffersOK /\ QueueTypes /\ DispatchOK /\ TagsOK /\ PlacesOK /\ PageOK

LEMMA InitHolds ==
  ASSUME Init
  PROVE  IInv
<1>1. PICK ids \in {{}, Ids}, host \in Hosts, size \in Sizes, tags \in {{}, Tags} :
        /\ target = [id \in Ids |-> IF id \in ids THEN NewTarget(host, size) ELSE None]
        /\ byState = [s \in States |-> IF s = "polling" THEN ids ELSE {}]
        /\ byProtocol = [p \in Protocols |-> IF p = ProtocolOf(host) THEN ids ELSE {}]
        /\ byHost = [h \in Hosts |-> IF h = host THEN ids ELSE {}]
        /\ targetToTags = [id \in Ids |-> IF id \in ids THEN tags ELSE {}]
        /\ tagToTargets = [p \in Indexed |-> IF \E tag \in tags : p \in Prefixes[tag] THEN ids ELSE {}]
  BY DEF Init
<1>2. /\ polling = {} /\ results = <<>> /\ dispatch = None /\ page = None
      /\ kept = [id \in Ids |-> <<>>]
      /\ events = 0
  BY DEF Init
<1>3. PICK t : t = NewTarget(host, size)
  OBVIOUS
<1>4. /\ IsTarget(t) /\ t # None /\ Ring(t, <<>>) /\ t.state = "polling" /\ t.host = host
  BY <1>3, NewTargetOK, TargetFields
<1>5. DOMAIN target = Ids /\ \A id \in Ids : target[id] = IF id \in ids THEN t ELSE None
  BY <1>1, <1>3
<1>6. BuffersOK
  <2>1. TargetsOK
    BY <1>4, <1>5 DEF TargetsOK
  <2>2. KeptOK /\ \A id \in Ids : kept[id] = <<>>
    BY <1>2, EmptyHistory DEF KeptOK
  <2>3. RingOK
    BY <1>4, <1>5, <2>2 DEF RingOK
  <2> QED BY <2>1, <2>2, <2>3 DEF BuffersOK
<1>7. QueueTypes
  <2>1. Len(<<>>) = 0 /\ <<>> \in Seq(Ids \X Samples)
    OBVIOUS
  <2> QED BY <1>2, <2>1, Numbers DEF QueueTypes
<1>8. DispatchOK
  BY <1>2 DEF DispatchOK
<1>9. TagsOK
  <2>1. TagTypes
    BY <1>1 DEF TagTypes
  <2>2. PrefixesOK
    BY <1>1 DEF PrefixesOK, Tagged
  <2>3. UntaggedOK
    BY <1>1, <1>4, <1>5 DEF UntaggedOK
  <2> QED BY <2>1, <2>2, <2>3 DEF TagsOK
<1>10. PlacesOK
  <2>1. PlaceTypes
    BY <1>1 DEF PlaceTypes
  <2>2. \A id \in Ids : IndexedState(id) = target[id].state
    BY <1>2 DEF IndexedState
  <2>3. StatesOK
    BY <1>1, <1>4, <1>5, <2>2 DEF StatesOK
  <2>4. HostsOK
    BY <1>1, <1>4, <1>5 DEF HostsOK
  <2>5. ProtocolsOK
    BY <1>1, <1>4, <1>5 DEF ProtocolsOK
  <2> QED BY <2>1, <2>3, <2>4, <2>5 DEF PlacesOK
<1>11. PageOK
  BY <1>2 DEF PageOK
<1> QED BY <1>6, <1>7, <1>8, <1>9, <1>10, <1>11 DEF IInv

LEMMA StepKeeps ==
  ASSUME IInv, [Next]_vars
  PROVE  IInv'
<1>1. BuffersOK /\ QueueTypes /\ DispatchOK /\ TagsOK /\ PlacesOK /\ PageOK
  BY DEF IInv
<1>2. results \in Seq(Ids \X Samples)
  BY <1>1 DEF QueueTypes
<1>3. BuffersOK'
  BY <1>1, <1>2, BuffersKept
<1>4. QueueTypes'
  BY <1>1, QueueKept
<1>5. DispatchOK'
  BY <1>1, <1>2, DispatchKept
<1>6. TagsOK'
  BY <1>1, <1>2, <1>3, TagsKept
<1>7. PlacesOK'
  BY <1>1, <1>2, PlacesKept
<1>8. PageOK'
  BY <1>1, <1>2, PageKept
<1> QED BY <1>3, <1>4, <1>5, <1>6, <1>7, <1>8 DEF IInv

LEMMA Inductive == Spec => []IInv
<1>1. Init => IInv
  BY InitHolds
<1>2. IInv /\ [Next]_vars => IInv'
  BY StepKeeps
<1> QED BY <1>1, <1>2, PTL DEF Spec

\* The types of the state, the lengths of the channel and of the ring buffers included,
\* hold for every number of targets and every size.
THEOREM TypeCorrect == Spec => []TypeOK
<1>1. IInv => TypeOK
  <2> SUFFICES ASSUME IInv PROVE TypeOK
    OBVIOUS
  <2>1. BuffersOK /\ QueueTypes /\ DispatchOK
    BY DEF IInv
  <2>2. IndexTypes
    BY DEF IInv, TagsOK, TagTypes, PlacesOK, PlaceTypes, IndexTypes
  <2>3. PageType
    BY DEF IInv, PageOK, PageType
  <2> QED BY <2>1, <2>2, <2>3, TypeOKParts
<1> QED BY <1>1, Inductive, PTL

\* The secondary indices of indices.go have every target under exactly its state, its
\* protocol and its host, between the two halves of dispatchSample under the state it had.
THEOREM IndicesAgreeHolds == Spec => []IndicesAgree
<1>1. IInv => IndicesAgree
  BY IndicesAgreeParts DEF IInv, PlacesOK
<1> QED BY <1>1, Inductive, PTL

\* The index of tagindex.go has every target under exactly its tags and their prefixes,
\* for every set of tags, and nothing of a target that is gone.
THEOREM TagsAgreeHolds == Spec => []TagsAgree
<1>1. IInv => TagsAgree
  BY TagsAgreeParts DEF IInv, TagsOK
<1> QED BY <1>1, Inductive, PTL

\* browseTargetHistory returns the last samples that were written, oldest first, whatever
\* the size of the ring buffer is and however often it was changed or has wrapped around.
THEOREM RingKeepsLatestHolds == Spec => []RingKeepsLatest
<1>1. IInv => RingKeepsLatest
  <2> SUFFICES ASSUME IInv, NEW id \in Present, NEW n \in 0 .. target[id].size + 1
               PROVE  History(target[id], n) = Last(kept[id], HistoryLimit(n))
    BY DEF RingKeepsLatest
  <2>1. /\ IsTarget(target[id]) /\ Ring(target[id], kept[id]) /\ kept[id] \in Seq(Samples)
    BY DEF IInv, Present, BuffersOK, TargetsOK, KeptOK, RingOK
  <2>2. n \in Nat
    BY <2>1, TargetFields
  <2>3. HistoryLimit(n) \in Nat
    BY <2>2 DEF HistoryLimit
  <2> QED BY <2>1, <2>3, ReadLastNIsLast DEF History
<1> QED BY <1>1, Inductive, PTL

\* A client of the paged listing sees every target that stays, and none twice, for every
\* number of targets and every limit.
THEOREM ListingCompleteHolds == Spec => []ListingComplete
<1>1. IInv => ListingComplete
  BY DEF IInv, PageOK, ListingComplete
<1> QED BY <1>1, Inductive, PTL

-----------------------------------------------------------------------------
(* What the indices answer. *)

\* All that is needed of a filter: the criteria that are given name what is indexed.
IsFilter(f) ==
  /\ f.state \in States \cup {None} /\ f.protocol \in Asked \cup {None}
  /\ f.tags \subseteq Indexed
  /\ f.host # None => f.host \subseteq Hosts
LEMMA FilterFields ==
  ASSUME NEW f \in Filters
  PROVE  IsFilter(f)
  BY DEF Filters, IsFilter

\* The set that each criterion stands for.
LEMMA StateSet ==
  ASSUME PlacesOK, dispatch = None, NEW f, f.state \in States
  PROVE  byState[f.state] = {id \in Present : HasState(id, f)}
<1>1. f.state # None
  BY NoneIsApart
<1>2. byState[f.state] \subseteq Ids
  BY DEF PlacesOK, PlaceTypes
<1>3. \A id \in Ids : id \in byState[f.state] <=> target[id] # None /\ target[id].state = f.state
  BY DEF PlacesOK, StatesOK, IndexedState
<1> QED BY <1>1, <1>2, <1>3 DEF Present, HasState

\* A protocol that no target has is met by none.
LEMMA ProtocolSet ==
  ASSUME PlacesOK, NEW f, f.protocol \in Asked
  PROVE  QueryByProtocol(f.protocol) = {id \in Present : HasProtocol(id, f)}
<1>1. f.protocol # None
  BY NoneIsApart
<1>2. \A id \in Ids : HasProtocol(id, f) <=> f.protocol = ProtocolOf(target[id].host)
  BY <1>1 DEF HasProtocol
<1>3. CASE f.protocol \in Protocols
  <2>1. byProtocol[f.protocol] \subseteq Ids
    BY <1>3 DEF PlacesOK, PlaceTypes
  <2>2. \A id \in Ids : id \in byProtocol[f.protocol]
                       <=> target[id] # None /\ ProtocolOf(target[id].host) = f.protocol
    BY <1>3 DEF PlacesOK, ProtocolsOK
  <2> QED BY <1>2, <1>3, <2>1, <2>2 DEF Present, QueryByProtocol
<1>4. CASE f.protocol \notin Protocols
  BY <1>2, <1>4, ProtocolType DEF Present, QueryByProtocol
<1> QED BY <1>3, <1>4

LEMMA TagSet ==
  ASSUME TagsOK, NEW f, f.tags \subseteq Indexed, f.tags # {}
  PROVE  QueryByTags(f.tags) = {id \in Present : HasTags(id, f)}
<1>1. \A id \in Ids : id \in QueryByTags(f.tags) <=> \A p \in f.tags : Tagged(id, p)
  BY DEF QueryByTags, TagsOK, PrefixesOK
<1>2. \A id \in Ids : HasTags(id, f) <=> \A p \in f.tags : Tagged(id, p)
  BY DEF HasTags, Tagged
<1>3. \A id \in Ids : (\E p \in f.tags : Tagged(id, p)) => target[id] # None
  BY DEF TagsOK, UntaggedOK, Tagged
<1>4. QueryByTags(f.tags) \subseteq Ids
  BY DEF QueryByTags
<1> QED BY <1>1, <1>2, <1>3, <1>4 DEF Present

LEMMA HostSet ==
  ASSUME PlacesOK, NEW f, f.host # None, f.host \subseteq Hosts
  PROVE  QueryByHost(f.host) = {id \in Present : HasHost(id, f)}
<1>1. \A id : id \in QueryByHost(f.host) <=> \E h \in f.host : id \in byHost[h]
  BY DEF QueryByHost
<1>2. \A h \in f.host : byHost[h] \subseteq Ids
  BY DEF PlacesOK, PlaceTypes
<1>3. \A id \in Ids, h \in f.host : id \in byHost[h] <=> target[id] # None /\ target[id].host = h
  BY DEF PlacesOK, HostsOK
<1>4. \A id \in Ids : HasHost(id, f) <=> target[id].host \in f.host
  BY DEF HasHost
<1> QED BY <1>1, <1>2, <1>3, <1>4 DEF Present

\* What Query has found stands for R; before the first criterion it stands for all targets.
StandsFor(found, R) == found = R \/ (found = None /\ R = Present)

\* A set that is not empty narrows what was found.
LEMMA IntersectNarrows ==
  ASSUME NEW R, R \subseteq Present, NEW A, A \subseteq Present, A # {},
         NEW found, StandsFor(found, R)
  PROVE  Intersect(found, A) = R \cap A /\ Intersect(found, A) # None
<1>1. R \in SUBSET Ids /\ A \in SUBSET Ids /\ R \cap A \in SUBSET Ids
  BY DEF Present
<1>2. Intersect(found, A) = R \cap A
  BY <1>1, NoneIsNoSet DEF StandsFor, Intersect
<1> QED BY <1>1, <1>2, NoneIsNoSet

\* When some target meets all criteria, Query answers with those that do.
LEMMA QueryIsMatching ==
  ASSUME PlacesOK, TagsOK, dispatch = None, NEW f, IsFilter(f), Matching(f) # {}, ~IsEmpty(f)
  PROVE  Query(f) = Matching(f) /\ Query(f) # None
<1> DEFINE S == {id \in Present : HasState(id, f)}
<1> DEFINE P == {id \in Present : HasProtocol(id, f)}
<1> DEFINE T == {id \in Present : HasTags(id, f)}
<1> DEFINE H == {id \in Present : HasHost(id, f)}
<1> DEFINE s == IF f.state = None THEN None ELSE Intersect(None, byState[f.state])
<1> DEFINE p == IF f.protocol = None THEN s ELSE Intersect(s, QueryByProtocol(f.protocol))
<1> DEFINE t == IF f.tags = {} THEN p ELSE Intersect(p, QueryByTags(f.tags))
<1> DEFINE h == IF f.host = None THEN t ELSE Intersect(t, QueryByHost(f.host))
<1>0. Query(f) = h
  BY DEF Query
<1>1. S \subseteq Present /\ P \subseteq Present /\ T \subseteq Present /\ H \subseteq Present
  OBVIOUS
<1>2. Matching(f) = S \cap P \cap T \cap H
  BY DEF Matching, Meets
<1>3. S # {} /\ P # {} /\ T # {} /\ H # {}
  BY <1>2
<1>4. f.state = None => S = Present
  BY DEF HasState
<1>5. f.protocol = None => P = Present
  BY DEF HasProtocol
<1>6. f.tags = {} => T = Present
  BY DEF HasTags
<1>7. f.host = None => H = Present
  BY DEF HasHost
<1>8. f.state # None => byState[f.state] = S
  BY StateSet DEF IsFilter
<1>9. f.protocol # None => QueryByProtocol(f.protocol) = P
  BY ProtocolSet DEF IsFilter
<1>10. f.tags # {} => QueryByTags(f.tags) = T
  BY TagSet DEF IsFilter
<1>11. f.host # None => QueryByHost(f.host) = H
  BY HostSet DEF IsFilter
<1> HIDE DEF S, P, T, H
<1>12. StandsFor(s, S) /\ (f.state # None => s # None)
  <2>1. StandsFor(None, Present)
    BY DEF StandsFor
  <2>2. CASE f.state = None
    BY <1>4, <2>1, <2>2
  <2>3. CASE f.state # None
    <3>1. Intersect(None, S) = Present \cap S /\ Intersect(None, S) # None
      BY <1>1, <1>3, <2>1, IntersectNarrows
    <3>2. s = Intersect(None, S)
      BY <1>8, <2>3
    <3> QED BY <1>1, <3>1, <3>2 DEF StandsFor
  <2> QED BY <2>2, <2>3
<1> HIDE DEF s
<1>13. StandsFor(p, S \cap P) /\ (f.protocol # None \/ s # None => p # None)
  <2>1. CASE f.protocol = None
    <3>1. S \cap P = S /\ p = s
      BY <1>1, <1>5, <2>1
    <3> QED BY <1>12, <2>1, <3>1
  <2>2. CASE f.protocol # None
    <3>1. Intersect(s, P) = S \cap P /\ Intersect(s, P) # None
      BY <1>1, <1>3, <1>12, IntersectNarrows
    <3>2. p = Intersect(s, P)
      BY <1>9, <2>2
    <3> QED BY <3>1, <3>2 DEF StandsFor
  <2> QED BY <2>1, <2>2
<1> HIDE DEF p
<1>14. StandsFor(t, S \cap P \cap T) /\ (f.tags # {} \/ p # None => t # None)
  <2>1. CASE f.tags = {}
    <3>1. S \cap P \cap T = S \cap P /\ t = p
      BY <1>1, <1>6, <2>1
    <3> QED BY <1>13, <2>1, <3>1
  <2>2. CASE f.tags # {}
    <3>1. S \cap P \subseteq Present
      BY <1>1
    <3>2. Intersect(p, T) = S \cap P \cap T /\ Intersect(p, T) # None
      BY <1>1, <1>3, <1>13, <3>1, IntersectNarrows
    <3>3. t = Intersect(p, T)
      BY <1>10, <2>2
    <3> QED BY <3>2, <3>3 DEF StandsFor
  <2> QED BY <2>1, <2>2
<1> HIDE DEF t
<1>15. StandsFor(h, S \cap P \cap T \cap H) /\ (f.host # None \/ t # None => h # None)
  <2>1. CASE f.host = None
    <3>1. S \cap P \cap T \cap H = S \cap P \cap T /\ h = t
      BY <1>1, <1>7, <2>1
    <3> QED BY <1>14, <2>1, <3>1
  <2>2. CASE f.host # None
    <3>1. S \cap P \cap T \subseteq Present
      BY <1>1
    <3>2. Intersect(t, H) = S \cap P \cap T \cap H /\ Intersect(t, H) # None
      BY <1>1, <1>3, <1>14, <3>1, IntersectNarrows
    <3>3. h = Intersect(t, H)
      BY <1>11, <2>2
    <3> QED BY <3>2, <3>3 DEF StandsFor
  <2> QED BY <2>1, <2>2
<1>16. h # None
  BY <1>12, <1>13, <1>14, <1>15 DEF IsEmpty
<1> QED BY <1>0, <1>2, <1>15, <1>16 DEF StandsFor

\* When some target meets all criteria of a filter, a filtered list of browseTargetList has
\* exactly the targets that do, for every filter and any number of targets.
THEOREM QueryFindsHolds == Spec => []QueryFinds
<1>1. IInv => QueryFinds
  <2> SUFFICES ASSUME IInv, dispatch = None, NEW f \in Filters, Matching(f) # {}
               PROVE  Selected(f) = Matching(f)
    BY DEF QueryFinds
  <2>1. PlacesOK /\ TagsOK
    BY DEF IInv
  <2>2. CASE IsEmpty(f)
    <3>1. Selected(f) = Present
      BY <2>2 DEF Selected
    <3>2. Matching(f) = Present
      BY <2>2 DEF IsEmpty, Matching, Meets, HasState, HasProtocol, HasTags, HasHost
    <3> QED BY <3>1, <3>2
  <2>3. CASE ~IsEmpty(f)
    <3>1. Query(f) = Matching(f) /\ Query(f) # None
      BY <2>1, <2>3, FilterFields, QueryIsMatching
    <3> QED BY <2>3, <3>1 DEF Selected
  <2> QED BY <2>2, <2>3
<1> QED BY <1>1, Inductive, PTL

-----------------------------------------------------------------------------
(* The directories of tags. *)

\* A prefix of a sequence, and the prefix that is one longer.
LEMMA PrefixProperties ==
  ASSUME NEW S, NEW s \in Seq(S), NEW k \in 0 .. Len(s)
  PROVE  /\ SubSeq(s, 1, k) \in Seq(S) /\ Len(SubSeq(s, 1, k)) = k
         /\ \A i \in 1 .. k : SubSeq(s, 1, k)[i] = s[i]
<1>1. Len(s) \in Nat /\ k \in Int /\ 1 \in Int
  BY LenProperties
<1>2. \A i \in 1 .. k : s[i] \in S
  BY <1>1, ElementOfSeq
<1>3. /\ SubSeq(s, 1, k) \in Seq(S)
      /\ Len(SubSeq(s, 1, k)) = IF 1 <= k THEN k - 1 + 1 ELSE 0
      /\ \A i \in 1 .. k - 1 + 1 : SubSeq(s, 1, k)[i] = s[1 + i - 1]
  BY <1>1, <1>2, SubSeqProperties
<1>4. k - 1 + 1 = k /\ \A i \in 1 .. k : 1 + i - 1 = i
  BY <1>1
<1> QED BY <1>1, <1>3, <1>4

LEMMA PrefixOfPrefix ==
  ASSUME NEW S, NEW s \in Seq(S), NEW k \in 0 .. Len(s), NEW j \in 0 .. k
  PROVE  SubSeq(SubSeq(s, 1, k), 1, j) = SubSeq(s, 1, j)
<1>0. Len(s) \in Nat
  BY LenProperties
<1>1. PICK q : q = SubSeq(s, 1, k)
  OBVIOUS
<1>2. q \in Seq(S) /\ Len(q) = k /\ \A i \in 1 .. k : q[i] = s[i]
  BY <1>1, PrefixProperties
<1>3. j \in 0 .. Len(q) /\ j \in 0 .. Len(s)
  BY <1>0, <1>2
<1>4. SubSeq(q, 1, j) \in Seq(S) /\ Len(SubSeq(q, 1, j)) = j /\ \A i \in 1 .. j : SubSeq(q, 1, j)[i] = q[i]
  BY <1>2, <1>3, PrefixProperties
<1>5. SubSeq(s, 1, j) \in Seq(S) /\ Len(SubSeq(s, 1, j)) = j /\ \A i \in 1 .. j : SubSeq(s, 1, j)[i] = s[i]
  BY <1>3, PrefixProperties
<1>6. \A i \in 1 .. j : i \in 1 .. k
  BY <1>0
<1>7. SubSeq(q, 1, j) = SubSeq(s, 1, j)
  BY <1>2, <1>4, <1>5, <1>6, SeqEqual
<1> QED BY <1>1, <1>7

LEMMA PrefixAppend ==
  ASSUME NEW S, NEW s \in Seq(S), NEW j \in Nat, j + 1 \in 1 .. Len(s)
  PROVE  Append(SubSeq(s, 1, j), s[j + 1]) = SubSeq(s, 1, j + 1)
<1>0. Len(s) \in Nat
  BY LenProperties
<1>1. j \in 0 .. Len(s) /\ j + 1 \in 0 .. Len(s)
  BY <1>0
<1>2. PICK q : q = SubSeq(s, 1, j)
  OBVIOUS
<1>3. q \in Seq(S) /\ Len(q) = j /\ \A i \in 1 .. j : q[i] = s[i]
  BY <1>1, <1>2, PrefixProperties
<1>4. PICK e \in S : e = s[j + 1]
  BY ElementOfSeq
<1>5. /\ Append(q, e) \in Seq(S) /\ Len(Append(q, e)) = j + 1
      /\ \A i \in 1 .. j : Append(q, e)[i] = q[i]
      /\ Append(q, e)[j + 1] = e
  BY <1>3, AppendProperties
<1>6. PICK r : r = SubSeq(s, 1, j + 1)
  OBVIOUS
<1>7. r \in Seq(S) /\ Len(r) = j + 1 /\ \A i \in 1 .. j + 1 : r[i] = s[i]
  BY <1>1, <1>6, PrefixProperties
<1>8. \A i \in 1 .. j + 1 : Append(q, e)[i] = r[i]
  <2> SUFFICES ASSUME NEW i \in 1 .. j + 1 PROVE Append(q, e)[i] = r[i]
    OBVIOUS
  <2>1. CASE i = j + 1
    BY <1>4, <1>5, <1>7, <2>1
  <2>2. CASE i # j + 1
    <3>1. i \in 1 .. j
      BY <2>2
    <3> QED BY <1>3, <1>5, <1>7, <3>1
  <2> QED BY <2>1, <2>2
<1>9. Append(q, e) = r
  BY <1>5, <1>7, <1>8, SeqEqual
<1> QED BY <1>2, <1>4, <1>6, <1>9

LEMMA PrefixesOf ==
  ASSUME NEW tag \in Tags
  PROVE  /\ Prefixes[tag] = {SubSeq(tag, 1, i) : i \in 1 .. Len(tag)}
         /\ Prefixes[tag] \subseteq Indexed
<1>1. Prefixes[tag] = {SubSeq(tag, 1, i) : i \in 1 .. Len(tag)}
  BY DEF Prefixes
<1>2. Prefixes[tag] \subseteq Indexed
  BY DEF Indexed
<1> QED BY <1>1, <1>2

\* The segment after a prefix of a target's tag is a directory there.
LEMMA DirectoriesLead ==
  ASSUME TagsOK, NEW id \in Ids, NEW tag \in targetToTags[id], NEW i \in 1 .. Len(tag)
  PROVE  tag[i] \in ChildDirs(SubSeq(tag, 1, i - 1))
<1>1. tag \in Tags
  BY DEF TagsOK, TagTypes
<1>2. PICK S : S = STRING /\ tag \in Seq(S)
  BY <1>1, TagsAreSequences
<1>3. Len(tag) \in Nat
  BY <1>2, LenProperties
<1>4. PICK j \in Nat : j = i - 1
  BY <1>3
<1>5. j \in 0 .. Len(tag) /\ i \in 0 .. Len(tag) /\ j \in 0 .. i
  BY <1>3, <1>4
<1>6. PICK p : p = SubSeq(tag, 1, j)
  OBVIOUS
<1>7. PICK q : q = SubSeq(tag, 1, i)
  OBVIOUS
<1>8. Len(p) = j
  BY <1>2, <1>5, <1>6, PrefixProperties
<1>9. Len(q) = i /\ q[i] = tag[i]
  BY <1>2, <1>5, <1>7, PrefixProperties
<1>10. SubSeq(q, 1, Len(p)) = p
  BY <1>2, <1>5, <1>6, <1>7, <1>8, PrefixOfPrefix
<1>11. q \in Prefixes[tag] /\ q \in Indexed
  BY <1>1, <1>7, PrefixesOf
<1>12. id \in tagToTargets[q]
  BY <1>11 DEF TagsOK, PrefixesOK, Tagged
<1>13. Len(q) > Len(p) /\ Len(p) + 1 = i
  BY <1>3, <1>4, <1>8, <1>9
<1>14. q[Len(p) + 1] \in ChildDirs(p)
  BY <1>10, <1>11, <1>12, <1>13 DEF ChildDirs
<1> QED BY <1>4, <1>6, <1>9, <1>13, <1>14

\* A directory is the next segment of the tag of a target that exists.
LEMMA DirectoriesHaveTargets ==
  ASSUME TagsOK, NEW p, p \in Indexed \cup {<<>>}, NEW dir \in ChildDirs(p)
  PROVE  \E id \in Present : \E tag \in targetToTags[id] : Append(p, dir) \in Prefixes[tag]
<1>1. PICK q \in Indexed : /\ tagToTargets[q] # {}
                          /\ Len(q) > Len(p)
                          /\ SubSeq(q, 1, Len(p)) = p
                          /\ dir = q[Len(p) + 1]
  BY DEF ChildDirs
<1>2. PICK id \in Ids : id \in tagToTargets[q]
  BY <1>1 DEF TagsOK, TagTypes
<1>3. PICK tag \in targetToTags[id] : q \in Prefixes[tag]
  BY <1>2 DEF TagsOK, PrefixesOK, Tagged
<1>4. id \in Present /\ tag \in Tags
  BY <1>3 DEF TagsOK, UntaggedOK, TagTypes, Present
<1>5. PICK k \in 1 .. Len(tag) : q = SubSeq(tag, 1, k)
  BY <1>3, <1>4, PrefixesOf
<1>6. PICK S : tag \in Seq(S)
  BY <1>4, TagsAreSequences
<1>7. Len(tag) \in Nat /\ k \in 0 .. Len(tag)
  BY <1>6, LenProperties
<1>8. Len(q) = k /\ \A i \in 1 .. k : q[i] = tag[i]
  BY <1>5, <1>6, <1>7, PrefixProperties
<1>9. Len(p) \in Nat
  <2>1. CASE p = <<>>
    BY <2>1
  <2>2. CASE p \in Indexed
    <3>1. PICK other \in Tags : p \in Prefixes[other]
      BY <2>2 DEF Indexed
    <3>2. PICK m \in 1 .. Len(other) : p = SubSeq(other, 1, m)
      BY <3>1, PrefixesOf
    <3>3. PICK R : other \in Seq(R)
      BY TagsAreSequences
    <3>4. m \in 0 .. Len(other)
      BY <3>3, LenProperties
    <3>5. Len(p) = m
      BY <3>2, <3>3, <3>4, PrefixProperties
    <3> QED BY <3>5
  <2> QED BY <2>1, <2>2
<1>10. PICK j \in Nat : j = Len(p)
  BY <1>9
<1>11. j \in 0 .. k /\ j + 1 \in 1 .. k /\ j + 1 \in 1 .. Len(tag)
  BY <1>1, <1>7, <1>8, <1>10
<1>12. p = SubSeq(tag, 1, j)
  BY <1>1, <1>5, <1>6, <1>7, <1>10, <1>11, PrefixOfPrefix
<1>13. dir = tag[j + 1]
  BY <1>1, <1>8, <1>10, <1>11
<1>14. Append(p, dir) = SubSeq(tag, 1, j + 1)
  BY <1>6, <1>11, <1>12, <1>13, PrefixAppend
<1>15. Append(p, dir) \in Prefixes[tag]
  BY <1>4, <1>11, <1>14, PrefixesOf
<1> QED BY <1>4, <1>15

\* A target is listed at each of its tags under every filter that it meets.
LEMMA TargetsAtTheirTags ==
  ASSUME PlacesOK, TagsOK, dispatch = None, NEW id \in Ids, NEW tag \in targetToTags[id],
         NEW f \in Untagged, Meets(id, f)
  PROVE  id \in ListedAt(tag, f)
<1>1. id \in Present /\ id \in ChildTargets(tag)
  BY DEF TagsOK, UntaggedOK, Present, ChildTargets
<1>2. PICK g : g = [f EXCEPT !.tags = {}]
  OBVIOUS
<1>3. f \in Filters /\ f.tags = {}
  BY DEF Untagged
<1>4. g.state = f.state /\ g.protocol = f.protocol /\ g.host = f.host /\ g.tags = {}
  BY <1>2, <1>3 DEF Filters
<1>5. IsFilter(g)
  BY <1>3, <1>4, FilterFields DEF IsFilter
<1>6. Meets(id, g)
  BY <1>4 DEF Meets, HasState, HasProtocol, HasHost, HasTags
<1>7. ListedAt(tag, f) = Present \cap (IF IsEmpty(g) THEN ChildTargets(tag)
                                     ELSE IF Query(g) = None THEN {} ELSE Query(g) \cap ChildTargets(tag))
  BY <1>2 DEF ListedAt
<1>8. CASE IsEmpty(g)
  BY <1>1, <1>7, <1>8
<1>9. CASE ~IsEmpty(g)
  <2>1. id \in Matching(g)
    BY <1>1, <1>6 DEF Matching
  <2>2. Query(g) = Matching(g) /\ Query(g) # None
    BY <1>5, <1>9, <2>1, QueryIsMatching
  <2> QED BY <1>1, <1>7, <1>9, <2>1, <2>2
<1> QED BY <1>8, <1>9

\* A target of a tag is opened by its id below the tag, whatever ids the segments are.
LEMMA OpenedById ==
  ASSUME TagsOK, NEW id \in Ids, NEW tag \in targetToTags[id], NEW f
  PROVE  /\ BrowseTags(Append(tag, Name[id]), f).target = id
         /\ BrowseTags(Append(tag, Name[id]), f).rest = <<>>
<1>1. tag \in Tags /\ id \in Present
  BY DEF TagsOK, TagTypes, UntaggedOK, Present
<1>2. tag \in Seq(STRING) /\ tag # <<>> /\ Name[id] \in STRING
  BY <1>1, TagsAreSequences, NamesDiffer
<1>3. PICK n : n = Len(tag)
  OBVIOUS
<1>4. n \in Nat \ {0} /\ n \in 0 .. n /\ n \in 1 .. n
  BY <1>2, <1>3, LenProperties, EmptySeq
<1>5. PICK path : path = Append(tag, Name[id])
  OBVIOUS
<1>6. /\ path \in Seq(STRING) /\ Len(path) = n + 1 /\ path[n + 1] = Name[id]
      /\ \A i \in 1 .. n : path[i] = tag[i]
  BY <1>2, <1>3, <1>5, AppendProperties
<1>7. SubSeq(path, 1, n) = tag
  <2>1. n \in 0 .. Len(path)
    BY <1>4, <1>6
  <2>2. /\ SubSeq(path, 1, n) \in Seq(STRING) /\ Len(SubSeq(path, 1, n)) = n
        /\ \A i \in 1 .. n : SubSeq(path, 1, n)[i] = path[i]
    BY <1>6, <2>1, PrefixProperties
  <2> QED BY <1>2, <1>3, <1>6, <2>2, SeqEqual
<1>8. HasTag(id, tag)
  <2>1. SubSeq(tag, 1, n) = tag
    <3>1. /\ SubSeq(tag, 1, n) \in Seq(STRING) /\ Len(SubSeq(tag, 1, n)) = n
          /\ \A i \in 1 .. n : SubSeq(tag, 1, n)[i] = tag[i]
      BY <1>2, <1>3, <1>4, PrefixProperties
    <3> QED BY <1>2, <1>3, <3>1, SeqEqual
  <2>2. tag \in Prefixes[tag] /\ tag \in Indexed
    BY <1>1, <1>3, <1>4, <2>1, PrefixesOf
  <2> QED BY <2>2 DEF HasTag, TagsOK, PrefixesOK, Tagged
<1>9. NamedBy(path, n + 1) = {id}
  <2>1. PICK m : m = n + 1
    OBVIOUS
  <2>2. m # 1 /\ m - 1 = n
    BY <1>4, <2>1
  <2>3. NamedBy(path, m) = {x \in Present : Name[x] = path[m] /\ HasTag(x, SubSeq(path, 1, m - 1))}
    BY <2>2, Zenon DEF NamedBy
  <2>4. NamedBy(path, m) = {x \in Present : Name[x] = Name[id] /\ HasTag(x, tag)}
    BY <1>6, <1>7, <2>1, <2>2, <2>3
  <2>5. \A x \in Present : Name[x] = Name[id] => x = id
    BY NamesDiffer DEF Present
  <2> QED BY <1>1, <1>8, <2>1, <2>4, <2>5
<1>10. n + 1 \in Naming(path) /\ \A j \in Naming(path) : j \in 1 .. n + 1
  <2>1. Naming(path) = {i \in 1 .. n + 1 : NamedBy(path, i) # {}}
    BY <1>6 DEF Naming
  <2>2. n + 1 \in 1 .. n + 1
    BY <1>4
  <2> QED BY <1>9, <2>1, <2>2
<1> DEFINE Latest(i) == \A j \in Naming(path) : j <= i
<1> DEFINE last == CHOOSE i \in Naming(path) : Latest(i)
<1>11. last = n + 1
  <2>1. Latest(n + 1)
    BY <1>4, <1>10
  <2>2. last \in Naming(path) /\ Latest(last)
    <3> HIDE DEF Latest
    <3> QED BY <1>10, <2>1
  <2>3. last \in 1 .. n + 1 /\ n + 1 <= last
    BY <1>10, <2>2
  <2> QED BY <1>4, <2>3
<1>12. SubSeq(path, n + 1 + 1, n + 1) = <<>>
  BY <1>4, <1>6, SubSeqProperties, EmptySeq
<1>13. (CHOOSE x \in {id} : TRUE) = id
  OBVIOUS
<1>14. BrowseTags(path, f) =
         [target |-> CHOOSE x \in NamedBy(path, last) : TRUE,
          rest |-> SubSeq(path, last + 1, Len(path)), dirs |-> {}, targets |-> {}]
  BY <1>10 DEF BrowseTags
<1> HIDE DEF last
<1>15. BrowseTags(path, f) = [target |-> id, rest |-> <<>>, dirs |-> {}, targets |-> {}]
  BY <1>6, <1>9, <1>11, <1>12, <1>13, <1>14
<1> QED BY <1>5, <1>15

\* Where no segment is an id, every path down the tag answers with its directory.
LEMMA DirectoriesUnshadowed ==
  ASSUME NEW tag \in Tags, ~Shadowed(tag), NEW k \in 0 .. Len(tag), NEW f
  PROVE  /\ BrowseTags(SubSeq(tag, 1, k), f).dirs = ChildDirs(SubSeq(tag, 1, k))
         /\ BrowseTags(SubSeq(tag, 1, k), f).targets = ListedAt(SubSeq(tag, 1, k), f)
<1>1. tag \in Seq(STRING) /\ Len(tag) \in Nat
  BY TagsAreSequences, LenProperties
<1>2. PICK path : path = SubSeq(tag, 1, k)
  OBVIOUS
<1>3. Len(path) = k /\ \A i \in 1 .. k : path[i] = tag[i]
  BY <1>1, <1>2, PrefixProperties
<1>4. \A i \in 1 .. k : i \in 1 .. Len(tag)
  BY <1>1
<1>5. Naming(path) = {}
  BY <1>3, <1>4 DEF Naming, NamedBy, Shadowed
<1> QED BY <1>2, <1>5 DEF BrowseTags

\* What browseTags answers at a prefix of a tag: a target of the index can be opened below
\* each of its tags; where no id stands in the way the tag is walked down to it; and no
\* directory is shown without a target, for tags of every depth.
THEOREM BrowseReachesHolds == Spec => []BrowseReaches
<1>1. IInv => BrowseReaches
  <2> SUFFICES ASSUME IInv PROVE BrowseReaches
    OBVIOUS
  <2>1. PlacesOK /\ TagsOK
    BY DEF IInv
  <2>2. ASSUME NEW id \in Ids, NEW tag \in targetToTags[id], ~Shadowed(tag)
        PROVE  /\ \A i \in 1 .. Len(tag) :
                    tag[i] \in BrowseTags(SubSeq(tag, 1, i - 1), NoFilter).dirs
               /\ dispatch = None =>
                    \A f \in Untagged : Meets(id, f) => id \in BrowseTags(tag, f).targets
    <3>1. tag \in Tags
      BY <2>1 DEF TagsOK, TagTypes
    <3>2. tag \in Seq(STRING) /\ Len(tag) \in Nat
      BY <3>1, TagsAreSequences, LenProperties
    <3>3. ASSUME NEW i \in 1 .. Len(tag)
          PROVE  tag[i] \in BrowseTags(SubSeq(tag, 1, i - 1), NoFilter).dirs
      <4>1. i - 1 \in 0 .. Len(tag)
        BY <3>2
      <4>2. BrowseTags(SubSeq(tag, 1, i - 1), NoFilter).dirs = ChildDirs(SubSeq(tag, 1, i - 1))
        BY <2>2, <3>1, <4>1, DirectoriesUnshadowed
      <4> QED BY <2>1, <4>2, DirectoriesLead
    <3>4. ASSUME dispatch = None, NEW f \in Untagged, Meets(id, f)
          PROVE  id \in BrowseTags(tag, f).targets
      <4>1. Len(tag) \in 0 .. Len(tag)
        BY <3>2
      <4>2. SubSeq(tag, 1, Len(tag)) = tag
        <5>1. /\ SubSeq(tag, 1, Len(tag)) \in Seq(STRING)
              /\ Len(SubSeq(tag, 1, Len(tag))) = Len(tag)
              /\ \A i \in 1 .. Len(tag) : SubSeq(tag, 1, Len(tag))[i] = tag[i]
          BY <3>2, <4>1, PrefixProperties
        <5> QED BY <3>2, <5>1, SeqEqual
      <4>3. BrowseTags(tag, f).targets = ListedAt(tag, f)
        BY <2>2, <3>1, <4>1, <4>2, DirectoriesUnshadowed
      <4> QED BY <2>1, <3>4, <4>3, TargetsAtTheirTags
    <3> QED BY <3>3, <3>4
  <2>3. ASSUME NEW p \in Indexed \cup {<<>>}, NEW dir \in BrowseTags(p, NoFilter).dirs
        PROVE  \E id \in Present : \E tag \in targetToTags[id] : Append(p, dir) \in Prefixes[tag]
    <3>1. CASE Naming(p) = {}
      <4>1. dir \in ChildDirs(p)
        BY <2>3, <3>1 DEF BrowseTags
      <4> QED BY <2>1, <2>3, <4>1, DirectoriesHaveTargets
    <3>2. CASE Naming(p) # {}
      <4>1. BrowseTags(p, NoFilter).dirs = {}
        BY <3>2 DEF BrowseTags
      <4> QED BY <2>3, <4>1
    <3> QED BY <3>1, <3>2
  <2>4. \A id \in Ids : \A tag \in targetToTags[id] :
          /\ BrowseTags(Append(tag, Name[id]), NoFilter).target = id
          /\ BrowseTags(Append(tag, Name[id]), NoFilter).rest = <<>>
    BY <2>1, OpenedById
  <2> QED BY <2>2, <2>3, <2>4 DEF BrowseReaches
<1> QED BY <1>1, Inductive, PTL
=============================================================================
