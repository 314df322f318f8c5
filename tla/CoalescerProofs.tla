-------------------------- MODULE CoalescerProofs --------------------------
(***************************************************************************)
(* What the coalescer does with the results it takes in, for any number of  *)
(* targets, records, failed publications and restarts, and windows of any   *)
(* length.                                                                  *)
(***************************************************************************)
EXTENDS Coalescer, FiniteSetTheorems, TLAPS

\* The window of time t.
Win(t) == t \div Window

\* Result i has track tr and belongs to bucket k.
Fits(i, tr, k) == topic[i] = [track |-> tr, target |-> k[1]] /\ Win(took[i]) = k[2]

SlotsFit ==
    \A k \in Keys :
        /\ slots[k].a # 0 => Fits(slots[k].a, "a", k)
        /\ slots[k].b # 0 => Fits(slots[k].b, "b", k)
        /\ slots[k] # Empty => Win(slots[k].t0) = k[2]

OutputsFit ==
    \A o \in outputs : o.life = life =>
        /\ o.a <= position /\ o.b <= position /\ o.key[2] <= Win(now)
        /\ o.a # 0 => Fits(o.a, "a", o.key)
        /\ o.b # 0 => Fits(o.b, "b", o.key)

\* Half an output closes its bucket.
Half(o) == o.a = 0 \/ o.b = 0
HalfCloses ==
    \A o \in outputs : Half(o) =>
        /\ o.life = life => o.key[2] < Win(now) /\ slots[o.key] = Empty
        /\ \A p \in outputs : p.key = o.key /\ p.life = o.life /\ p # o => p.nr < o.nr

Numbered == IsFiniteSet(outputs) /\ \A o \in outputs : o.nr < Cardinality(outputs)

\* What waits in a bucket was read after what the target's pairs were made of.
SlotsBehindPairs ==
    \A o \in outputs : ~Half(o) /\ o.life = life =>
        \A k \in Keys : k[1] = o.key[1] /\ k[2] >= o.key[2] =>
            \A i \in Parts(o) : /\ slots[k].a # 0 => i < slots[k].a
                                /\ slots[k].b # 0 => i < slots[k].b

CoalescerInv ==
    /\ CTypeOK /\ SlotsFit /\ OutputsFit /\ HalfCloses /\ Numbered
    /\ PairsInOrder /\ SlotsBehindPairs /\ ResultsAccounted

USE CoalescerAssumption DEF CoalescerAssumption

-----------------------------------------------------------------------------
(* Time and windows. *)

LEMMA Windows ==
    /\ \A t \in Nat : Win(t) \in Nat
    /\ \A s, t \in Nat : s <= t => Win(s) <= Win(t)
    /\ \A s, t \in Nat : s + Window <= t => Win(s) < Win(t)
<1>1. \A t \in Nat : t \div Window \in Nat
  OBVIOUS
<1>2. \A s, t \in Nat : s <= t => s \div Window <= t \div Window
  OBVIOUS
<1>3. \A s, t \in Nat : s + Window <= t => s \div Window < t \div Window
  OBVIOUS
<1>. QED  BY <1>1, <1>2, <1>3 DEF Win

LEMMA KeysOfNow ==
    ASSUME NEW target \in Targets, NEW t \in 0..MaxTime
    PROVE  BucketKey(target, t) \in Keys /\ BucketKey(target, t) = <<target, Win(t)>>
<1>1. Win(t) \in Nat /\ Win(t) <= Win(MaxTime) /\ Win(MaxTime) \in Nat
  BY Windows
<1>. QED  BY <1>1 DEF BucketKey, Keys, Win

LEMMA KeysFinite == IsFiniteSet(Keys)
<1>1. IsFiniteSet(0..(MaxTime \div Window))
  BY FS_Interval
<1>. QED  BY <1>1, FS_Product DEF Keys

-----------------------------------------------------------------------------
(* Outputs. *)

\* The output of bucket k in one round, published or not.
Output(k, from, sent) ==
    [key |-> k, a |-> from[k].a, b |-> from[k].b, nr |-> Cardinality(outputs),
     life |-> life, sent |-> sent]

\* The outputs of one round: one per bucket.
Round(B, ks, from) ==
    /\ IsFiniteSet(B)
    /\ \A k \in ks : \E o \in B : o.key = k
    /\ \A o \in B : o.key \in ks /\ \E sent \in BOOLEAN : o = Output(o.key, from, sent)
    /\ \A o, p \in B : o.key = p.key => o = p

LEMMA Published ==
    ASSUME NEW ks \in SUBSET Keys, NEW from, Publish(ks, from)
    PROVE  \E B : outputs' = outputs \cup B /\ Round(B, ks, from)
<1>1. PICK failed \in SUBSET ks : outputs' = outputs \cup Build(ks, from, failed)
  BY DEF Publish
<1>. DEFINE B == { Output(k, from, k \notin failed) : k \in ks }
<1>2. B = Build(ks, from, failed)
  BY DEF Build, Output
<1>3. \A k, sent : Output(k, from, sent).key = k
  BY DEF Output
<1>4. IsFiniteSet(B)
  <2>. DEFINE f == [k \in ks |-> Output(k, from, k \notin failed)]
  <2>1. f \in Surjection(ks, B)
    BY DEF Surjection
  <2>2. IsFiniteSet(ks)
    BY KeysFinite, FS_Subset
  <2>. QED  BY <2>1, <2>2, FS_Surjection
<1>5. ASSUME NEW k \in ks PROVE \E o \in B : o.key = k
  <2>1. Output(k, from, k \notin failed) \in B
    OBVIOUS
  <2>. QED  BY <1>3, <2>1
<1>6. ASSUME NEW o \in B
      PROVE  o.key \in ks /\ o = Output(o.key, from, o.key \notin failed)
  <2>1. PICK k \in ks : o = Output(k, from, k \notin failed)
    OBVIOUS
  <2>. QED  BY <1>3, <2>1
<1>7. \A o \in B : \E sent \in BOOLEAN : o = Output(o.key, from, sent)
  <2>1. \A o \in B : (o.key \notin failed) \in BOOLEAN
    OBVIOUS
  <2>. QED  BY <1>6, <2>1
<1>8. \A o, p \in B : o.key = p.key => o = p
  BY <1>6
<1>9. Round(B, ks, from)
  BY <1>4, <1>5, <1>6, <1>7, <1>8 DEF Round
<1>. QED  BY <1>1, <1>2, <1>9

\* The next round's numbers are higher.
LEMMA NumbersGrow ==
    ASSUME CTypeOK, Numbered, NEW B, IsFiniteSet(B), outputs' = outputs \cup B,
           \A o \in B : o.nr = Cardinality(outputs)
    PROVE  Numbered' /\ \A o \in outputs, p \in B : o.nr < p.nr
<1>1. IsFiniteSet(outputs')
  BY FS_Union DEF Numbered
<1>2. Cardinality(outputs) \in Nat /\ Cardinality(outputs') \in Nat
  BY <1>1, FS_CardinalityType DEF Numbered
<1>3. Cardinality(outputs) <= Cardinality(outputs')
  BY <1>1, FS_Subset
<1>4. B # {} => Cardinality(outputs) < Cardinality(outputs')
  <2>1. B # {} => outputs # outputs'
    BY <1>2 DEF Numbered
  <2>. QED  BY <1>1, <1>2, <1>3, <2>1, FS_Subset
<1>5. ASSUME NEW o \in outputs' PROVE o.nr < Cardinality(outputs')
  <2>1. CASE o \in B
    BY <1>4, <2>1
  <2>2. CASE o \in outputs
    <3>1. o.nr < Cardinality(outputs)
      BY <2>2 DEF Numbered
    <3>2. CASE B = {}
      BY <3>1, <3>2
    <3>3. CASE B # {}
      <4>1. o.nr \in Nat
        BY <2>2 DEF CTypeOK
      <4>. QED  BY <1>2, <1>4, <3>1, <3>3, <4>1
    <3>. QED  BY <3>2, <3>3
  <2>. QED  BY <2>1, <2>2
<1>. QED  BY <1>1, <1>5 DEF Numbered

-----------------------------------------------------------------------------
(* Reading a record. *)

\* Slot s of bucket k with the result of record i in it.
Holds(s, k, i) ==
    /\ s \in [a : 0..i, b : 0..i, t0 : 0..now] /\ Win(s.t0) = k[2]
    /\ \/ s.a = i /\ s.b = slots[k].b /\ topic[i].track = "a"
       \/ s.b = i /\ s.a = slots[k].a /\ topic[i].track = "b"

\* What Read does to the slot of the record's bucket, and to no other.
ReadInto(i, k, s) ==
    /\ i = position + 1 /\ i \in 1..Len(topic) /\ i \in Offsets
    /\ k \in Keys /\ k[2] = Win(now)
    /\ topic[i] \in Record /\ topic[i].target = k[1]
    /\ Holds(s, k, i)
    /\ position' = i /\ took' = [took EXCEPT ![i] = now]
    /\ slots' = [slots EXCEPT ![k] = IF Complete(s) THEN Empty ELSE s]
    /\ Complete(s) => \E B : /\ outputs' = outputs \cup B
                             /\ Round(B, {k}, [slots EXCEPT ![k] = s])
    /\ ~Complete(s) => outputs' = outputs
    /\ UNCHANGED <<now, topic, committed, life, lost>> /\ busy' = TRUE

LEMMA MergedHolds ==
    ASSUME CTypeOK, SlotsFit, NEW i \in 1..Len(topic), i = position + 1,
           NEW k \in Keys, k[2] = Win(now)
    PROVE  Holds(Merged(slots[k], i), k, i)
<1>. DEFINE base == IF slots[k] = Empty THEN [Empty EXCEPT !.t0 = now] ELSE slots[k]
<1>1. position \in Nat /\ now \in Nat /\ i \in Nat /\ topic[i] \in Record
  BY DEF CTypeOK
<1>2. /\ base \in [a : 0..position, b : 0..position, t0 : 0..now]
      /\ base.a = slots[k].a /\ base.b = slots[k].b /\ Win(base.t0) = k[2]
  <2>1. CASE slots[k] = Empty
    BY <1>1, <2>1 DEF Empty
  <2>2. CASE slots[k] # Empty
    <3>1. slots[k] \in [a : 0..position, b : 0..position, t0 : 0..now]
      BY DEF CTypeOK
    <3>2. Win(slots[k].t0) = k[2]
      BY <2>2 DEF SlotsFit
    <3>. QED  BY <2>2, <3>1, <3>2
  <2>. QED  BY <2>1, <2>2
<1>3. Merged(slots[k], i) = IF topic[i].track = "a" THEN [base EXCEPT !.a = i]
                                                    ELSE [base EXCEPT !.b = i]
  BY DEF Merged
<1>. HIDE DEF base
<1>4. topic[i].track \in {"a", "b"}
  BY <1>1 DEF Record, Tracks
<1>5. base \in [a : 0..i, b : 0..i, t0 : 0..now]
  BY <1>1, <1>2
<1>6. CASE topic[i].track = "a"
  BY SMTT(60), <1>1, <1>2, <1>3, <1>5, <1>6 DEF Holds
<1>7. CASE topic[i].track = "b"
  BY SMTT(60), <1>1, <1>2, <1>3, <1>5, <1>7 DEF Holds
<1>. QED  BY <1>4, <1>6, <1>7

LEMMA ReadStep ==
    ASSUME CTypeOK, SlotsFit, Read
    PROVE  \E i, k, s : ReadInto(i, k, s)
<1>. DEFINE i == position + 1
            k == BucketKey(topic[i].target, now)
            s == Merged(slots[k], i)
<1>1. i \in 1..Len(topic) /\ i \in Offsets /\ topic[i] \in Record
  BY DEF Read, CTypeOK, Offsets
<1>2. topic[i].target \in Targets /\ now \in 0..MaxTime
  BY <1>1 DEF Record, CTypeOK
<1>3. k \in Keys /\ k[1] = topic[i].target /\ k[2] = Win(now)
  BY <1>2, KeysOfNow
<1>4. Holds(s, k, i)
  BY <1>1, <1>3, MergedHolds
<1>5. /\ position' = i /\ took' = [took EXCEPT ![i] = now]
      /\ slots' = [slots EXCEPT ![k] = Left(s)]
      /\ Complete(s) => Publish({k}, [slots EXCEPT ![k] = s])
      /\ ~Complete(s) => outputs' = outputs
      /\ UNCHANGED <<now, topic, committed, life, lost>> /\ busy' = TRUE
  BY DEF Read
<1>. HIDE DEF i, k, s
<1>6. Complete(s) => \E B : /\ outputs' = outputs \cup B
                            /\ Round(B, {k}, [slots EXCEPT ![k] = s])
  BY <1>3, <1>5, Published
<1>7. i = position + 1
  BY DEF i
<1>. QED  BY <1>1, <1>3, <1>4, <1>5, <1>6, <1>7 DEF ReadInto, Left

\* The outputs of a read: of the bucket that is complete now.
LEMMA ReadOutputs ==
    ASSUME CTypeOK, NEW i, NEW k, NEW s, ReadInto(i, k, s)
    PROVE  \E B : /\ outputs' = outputs \cup B /\ IsFiniteSet(B)
                  /\ \A o \in B : /\ Complete(s) /\ o.key = k /\ o.a = s.a /\ o.b = s.b
                                  /\ o.nr = Cardinality(outputs) /\ o.life = life
                                  /\ o.sent \in BOOLEAN
                                  /\ o = [key |-> k, a |-> s.a, b |-> s.b, nr |-> o.nr,
                                          life |-> life, sent |-> o.sent]
                  /\ \A o, p \in B : o = p
                  /\ Complete(s) => B # {}
<1>1. CASE ~Complete(s)
  <2>1. outputs' = outputs \cup {}
    BY <1>1 DEF ReadInto
  <2>. QED  BY <1>1, <2>1, FS_EmptySet
<1>2. CASE Complete(s)
  <2>. DEFINE from == [slots EXCEPT ![k] = s]
  <2>1. PICK B : outputs' = outputs \cup B /\ Round(B, {k}, from)
    BY <1>2 DEF ReadInto
  <2>2. from[k] = s
    BY DEF ReadInto, CTypeOK
  <2>. HIDE DEF from
  <2>3. ASSUME NEW o \in B
        PROVE  /\ o.key = k /\ o.a = s.a /\ o.b = s.b
               /\ o.nr = Cardinality(outputs) /\ o.life = life /\ o.sent \in BOOLEAN
               /\ o = [key |-> k, a |-> s.a, b |-> s.b, nr |-> o.nr,
                       life |-> life, sent |-> o.sent]
    <3>1. o.key = k
      BY <2>1 DEF Round
    <3>2. PICK sent \in BOOLEAN : o = Output(k, from, sent)
      BY <2>1, <3>1 DEF Round
    <3>. QED  BY <2>2, <3>2 DEF Output
  <2>4. \A o, p \in B : o = p
    BY <2>1, <2>3 DEF Round
  <2>5. IsFiniteSet(B) /\ B # {}
    BY <2>1 DEF Round
  <2>. QED  BY <1>2, <2>1, <2>3, <2>4, <2>5
<1>. QED  BY <1>1, <1>2

LEMMA ReadTypes ==
    ASSUME CTypeOK, Numbered, NEW i, NEW k, NEW s, ReadInto(i, k, s)
    PROVE  CTypeOK'
<1>1. /\ position \in Nat /\ Len(topic) \in Nat /\ i \in Nat /\ now \in Nat
      /\ position <= i /\ i <= Len(topic) /\ Cardinality(outputs) \in Nat
  <2>1. Cardinality(outputs) \in Nat
    BY FS_CardinalityType DEF Numbered
  <2>. QED  BY <2>1 DEF CTypeOK, ReadInto
<1>2. s \in [a : 0..i, b : 0..i, t0 : 0..now]
  BY DEF ReadInto, Holds
<1>3. /\ \A l \in Keys : slots'[l] = IF l = k THEN IF Complete(s) THEN Empty ELSE s
                                     ELSE slots[l]
      /\ slots' = [l \in Keys |-> slots'[l]]
  BY DEF ReadInto, CTypeOK
<1>4. Empty \in [a : 0..i, b : 0..i, t0 : 0..now] /\ ~Complete(Empty)
  BY <1>1 DEF Empty, Complete
<1>5. \A l \in Keys : slots[l] \in [a : 0..i, b : 0..i, t0 : 0..now]
  BY <1>1 DEF CTypeOK
<1>6. \A l \in Keys : slots'[l] \in [a : 0..i, b : 0..i, t0 : 0..now] /\ ~Complete(slots'[l])
  BY <1>2, <1>3, <1>4, <1>5 DEF CTypeOK
<1>7. slots' \in [Keys -> [a : 0..position', b : 0..position', t0 : 0..now']]
  BY <1>3, <1>6 DEF ReadInto
<1>8. outputs' \subseteq [key : Keys, a : 0..Len(topic), b : 0..Len(topic),
                          nr : Nat, life : 1..life, sent : BOOLEAN]
  <2>1. PICK B : /\ outputs' = outputs \cup B
                 /\ \A o \in B : /\ o.nr = Cardinality(outputs) /\ o.sent \in BOOLEAN
                                 /\ o = [key |-> k, a |-> s.a, b |-> s.b, nr |-> o.nr,
                                         life |-> life, sent |-> o.sent]
    BY ReadOutputs
  <2>2. s.a \in 0..Len(topic) /\ s.b \in 0..Len(topic) /\ k \in Keys /\ life \in 1..life
    BY SMTT(60), <1>1, <1>2 DEF ReadInto, CTypeOK
  <2>. QED  BY SMTT(60), <1>1, <2>1, <2>2 DEF CTypeOK
<1>9. took' \in [Offsets -> 0..now']
  BY DEF ReadInto, CTypeOK
<1>10. position' \in 0..Len(topic) /\ committed \in 0..position'
  BY <1>1 DEF ReadInto, CTypeOK
<1>11. \A l \in Keys : ~Complete(slots'[l])
  BY <1>6
<1>12. busy' \in BOOLEAN
  BY DEF ReadInto
<1>13. UNCHANGED <<now, topic, committed, life, lost>>
  BY DEF ReadInto
<1>. QED  BY <1>7, <1>8, <1>9, <1>10, <1>11, <1>12, <1>13 DEF CTypeOK, Complete

\* What was read before keeps its bucket.
LEMMA ReadFits ==
    ASSUME CTypeOK, NEW i, NEW k, NEW s, ReadInto(i, k, s)
    PROVE  /\ \A j \in 1..position : \A tr, l : Fits(j, tr, l) => Fits(j, tr, l)'
           /\ s.a # 0 => \/ s.a = slots[k].a
                         \/ s.a = i /\ Fits(i, "a", k)'
           /\ s.b # 0 => \/ s.b = slots[k].b
                         \/ s.b = i /\ Fits(i, "b", k)'
<1>1. \A j \in 1..position : took'[j] = took[j] /\ j \in Offsets
  BY DEF ReadInto, CTypeOK, Offsets
<1>2. took'[i] = now /\ topic' = topic
  BY DEF ReadInto, CTypeOK
<1>3. topic[i] = [track |-> topic[i].track, target |-> k[1]]
  BY DEF ReadInto, Record
<1>4. Win(took'[i]) = k[2]
  BY <1>2 DEF ReadInto
<1>5. \A tr : topic[i].track = tr => Fits(i, tr, k)'
  BY <1>2, <1>3, <1>4 DEF Fits, Win
<1>6. \A j \in 1..position : \A tr, l : Fits(j, tr, l) => Fits(j, tr, l)'
  BY <1>1, <1>2 DEF Fits, Win
<1>. QED  BY <1>5, <1>6 DEF ReadInto, Holds

\* The slots after a read.
LEMMA ReadSlots ==
    ASSUME CTypeOK, NEW i, NEW k, NEW s, ReadInto(i, k, s)
    PROVE  /\ position \in Nat /\ i = position + 1 /\ position' = i
           /\ k \in Keys /\ s.a \in 0..i /\ s.b \in 0..i /\ s # Empty
           /\ \A l \in Keys : slots[l].a \in 0..position /\ slots[l].b \in 0..position
           /\ \A l \in Keys \ {k} : slots'[l] = slots[l]
           /\ slots'[k] = IF Complete(s) THEN Empty ELSE s
           /\ Empty.a = 0 /\ Empty.b = 0
<1>1. s # Empty
  BY DEF ReadInto, Holds, Empty, CTypeOK
<1>2. /\ \A l \in Keys \ {k} : slots'[l] = slots[l]
      /\ slots'[k] = IF Complete(s) THEN Empty ELSE s
  BY DEF ReadInto, CTypeOK
<1>3. /\ position \in Nat /\ i = position + 1 /\ position' = i
      /\ k \in Keys /\ s.a \in 0..i /\ s.b \in 0..i
  BY DEF ReadInto, Holds, CTypeOK
<1>4. \A l \in Keys : slots[l].a \in 0..position /\ slots[l].b \in 0..position
  BY DEF CTypeOK
<1>5. Empty.a = 0 /\ Empty.b = 0
  BY DEF Empty
<1>. QED  BY <1>1, <1>2, <1>3, <1>4, <1>5

LEMMA ReadSlotsFit ==
    ASSUME CTypeOK, SlotsFit, NEW i, NEW k, NEW s, ReadInto(i, k, s)
    PROVE  SlotsFit'
<1>. SUFFICES ASSUME NEW l \in Keys
              PROVE  /\ slots'[l].a # 0 => \A j : j = slots'[l].a => Fits(j, "a", l)'
                     /\ slots'[l].b # 0 => \A j : j = slots'[l].b => Fits(j, "b", l)'
                     /\ slots'[l] # Empty => Win(slots'[l].t0) = l[2]
  BY DEF SlotsFit, Empty, Fits, Win
<1>1. /\ slots[l].a # 0 => Fits(slots[l].a, "a", l) /\ slots[l].a \in 1..position
      /\ slots[l].b # 0 => Fits(slots[l].b, "b", l) /\ slots[l].b \in 1..position
  BY ReadSlots DEF SlotsFit
<1>2. CASE l # k
  <2>1. slots'[l] = slots[l]
    BY <1>2, ReadSlots
  <2>. QED  BY <1>1, <2>1, ReadFits DEF SlotsFit
<1>3. CASE l = k /\ Complete(s)
  <2>1. slots'[l] = Empty
    BY <1>3, ReadSlots
  <2>. QED  BY <2>1 DEF Empty
<1>4. CASE l = k /\ ~Complete(s)
  <2>1. slots'[l] = s
    BY <1>4, ReadSlots
  <2>2. Win(s.t0) = l[2]
    BY <1>4 DEF ReadInto, Holds
  <2>. QED  BY <1>1, <1>4, <2>1, <2>2, ReadFits
<1>. QED  BY <1>2, <1>3, <1>4

LEMMA ReadOutputsFit ==
    ASSUME CTypeOK, SlotsFit, OutputsFit, NEW i, NEW k, NEW s, ReadInto(i, k, s)
    PROVE  OutputsFit'
<1>1. PICK B : /\ outputs' = outputs \cup B
               /\ \A o \in B : o.key = k /\ o.a = s.a /\ o.b = s.b
  BY ReadOutputs
<1>2. life' = life /\ now' = now /\ k[2] = Win(now) /\ now \in Nat
  BY DEF ReadInto, CTypeOK
<1>. SUFFICES ASSUME NEW o \in outputs', o.life = life
              PROVE  /\ o.a <= i /\ o.b <= i /\ o.key[2] <= Win(now)
                     /\ o.a # 0 => Fits(o.a, "a", o.key)'
                     /\ o.b # 0 => Fits(o.b, "b", o.key)'
  BY <1>2, ReadSlots DEF OutputsFit, Win
<1>3. CASE o \in outputs
  <2>1. /\ o.a <= position /\ o.b <= position /\ o.key[2] <= Win(now)
        /\ o.a # 0 => Fits(o.a, "a", o.key)
        /\ o.b # 0 => Fits(o.b, "b", o.key)
    BY <1>3 DEF OutputsFit
  <2>2. o.a \in Nat /\ o.b \in Nat
    BY <1>3 DEF CTypeOK
  <2>3. /\ o.a # 0 => o.a \in 1..position
        /\ o.b # 0 => o.b \in 1..position
    BY <2>1, <2>2, ReadSlots
  <2>. QED  BY <2>1, <2>2, <2>3, ReadFits, ReadSlots
<1>4. CASE o \in B
  <2>1. o.key = k /\ o.a = s.a /\ o.b = s.b
    BY <1>1, <1>4
  <2>2. /\ slots[k].a # 0 => Fits(slots[k].a, "a", k) /\ slots[k].a \in 1..position
        /\ slots[k].b # 0 => Fits(slots[k].b, "b", k) /\ slots[k].b \in 1..position
    BY ReadSlots DEF SlotsFit
  <2>3. Win(now) \in Nat
    BY <1>2, Windows
  <2>4. s.a # 0 => Fits(s.a, "a", k)'
    BY <2>2, ReadFits
  <2>5. s.b # 0 => Fits(s.b, "b", k)'
    BY <2>2, ReadFits
  <2>. QED  BY <1>2, <2>1, <2>3, <2>4, <2>5, ReadSlots
<1>. QED  BY <1>1, <1>3, <1>4

\* A read publishes pairs only, and none for a bucket that half an output closed.
LEMMA ReadHalf ==
    ASSUME CTypeOK, Numbered, OutputsFit, HalfCloses,
           NEW i, NEW k, NEW s, ReadInto(i, k, s)
    PROVE  HalfCloses'
<1>1. PICK B : /\ outputs' = outputs \cup B
               /\ \A o \in B : /\ Complete(s) /\ o.key = k /\ o.a = s.a /\ o.b = s.b
                               /\ o.life = life
  BY ReadOutputs
<1>2. life' = life /\ now' = now /\ k[2] = Win(now) /\ now \in Nat /\ Win(now) \in Nat
  BY Windows DEF ReadInto, CTypeOK
<1>. SUFFICES ASSUME NEW o \in outputs', Half(o)
              PROVE  /\ o.life = life => o.key[2] < Win(now) /\ slots'[o.key] = Empty
                     /\ \A p \in outputs' : p.key = o.key /\ p.life = o.life /\ p # o
                                               => p.nr < o.nr
  BY <1>2 DEF HalfCloses, Win, Empty, Half
<1>3. o \in outputs
  BY <1>1 DEF Half, Complete
<1>4. o.life = life => o.key[2] < Win(now) /\ slots[o.key] = Empty
  BY <1>3 DEF HalfCloses
<1>5. o.life = life => o.key # k
  BY <1>2, <1>4
<1>6. o.key \in Keys
  BY <1>3 DEF CTypeOK
<1>7. o.life = life => slots'[o.key] = Empty
  BY <1>4, <1>5, <1>6, ReadSlots
<1>8. ASSUME NEW p \in outputs', p.key = o.key, p.life = o.life, p # o
      PROVE  p.nr < o.nr
  <2>1. p \in outputs
    BY <1>1, <1>5, <1>8
  <2>. QED  BY <1>3, <1>8, <2>1 DEF HalfCloses
<1>. QED  BY <1>4, <1>7, <1>8

\* The new pair is made of later results than the target's earlier ones, and what
\* stays in a slot is later still.
LEMMA ReadOrder ==
    ASSUME CTypeOK, Numbered, SlotsFit, OutputsFit, PairsInOrder, SlotsBehindPairs,
           NEW i, NEW k, NEW s, ReadInto(i, k, s)
    PROVE  PairsInOrder' /\ SlotsBehindPairs'
<1>1. PICK B : /\ outputs' = outputs \cup B /\ IsFiniteSet(B)
               /\ \A o \in B : /\ Complete(s) /\ o.key = k /\ o.a = s.a /\ o.b = s.b
                               /\ o.life = life /\ o.nr = Cardinality(outputs)
               /\ \A o, p \in B : o = p
  BY ReadOutputs
<1>2. life' = life /\ k[2] = Win(now) /\ Win(now) \in Nat
  BY Windows DEF ReadInto, CTypeOK
<1>3. \A o \in outputs, p \in B : o.nr < p.nr
  BY <1>1, NumbersGrow
\* The parts of an earlier pair of the target are older than both parts of s.
<1>4. ASSUME NEW o \in outputs, ~Half(o), o.life = life, o.key[1] = k[1],
             NEW j \in Parts(o)
      PROVE  /\ s.a # 0 => j < s.a
             /\ s.b # 0 => j < s.b
  <2>1. o.key[2] <= k[2]
    BY <1>2, <1>4 DEF OutputsFit
  <2>2. o.key[2] \in Nat
    <3>1. o.key \in Keys
      BY DEF CTypeOK
    <3>. QED  BY <3>1 DEF Keys
  <2>3. /\ slots[k].a # 0 => j < slots[k].a
        /\ slots[k].b # 0 => j < slots[k].b
    BY <1>2, <1>4, <2>1, <2>2, ReadSlots DEF SlotsBehindPairs
  <2>4. j <= position /\ j \in Nat
    BY <1>4 DEF OutputsFit, Parts, CTypeOK
  <2>5. j < i
    BY <2>4, ReadSlots
  <2>. QED  BY <2>3, <2>5 DEF ReadInto, Holds
<1>5. PairsInOrder'
  <2>. SUFFICES ASSUME NEW o \in outputs', NEW p \in outputs', ~Half(o), ~Half(p),
                       o.life = p.life, o.key[1] = p.key[1], o.nr < p.nr,
                       NEW j \in Parts(o), NEW l \in Parts(p)
                PROVE  j < l
    BY DEF PairsInOrder, Half, Parts
  <2>1. CASE o \in outputs /\ p \in outputs
    BY <2>1 DEF PairsInOrder, Half
  <2>2. CASE o \in outputs /\ p \in B
    <3>1. l \in {s.a, s.b} \ {0} /\ p.key = k /\ p.life = life
      BY <1>1, <2>2 DEF Parts
    <3>. QED  BY <1>4, <2>2, <3>1
  <2>3. CASE o \in B
    <3>1. p \in B => o = p
      BY <1>1, <2>3
    <3>2. o.nr \in Nat /\ p.nr \in Nat
      BY ReadTypes DEF CTypeOK
    <3>3. p \in outputs => p.nr < o.nr
      BY <1>3, <2>3
    <3>. QED  BY <1>1, <3>1, <3>2, <3>3
  <2>. QED  BY <1>1, <2>1, <2>2, <2>3
<1>6. SlotsBehindPairs'
  <2>. SUFFICES ASSUME NEW o \in outputs', ~Half(o), o.life = life,
                       NEW l \in Keys, l[1] = o.key[1], l[2] >= o.key[2],
                       NEW j \in Parts(o)
                PROVE  /\ slots'[l].a # 0 => j < slots'[l].a
                       /\ slots'[l].b # 0 => j < slots'[l].b
    BY <1>2 DEF SlotsBehindPairs, Half, Parts
  <2>1. CASE o \in outputs
    <3>1. /\ slots[l].a # 0 => j < slots[l].a
          /\ slots[l].b # 0 => j < slots[l].b
      BY <2>1 DEF SlotsBehindPairs
    <3>2. CASE l # k
      BY <3>1, <3>2, ReadSlots
    <3>3. CASE l = k
      BY <1>4, <2>1, <3>3, ReadSlots
    <3>. QED  BY <3>2, <3>3
  <2>2. CASE o \in B
    <3>1. o.key = k /\ Complete(s)
      BY <1>1, <2>2
    <3>2. CASE l = k
      BY <3>1, <3>2, ReadSlots
    <3>3. CASE l # k
      <4>1. slots'[l] = slots[l]
        BY <3>3, ReadSlots
      <4>2. l[2] \in Nat /\ l[2] # k[2] /\ l[2] >= k[2]
        BY <3>1, <3>3, ReadSlots DEF Keys
      <4>3. slots[l] # Empty => Win(slots[l].t0) <= Win(now)
        BY Windows DEF CTypeOK
      <4>4. slots[l] = Empty
        BY <1>2, <4>2, <4>3 DEF SlotsFit
      <4>. QED  BY <4>1, <4>4, ReadSlots
    <3>. QED  BY <3>2, <3>3
  <2>. QED  BY <1>1, <2>1, <2>2
<1>. QED  BY <1>5, <1>6

LEMMA ReadAccounted ==
    ASSUME CTypeOK, SlotsFit, ResultsAccounted, NEW i, NEW k, NEW s, ReadInto(i, k, s)
    PROVE  ResultsAccounted'
<1>1. PICK B : /\ outputs' = outputs \cup B
               /\ \A o \in B : o.a = s.a /\ o.b = s.b
               /\ Complete(s) => B # {}
  BY ReadOutputs
\* What s holds is in the slot still, or was published just now.
<1>2. ASSUME NEW j \in {s.a, s.b} PROVE InSlot(j)' \/ Emitted(j)'
  <2>1. CASE Complete(s)
    BY <1>1, <2>1 DEF Emitted
  <2>2. CASE ~Complete(s)
    BY <2>2, ReadSlots DEF InSlot
  <2>. QED  BY <2>1, <2>2
<1>3. /\ \A j \in 1..position : took'[j] = took[j]
      /\ took'[i] = now /\ topic' = topic /\ lost' = lost
  BY DEF ReadInto, CTypeOK, Offsets
<1>4. position \in Nat /\ i = position + 1 /\ position' = i
  BY ReadSlots
<1>. SUFFICES ASSUME NEW j \in 1..i
              PROVE  InSlot(j)' \/ Emitted(j)' \/ Superseded(j)' \/ j \in lost
  BY <1>3, <1>4 DEF ResultsAccounted, InSlot, Emitted, Superseded
<1>5. CASE j = i
  BY <1>2, <1>5 DEF ReadInto, Holds
<1>6. CASE j \in 1..position /\ Emitted(j)
  BY <1>1, <1>6 DEF Emitted
<1>7. CASE j \in 1..position /\ Superseded(j)
  <2>1. PICK l \in j+1..position :
            topic[l] = topic[j] /\ took[l] \div Window = took[j] \div Window
    BY <1>7 DEF Superseded
  <2>2. l \in j+1..i /\ l \in 1..position
    BY <1>4, <1>7, <2>1
  <2>. QED  BY <1>3, <1>4, <1>7, <2>1, <2>2 DEF Superseded
<1>8. CASE j \in 1..position /\ InSlot(j)
  <2>1. PICK l \in Keys : j \in {slots[l].a, slots[l].b}
    BY <1>8 DEF InSlot
  <2>2. CASE l # k
    BY <2>1, <2>2, ReadSlots DEF InSlot
  <2>3. CASE l = k /\ j \in {s.a, s.b}
    BY <1>2, <2>3
  <2>4. CASE l = k /\ j \notin {s.a, s.b}
    <3>1. j # 0
      BY <1>8
    <3>2. \E tr : Fits(j, tr, k) /\ topic[i].track = tr
      <4>1. \/ s.a = i /\ j = slots[k].a /\ topic[i].track = "a"
            \/ s.b = i /\ j = slots[k].b /\ topic[i].track = "b"
        BY <2>1, <2>4 DEF ReadInto, Holds
      <4>. QED  BY <2>4, <3>1, <4>1, ReadSlots DEF SlotsFit
    <3>3. PICK tr : Fits(j, tr, k) /\ topic[i].track = tr
      BY <3>2
    <3>4. topic[i] = [track |-> tr, target |-> k[1]]
      BY <3>3 DEF ReadInto, Record
    <3>5. topic[i] = topic[j] /\ Win(now) = Win(took[j])
      BY <3>3, <3>4 DEF Fits, ReadInto
    <3>6. took'[j] = took[j] /\ i \in j+1..i
      BY <1>3, <1>4, <1>8
    <3>. QED  BY <1>3, <1>4, <3>5, <3>6 DEF Superseded, Win
  <2>. QED  BY <2>2, <2>3, <2>4
<1>9. j = i \/ j \in 1..position
  BY <1>4
<1>. QED  BY <1>5, <1>6, <1>7, <1>8, <1>9 DEF ResultsAccounted

LEMMA ReadKeeps == CoalescerInv /\ Read => CoalescerInv'
<1>. SUFFICES ASSUME CoalescerInv, Read PROVE CoalescerInv'
  OBVIOUS
<1>. USE DEF CoalescerInv
<1>1. PICK i, k, s : ReadInto(i, k, s)
  BY ReadStep
<1>2. Numbered'
  <2>1. PICK B : /\ outputs' = outputs \cup B /\ IsFiniteSet(B)
                 /\ \A o \in B : o.nr = Cardinality(outputs)
    BY <1>1, ReadOutputs
  <2>. QED  BY <2>1, NumbersGrow
<1>3. CTypeOK' /\ SlotsFit' /\ OutputsFit'
  BY <1>1, ReadTypes, ReadSlotsFit, ReadOutputsFit
<1>4. HalfCloses' /\ PairsInOrder' /\ SlotsBehindPairs' /\ ResultsAccounted'
  BY <1>1, ReadHalf, ReadOrder, ReadAccounted
<1>. QED  BY <1>2, <1>3, <1>4

-----------------------------------------------------------------------------
(* Flushing. *)

StaleKeys == { k \in Keys : Stale(k) }

FlushInto(B) ==
    /\ outputs' = outputs \cup B /\ IsFiniteSet(B)
    /\ \A k \in StaleKeys : \E o \in B : o.key = k
    /\ \A o \in B : /\ o.key \in StaleKeys /\ o.sent \in BOOLEAN
                    /\ o.a = slots[o.key].a /\ o.b = slots[o.key].b
                    /\ o.nr = Cardinality(outputs) /\ o.life = life
                    /\ o = [key |-> o.key, a |-> slots[o.key].a, b |-> slots[o.key].b,
                            nr |-> o.nr, life |-> life, sent |-> o.sent]
    /\ \A o, p \in B : o.key = p.key => o = p
    /\ slots' = [k \in Keys |-> IF k \in StaleKeys THEN Empty ELSE slots[k]]
    /\ UNCHANGED <<now, topic, busy, position, committed, life, took, lost>>

LEMMA FlushStep == FlushStale => \E B : FlushInto(B)
<1>. SUFFICES ASSUME FlushStale PROVE \E B : FlushInto(B)
  OBVIOUS
<1>1. /\ Publish(StaleKeys, slots)
      /\ slots' = [k \in Keys |-> IF k \in StaleKeys THEN Empty ELSE slots[k]]
      /\ UNCHANGED <<now, topic, busy, position, committed, life, took, lost>>
  BY DEF FlushStale, StaleKeys
<1>2. StaleKeys \in SUBSET Keys
  BY DEF StaleKeys
<1>3. PICK B : outputs' = outputs \cup B /\ Round(B, StaleKeys, slots)
  BY <1>1, <1>2, Published
<1>4. ASSUME NEW o \in B
      PROVE  /\ o.sent \in BOOLEAN /\ o.a = slots[o.key].a /\ o.b = slots[o.key].b
             /\ o.nr = Cardinality(outputs) /\ o.life = life
             /\ o = [key |-> o.key, a |-> slots[o.key].a, b |-> slots[o.key].b,
                     nr |-> o.nr, life |-> life, sent |-> o.sent]
  <2>1. PICK sent \in BOOLEAN : o = Output(o.key, slots, sent)
    BY <1>3 DEF Round
  <2>. QED  BY <2>1 DEF Output
<1>. QED  BY <1>1, <1>3, <1>4 DEF FlushInto, Round

\* A stale slot holds one half of a bucket that is over.
LEMMA StaleIsOver ==
    ASSUME CTypeOK, SlotsFit, NEW k \in StaleKeys
    PROVE  /\ k \in Keys /\ slots[k] # Empty /\ k[2] < Win(now)
           /\ slots[k].a = 0 \/ slots[k].b = 0
           /\ slots[k].a \in 0..position /\ slots[k].b \in 0..position
<1>1. k \in Keys /\ slots[k] # Empty /\ now - slots[k].t0 >= Window
  BY DEF StaleKeys, Stale
<1>2. slots[k].t0 \in Nat /\ now \in Nat /\ slots[k].t0 + Window <= now
  BY <1>1 DEF CTypeOK
<1>3. Win(slots[k].t0) = k[2]
  BY <1>1 DEF SlotsFit
<1>4. slots[k].a \in 0..position /\ slots[k].b \in 0..position
  BY <1>1 DEF CTypeOK
<1>5. slots[k].a = 0 \/ slots[k].b = 0
  BY <1>1 DEF CTypeOK, Complete
<1>. QED  BY <1>1, <1>2, <1>3, <1>4, <1>5, Windows

LEMMA FlushKeeps == CoalescerInv /\ FlushStale => CoalescerInv'
<1>. SUFFICES ASSUME CoalescerInv, FlushStale PROVE CoalescerInv'
  OBVIOUS
<1>. USE DEF CoalescerInv
<1>1. PICK B : FlushInto(B)
  BY FlushStep
<1>2. /\ outputs' = outputs \cup B
      /\ UNCHANGED <<now, topic, position, committed, life, took, lost>>
  BY <1>1 DEF FlushInto
<1>3. /\ \A k \in Keys : slots'[k] = Empty \/ slots'[k] = slots[k]
      /\ \A k \in StaleKeys : slots'[k] = Empty
      /\ \A k \in Keys \ StaleKeys : slots'[k] = slots[k]
      /\ slots' = [k \in Keys |-> slots'[k]]
  BY <1>1 DEF FlushInto, StaleKeys
<1>4. Empty.a = 0 /\ Empty.b = 0 /\ ~Complete(Empty)
  BY DEF Empty, Complete
<1>5. Numbered' /\ \A o \in outputs, p \in B : o.nr < p.nr
  BY <1>1, NumbersGrow DEF FlushInto
<1>6. ASSUME NEW o \in B
      PROVE  /\ o.key \in StaleKeys /\ o.life = life
             /\ o.a = slots[o.key].a /\ o.b = slots[o.key].b /\ Half(o)
  BY <1>1, StaleIsOver DEF FlushInto, Half
<1>7. CTypeOK'
  <2>1. slots' \in [Keys -> [a : 0..position, b : 0..position, t0 : 0..now]]
    <3>1. Empty \in [a : 0..position, b : 0..position, t0 : 0..now]
      BY DEF CTypeOK, Empty
    <3>. QED  BY <1>3, <3>1 DEF CTypeOK
  <2>2. ASSUME NEW o \in B
        PROVE  o \in [key : Keys, a : 0..Len(topic), b : 0..Len(topic),
                      nr : Nat, life : 1..life, sent : BOOLEAN]
    <3>1. /\ o = [key |-> o.key, a |-> slots[o.key].a, b |-> slots[o.key].b,
                  nr |-> Cardinality(outputs), life |-> life, sent |-> o.sent]
          /\ o.sent \in BOOLEAN
      BY <1>1 DEF FlushInto
    <3>2. /\ o.key \in Keys /\ slots[o.key].a \in 0..position
          /\ slots[o.key].b \in 0..position
      BY <1>6, StaleIsOver
    <3>3. position \in 0..Len(topic) /\ life \in 1..life /\ Len(topic) \in Nat
      BY DEF CTypeOK
    <3>4. Cardinality(outputs) \in Nat
      BY FS_CardinalityType DEF Numbered
    <3>5. slots[o.key].a \in 0..Len(topic) /\ slots[o.key].b \in 0..Len(topic)
      BY <3>2, <3>3
    <3>. QED  BY <3>1, <3>2, <3>3, <3>4, <3>5
  <2>3. \A k \in Keys : ~Complete(slots'[k])
    BY <1>3, <1>4 DEF CTypeOK
  <2>4. busy' \in BOOLEAN
    BY <1>1 DEF FlushInto, CTypeOK
  <2>. QED  BY <1>2, <2>1, <2>2, <2>3, <2>4 DEF CTypeOK, Complete
<1>8. SlotsFit'
  <2>1. \A j, tr, k : Fits(j, tr, k)' <=> Fits(j, tr, k)
    BY <1>2 DEF Fits, Win
  <2>. SUFFICES ASSUME NEW k \in Keys
                PROVE  /\ slots'[k].a # 0 => \A j : j = slots'[k].a => Fits(j, "a", k)'
                       /\ slots'[k].b # 0 => \A j : j = slots'[k].b => Fits(j, "b", k)'
                       /\ slots'[k] # Empty => Win(slots'[k].t0) = k[2]
    BY DEF SlotsFit, Empty, Fits, Win
  <2>. QED  BY <1>3, <1>4, <2>1 DEF SlotsFit
<1>9. OutputsFit'
  <2>1. \A j, tr, k : Fits(j, tr, k)' <=> Fits(j, tr, k)
    BY <1>2 DEF Fits, Win
  <2>. SUFFICES ASSUME NEW o \in outputs', o.life = life
                PROVE  /\ o.a <= position /\ o.b <= position /\ o.key[2] <= Win(now)
                       /\ o.a # 0 => Fits(o.a, "a", o.key)
                       /\ o.b # 0 => Fits(o.b, "b", o.key)
    BY <1>2, <2>1 DEF OutputsFit, Win
  <2>2. CASE o \in outputs
    BY <2>2 DEF OutputsFit
  <2>3. CASE o \in B
    <3>1. /\ o.key \in Keys /\ o.key[2] < Win(now)
          /\ o.a \in 0..position /\ o.b \in 0..position
      BY <1>6, <2>3, StaleIsOver
    <3>2. o.key[2] \in Nat /\ Win(now) \in Nat
      <4>1. o.key[2] \in Nat
        BY <3>1 DEF Keys
      <4>2. now \in Nat
        BY DEF CTypeOK
      <4>. QED  BY <4>1, <4>2, Windows
    <3>3. position \in Nat
      BY DEF CTypeOK
    <3>4. o.a <= position /\ o.b <= position /\ o.key[2] <= Win(now)
      BY <3>1, <3>2, <3>3
    <3>. QED  BY <1>6, <2>3, <3>1, <3>4 DEF SlotsFit
  <2>. QED  BY <1>2, <2>2, <2>3
<1>10. HalfCloses'
  <2>. SUFFICES ASSUME NEW o \in outputs', Half(o)
                PROVE  /\ o.life = life => o.key[2] < Win(now) /\ slots'[o.key] = Empty
                       /\ \A p \in outputs' : p.key = o.key /\ p.life = o.life /\ p # o
                                                 => p.nr < o.nr
    BY <1>2 DEF HalfCloses, Win, Empty, Half
  <2>1. CASE o \in outputs
    <3>1. o.life = life => o.key[2] < Win(now) /\ slots[o.key] = Empty
      BY <2>1 DEF HalfCloses
    <3>2. o.key \in Keys
      BY <2>1 DEF CTypeOK
    <3>3. \A p \in B : p.life = o.life => p.key # o.key
      BY <1>6, <3>1, StaleIsOver
    <3>4. \A p \in outputs : p.key = o.key /\ p.life = o.life /\ p # o => p.nr < o.nr
      BY <2>1 DEF HalfCloses
    <3>. QED  BY <1>2, <1>3, <3>1, <3>2, <3>3, <3>4
  <2>2. CASE o \in B
    <3>1. o.key[2] < Win(now) /\ slots'[o.key] = Empty
      BY <1>3, <1>6, <2>2, StaleIsOver
    <3>2. \A p \in B : p.key = o.key => p = o
      BY <1>1, <2>2 DEF FlushInto
    <3>. QED  BY <1>2, <1>5, <2>2, <3>1, <3>2
  <2>. QED  BY <1>2, <2>1, <2>2
<1>11. PairsInOrder'
  <2>1. { x \in outputs' : x.a # 0 /\ x.b # 0 } = { x \in outputs : x.a # 0 /\ x.b # 0 }
    BY <1>2, <1>6 DEF Half
  <2>. QED  BY <2>1 DEF PairsInOrder, Parts
<1>12. SlotsBehindPairs'
  <2>1. \A o \in outputs' : ~Half(o) => o \in outputs
    BY <1>2, <1>6
  <2>. SUFFICES ASSUME NEW o \in outputs, ~Half(o), o.life = life,
                       NEW k \in Keys, k[1] = o.key[1], k[2] >= o.key[2],
                       NEW i \in Parts(o)
                PROVE  /\ slots'[k].a # 0 => i < slots'[k].a
                       /\ slots'[k].b # 0 => i < slots'[k].b
    BY <1>2, <2>1 DEF SlotsBehindPairs, Half, Parts
  <2>2. /\ slots[k].a # 0 => i < slots[k].a
        /\ slots[k].b # 0 => i < slots[k].b
    BY DEF SlotsBehindPairs
  <2>. QED  BY <1>3, <1>4, <2>2
<1>13. ResultsAccounted'
  <2>. SUFFICES ASSUME NEW i \in 1..position
                PROVE  InSlot(i)' \/ Emitted(i)' \/ Superseded(i) \/ i \in lost
    BY <1>2 DEF ResultsAccounted, InSlot, Emitted, Superseded
  <2>1. CASE InSlot(i)
    <3>1. PICK k \in Keys : i \in {slots[k].a, slots[k].b}
      BY <2>1 DEF InSlot
    <3>2. CASE k \notin StaleKeys
      BY <1>3, <3>1, <3>2 DEF InSlot
    <3>3. CASE k \in StaleKeys
      <4>1. PICK o \in B : o.key = k
        BY <1>1, <3>3 DEF FlushInto
      <4>2. i \in {o.a, o.b}
        BY <1>6, <3>1, <4>1
      <4>. QED  BY <1>2, <4>2 DEF Emitted
    <3>. QED  BY <3>2, <3>3
  <2>2. CASE Emitted(i)
    BY <1>2, <2>2 DEF Emitted
  <2>. QED  BY <2>1, <2>2 DEF ResultsAccounted
<1>. QED  BY <1>5, <1>7, <1>8, <1>9, <1>10, <1>11, <1>12, <1>13

-----------------------------------------------------------------------------
(* The other actions. *)

LEMMA InitiallyNothing == CInit => CoalescerInv
<1>. SUFFICES ASSUME CInit PROVE CoalescerInv
  OBVIOUS
<1>. USE DEF CInit
<1>1. CTypeOK
  <2>1. slots \in [Keys -> [a : 0..position, b : 0..position, t0 : 0..now]]
    BY DEF Empty
  <2>2. \A k \in Keys : ~Complete(slots[k])
    BY DEF Empty, Complete
  <2>3. took \in [Offsets -> 0..now]
    OBVIOUS
  <2>4. topic \in Seq(Record) /\ Len(topic) = 0
    OBVIOUS
  <2>5. busy \in BOOLEAN
    OBVIOUS
  <2>. QED  BY <2>1, <2>2, <2>3, <2>4, <2>5 DEF CTypeOK
<1>2. SlotsFit
  BY DEF SlotsFit, Empty
<1>3. OutputsFit /\ HalfCloses /\ PairsInOrder /\ SlotsBehindPairs
  BY DEF OutputsFit, HalfCloses, PairsInOrder, SlotsBehindPairs
<1>4. Numbered
  BY FS_EmptySet DEF Numbered
<1>5. ResultsAccounted
  BY DEF ResultsAccounted
<1>. QED  BY <1>1, <1>2, <1>3, <1>4, <1>5 DEF CoalescerInv

LEMMA ProduceKeeps ==
    ASSUME CoalescerInv, NEW r \in Record, Produce(r)
    PROVE  CoalescerInv'
<1>. USE DEF CoalescerInv
<1>1. /\ topic' = Append(topic, r) /\ Len(topic) < MaxRecords
      /\ UNCHANGED <<now, busy, position, committed, slots, outputs, life, took, lost>>
  BY DEF Produce
<1>2. /\ topic \in Seq(Record) /\ Len(topic) \in Nat /\ position \in 0..Len(topic)
      /\ topic' \in Seq(Record) /\ Len(topic') = Len(topic) + 1
      /\ \A i \in 1..position : topic'[i] = topic[i]
  BY <1>1 DEF CTypeOK
<1>3. CTypeOK'
  BY <1>1, <1>2 DEF CTypeOK, Complete
<1>4. \A i \in 1..position : \A tr, k : Fits(i, tr, k) => Fits(i, tr, k)'
  BY <1>1, <1>2 DEF Fits, Win
<1>5. SlotsFit'
  <2>. SUFFICES ASSUME NEW k \in Keys
                PROVE  /\ slots[k].a # 0 => \A j : j = slots[k].a => Fits(j, "a", k)'
                       /\ slots[k].b # 0 => \A j : j = slots[k].b => Fits(j, "b", k)'
                       /\ slots[k] # Empty => Win(slots[k].t0) = k[2]
    BY <1>1 DEF SlotsFit, Empty, Fits, Win
  <2>1. slots[k].a \in 0..position /\ slots[k].b \in 0..position
    BY DEF CTypeOK
  <2>2. /\ slots[k].a # 0 => slots[k].a \in 1..position
        /\ slots[k].b # 0 => slots[k].b \in 1..position
    BY <1>2, <2>1
  <2>. QED  BY <1>4, <2>2 DEF SlotsFit
<1>6. OutputsFit'
  <2>. SUFFICES ASSUME NEW o \in outputs, o.life = life
                PROVE  /\ o.a <= position /\ o.b <= position /\ o.key[2] <= Win(now)
                       /\ o.a # 0 => Fits(o.a, "a", o.key)'
                       /\ o.b # 0 => Fits(o.b, "b", o.key)'
    BY <1>1 DEF OutputsFit, Fits, Win
  <2>1. /\ o.a <= position /\ o.b <= position /\ o.key[2] <= Win(now)
        /\ o.a # 0 => Fits(o.a, "a", o.key)
        /\ o.b # 0 => Fits(o.b, "b", o.key)
    BY DEF OutputsFit
  <2>2. o.a \in Nat /\ o.b \in Nat
    BY DEF CTypeOK
  <2>. QED  BY <1>2, <1>4, <2>1, <2>2
<1>7. HalfCloses' /\ PairsInOrder' /\ SlotsBehindPairs' /\ Numbered'
  BY <1>1 DEF HalfCloses, PairsInOrder, SlotsBehindPairs, Numbered, Half, Parts, Win, Empty
<1>8. ResultsAccounted'
  <2>1. \A i, j \in 1..position : topic[i] = topic[j] => topic'[i] = topic'[j]
    BY <1>2
  <2>2. \A i \in 1..position : Superseded(i) => Superseded(i)'
    <3>. SUFFICES ASSUME NEW i \in 1..position, Superseded(i)
                  PROVE  Superseded(i)'
      OBVIOUS
    <3>1. PICK j \in i+1..position :
              topic[j] = topic[i] /\ took[j] \div Window = took[i] \div Window
      BY DEF Superseded
    <3>2. j \in 1..position
      BY <1>2
    <3>. QED  BY <1>1, <2>1, <3>1, <3>2 DEF Superseded
  <2>. QED  BY <1>1, <2>2 DEF ResultsAccounted, InSlot, Emitted
<1>. QED  BY <1>3, <1>5, <1>6, <1>7, <1>8

LEMMA TickKeeps == CoalescerInv /\ Tick => CoalescerInv'
<1>. SUFFICES ASSUME CoalescerInv, Tick PROVE CoalescerInv'
  OBVIOUS
<1>. USE DEF CoalescerInv
<1>1. /\ now < MaxTime /\ now' = now + 1 /\ busy' = FALSE
      /\ UNCHANGED <<topic, position, committed, slots, outputs, life, took, lost>>
  BY DEF Tick
<1>2. now \in Nat /\ now' \in 0..MaxTime /\ now <= now'
  BY <1>1 DEF CTypeOK
<1>3. CTypeOK'
  <2>1. slots \in [Keys -> [a : 0..position, b : 0..position, t0 : 0..now']]
    BY <1>2 DEF CTypeOK
  <2>2. took \in [Offsets -> 0..now']
    BY <1>2 DEF CTypeOK
  <2>3. busy' \in BOOLEAN
    BY <1>1
  <2>. QED  BY <1>1, <1>2, <2>1, <2>2, <2>3 DEF CTypeOK, Complete
<1>4. Win(now) <= Win(now') /\ Win(now) \in Nat /\ Win(now') \in Nat
  BY <1>2, Windows
<1>5. \A o \in outputs : o.key[2] \in Nat
  BY DEF CTypeOK, Keys
<1>6. SlotsFit' /\ Numbered' /\ PairsInOrder' /\ SlotsBehindPairs'
  BY <1>1 DEF SlotsFit, Fits, Numbered, PairsInOrder, SlotsBehindPairs, Half, Parts, Win,
              Empty
<1>7. OutputsFit'
  <2>1. \A o \in outputs : o.key[2] <= Win(now) => o.key[2] <= Win(now')
    BY <1>4, <1>5
  <2>. QED  BY <1>1, <2>1 DEF OutputsFit, Fits, Win
<1>8. HalfCloses'
  <2>1. \A o \in outputs : o.key[2] < Win(now) => o.key[2] < Win(now')
    BY <1>4, <1>5
  <2>. QED  BY <1>1, <2>1 DEF HalfCloses, Half, Win, Empty
<1>9. ResultsAccounted'
  BY <1>1 DEF ResultsAccounted, InSlot, Emitted, Superseded
<1>. QED  BY <1>3, <1>6, <1>7, <1>8, <1>9

\* Nothing published before belongs to the new life, and what was not published is lost.
LEMMA RestartKeeps == CoalescerInv /\ Restart => CoalescerInv'
<1>. SUFFICES ASSUME CoalescerInv, Restart PROVE CoalescerInv'
  OBVIOUS
<1>. USE DEF CoalescerInv
<1>1. /\ life < MaxLives /\ life' = life + 1 /\ busy' = FALSE
      /\ committed' \in committed..position
      /\ position' = IF committed' = 0 THEN Len(topic) ELSE committed'
      /\ lost' = lost \cup { i \in 1..position' : ~Emitted(i) }
      /\ slots' = [k \in Keys |-> Empty]
      /\ UNCHANGED <<now, topic, outputs, took>>
  BY DEF Restart
<1>2. /\ Len(topic) \in Nat /\ Len(topic) <= MaxRecords /\ position \in 0..Len(topic)
      /\ committed \in 0..position /\ life \in 1..MaxLives
      /\ \A o \in outputs : o.life \in 1..life
  BY DEF CTypeOK
<1>3. /\ committed' \in Nat /\ committed' <= position' /\ position' \in 0..Len(topic)
      /\ life' \in 1..MaxLives
  BY <1>1, <1>2
<1>4. CTypeOK'
  <2>1. slots' \in [Keys -> [a : 0..position', b : 0..position', t0 : 0..now]]
    BY <1>1, <1>3 DEF Empty, CTypeOK
  <2>2. \A k \in Keys : ~Complete(slots'[k])
    BY <1>1 DEF Empty, Complete
  <2>3. lost' \subseteq Offsets
    <3>1. 1..position' \subseteq Offsets
      BY <1>2, <1>3 DEF Offsets
    <3>. QED  BY <1>1, <3>1 DEF CTypeOK
  <2>4. outputs' \subseteq [key : Keys, a : 0..Len(topic), b : 0..Len(topic),
                            nr : Nat, life : 1..life', sent : BOOLEAN]
    BY <1>1, <1>2 DEF CTypeOK
  <2>5. committed' \in 0..position'
    BY <1>2, <1>3
  <2>6. busy' \in BOOLEAN
    BY <1>1
  <2>. QED  BY <1>1, <1>3, <2>1, <2>2, <2>3, <2>4, <2>5, <2>6 DEF CTypeOK, Complete
<1>5. \A o \in outputs' : o.life # life'
  BY <1>1, <1>2
<1>6. SlotsFit'
  BY <1>1 DEF SlotsFit, Empty
<1>7. OutputsFit' /\ SlotsBehindPairs'
  BY <1>5 DEF OutputsFit, SlotsBehindPairs
<1>8. HalfCloses' /\ Numbered' /\ PairsInOrder'
  BY <1>1, <1>5 DEF HalfCloses, Half, Numbered, PairsInOrder, Parts
<1>9. ResultsAccounted'
  BY <1>1 DEF ResultsAccounted, Emitted
<1>. QED  BY <1>4, <1>6, <1>7, <1>8, <1>9

-----------------------------------------------------------------------------
\* Buckets, outputs and reading position fit together: the inductive invariant
\* behind the theorems below.
THEOREM CoalescerInvariant == CSpec => []CoalescerInv
<1>1. CoalescerInv /\ [CNext]_cvars => CoalescerInv'
  <2>. SUFFICES ASSUME CoalescerInv, [CNext]_cvars PROVE CoalescerInv'
    OBVIOUS
  <2>1. CASE UNCHANGED cvars
    <3>. USE <2>1 DEF cvars, CoalescerInv
    <3>1. CTypeOK'
      BY DEF CTypeOK, Complete
    <3>2. SlotsFit' /\ OutputsFit' /\ HalfCloses' /\ Numbered'
      BY DEF SlotsFit, OutputsFit, HalfCloses, Numbered, Fits, Half, Win, Empty
    <3>3. PairsInOrder' /\ SlotsBehindPairs' /\ ResultsAccounted'
      BY DEF PairsInOrder, SlotsBehindPairs, ResultsAccounted, Parts, Half, InSlot,
             Emitted, Superseded
    <3>. QED  BY <3>1, <3>2, <3>3
  <2>2. CASE CNext
    BY <2>2, ReadKeeps, FlushKeeps, ProduceKeeps, TickKeeps, RestartKeeps DEF CNext
  <2>. QED  BY <2>1, <2>2
<1>. QED  BY InitiallyNothing, <1>1, PTL DEF CSpec

\* Variables keep their types; no slot ever keeps both halves.
THEOREM CoalescerTypes == CSpec => []CTypeOK
BY CoalescerInvariant, PTL DEF CoalescerInv

\* Both results of an output are of one target and one window, one of each track.
THEOREM PairsBelong == CSpec => []PairsBelongTogether
<1>1. CoalescerInv => PairsBelongTogether
  BY DEF CoalescerInv, OutputsFit, Fits, Win, PairsBelongTogether
<1>. QED  BY CoalescerInvariant, <1>1, PTL

\* Half an output is published only when its other half can no longer come.
THEOREM HalvesAreFinal == CSpec => []HalfMeansClosed
<1>1. CoalescerInv => HalfMeansClosed
  BY DEF CoalescerInv, HalfCloses, Half, Win, HalfMeansClosed
<1>. QED  BY CoalescerInvariant, <1>1, PTL

\* Pairs of a target reach the topic in the order of their results.
THEOREM PairsAreOrdered == CSpec => []PairsInOrder
BY CoalescerInvariant, PTL DEF CoalescerInv

\* No result vanishes: it waits, was published, replaced, or lost with the process.
THEOREM NothingVanishes == CSpec => []ResultsAccounted
BY CoalescerInvariant, PTL DEF CoalescerInv

-----------------------------------------------------------------------------
(* The coalescer hands over once. *)

\* A result waits in one bucket only.
LEMMA OneBucket ==
    ASSUME SlotsFit, NEW k \in Keys, NEW l \in Keys, NEW j, j # 0,
           j \in {slots[k].a, slots[k].b}, j \in {slots[l].a, slots[l].b}
    PROVE  k = l
<1>1. (\E tr : Fits(j, tr, k)) /\ (\E tr : Fits(j, tr, l))
  BY DEF SlotsFit
<1>2. k[1] = l[1] /\ k[2] = l[2]
  BY <1>1 DEF Fits
<1>. QED  BY <1>2 DEF Keys

\* What is neither held any more nor handed over was given up.
LEMMA Moves ==
    ASSUME NEW in \in H!Arriving, NEW out \in SUBSET (HeldNow \cup in),
           HeldNow' \subseteq HeldNow \cup in, out \cap HeldNow' = {},
           HandedOver' = HandedOver \cup out
    PROVE  H!HandNext
<1>. DEFINE drop == (HeldNow \cup in) \ (HeldNow' \cup out)
<1>1. HeldNow' = (HeldNow \cup in) \ (out \cup drop)
  OBVIOUS
<1>2. H!Move(in, out, drop) /\ drop \in SUBSET (HeldNow \cup in)
  BY <1>1 DEF H!Move
<1>. HIDE DEF drop
<1>. QED  BY <1>2 DEF H!HandNext

LEMMA ReadMoves == CoalescerInv /\ Read => H!HandNext
<1>. SUFFICES ASSUME CoalescerInv, Read PROVE H!HandNext
  OBVIOUS
<1>. USE DEF CoalescerInv
<1>1. PICK i, k, s : ReadInto(i, k, s)
  BY ReadStep
<1>2. PICK B : /\ outputs' = outputs \cup B
               /\ \A o \in B : Complete(s) /\ o.a = s.a /\ o.b = s.b /\ o.life = life
               /\ Complete(s) => B # {}
  BY <1>1, ReadOutputs
<1>3. /\ position \in Nat /\ i = position + 1 /\ k \in Keys /\ i \in Offsets
      /\ \A l \in Keys : slots[l].a \in 0..position /\ slots[l].b \in 0..position
      /\ \A l \in Keys \ {k} : slots'[l] = slots[l]
      /\ slots'[k] = IF Complete(s) THEN Empty ELSE s
      /\ {s.a, s.b} \subseteq {i, slots[k].a, slots[k].b} \cap (0..i)
      /\ Empty.a = 0 /\ Empty.b = 0 /\ life' = life
  <2>1. i \in Offsets /\ life' = life
    BY <1>1 DEF ReadInto
  <2>2. {s.a, s.b} \subseteq {i, slots[k].a, slots[k].b}
    BY <1>1 DEF ReadInto, Holds
  <2>3. {s.a, s.b} \subseteq 0..i
    BY <1>1, ReadSlots
  <2>. QED  BY <1>1, <2>1, <2>2, <2>3, ReadSlots
<1>4. 0 \notin Offsets /\ Offsets \subseteq Nat
  BY DEF Offsets
<1>. DEFINE in == {<<life, i>>}
            out == IF Complete(s) THEN Named({s.a, s.b}) ELSE {}
<1>5. ASSUME NEW j \in Offsets, InSlot(j)' PROVE InSlot(j) \/ j = i
  BY <1>3, <1>4, <1>5 DEF InSlot
<1>6. HeldNow' \subseteq HeldNow \cup in
  BY <1>3, <1>5 DEF HeldNow, Named
<1>7. in \in H!Arriving
  <2>1. ~InSlot(i)
    BY <1>3 DEF InSlot
  <2>2. <<life, i>> \notin HeldNow
    BY <2>1 DEF HeldNow, Named
  <2>3. ASSUME NEW o \in outputs, o.life = life PROVE i \notin Parts(o)
    <3>1. o.a <= position /\ o.b <= position
      BY <2>3 DEF OutputsFit
    <3>. QED  BY <1>3, <3>1 DEF Parts
  <2>4. <<life, i>> \notin HandedOver
    BY <2>3 DEF HandedOver
  <2>5. <<life, i>> \in (1..MaxLives) \X Offsets
    BY <1>3 DEF CTypeOK
  <2>. QED  BY <2>2, <2>4, <2>5 DEF H!Arriving
<1>8. Complete(s) => {s.a, s.b} \subseteq Offsets
  <2>1. {s.a, s.b} \subseteq 0..i /\ i \in 1..MaxRecords
    BY <1>3 DEF Offsets
  <2>. QED  BY <2>1 DEF Complete, Offsets
<1>9. out \in SUBSET (HeldNow \cup in)
  <2>1. CASE Complete(s)
    <3>1. ASSUME NEW j \in {s.a, s.b} PROVE j \in Offsets /\ (InSlot(j) \/ j = i)
      BY <1>3, <1>8, <2>1 DEF InSlot
    <3>. QED  BY <2>1, <3>1 DEF HeldNow, Named
  <2>2. CASE ~Complete(s)
    BY <2>2
  <2>. QED  BY <2>1, <2>2
<1>10. out \cap HeldNow' = {}
  <2>1. CASE Complete(s)
    <3>1. ASSUME NEW j \in {s.a, s.b}, InSlot(j)' PROVE FALSE
      <4>1. j # 0 /\ slots'[k] = Empty
        BY <1>3, <2>1 DEF Complete
      <4>2. PICK l \in Keys : j \in {slots'[l].a, slots'[l].b}
        BY <3>1 DEF InSlot
      <4>3. l # k /\ j \in {slots[l].a, slots[l].b}
        BY <1>3, <4>1, <4>2
      <4>4. j # i
        BY <1>3, <4>3
      <4>5. j \in {slots[k].a, slots[k].b}
        BY <1>3, <4>4
      <4>. QED  BY <1>3, <4>1, <4>3, <4>5, OneBucket
    <3>2. \A j \in {s.a, s.b} : <<life, j>> \notin HeldNow'
      BY <1>3, <3>1 DEF HeldNow, Named
    <3>. QED  BY <2>1, <3>2 DEF Named
  <2>2. CASE ~Complete(s)
    BY <2>2
  <2>. QED  BY <2>1, <2>2
<1>11. HandedOver' = HandedOver \cup out
  <2>1. CASE Complete(s)
    <3>1. \A o \in B : Parts(o) = {s.a, s.b} /\ o.life = life
      BY <1>2, <2>1 DEF Parts, Complete
    <3>2. UNION { { <<o.life, j>> : j \in Parts(o) } : o \in B } = Named({s.a, s.b})
      BY <1>2, <2>1, <3>1 DEF Named
    <3>3. HandedOver' = HandedOver \cup UNION { { <<o.life, j>> : j \in Parts(o) } : o \in B }
      BY <1>2 DEF HandedOver, Parts
    <3>. QED  BY <2>1, <3>2, <3>3
  <2>2. CASE ~Complete(s)
    BY <1>2, <2>2 DEF HandedOver, Parts
  <2>. QED  BY <2>1, <2>2
<1>. HIDE DEF in, out
<1>. QED  BY <1>6, <1>7, <1>9, <1>10, <1>11, Moves

LEMMA FlushMoves == CoalescerInv /\ FlushStale => H!HandNext
<1>. SUFFICES ASSUME CoalescerInv, FlushStale PROVE H!HandNext
  OBVIOUS
<1>. USE DEF CoalescerInv
<1>1. PICK B : FlushInto(B)
  BY FlushStep
<1>. DEFINE gone == { j \in Offsets : \E k \in StaleKeys : j \in {slots[k].a, slots[k].b} }
            out == Named(gone)
<1>2. /\ StaleKeys \subseteq Keys
      /\ \A k \in Keys : slots'[k] = IF k \in StaleKeys THEN Empty ELSE slots[k]
      /\ outputs' = outputs \cup B /\ life' = life
      /\ Empty.a = 0 /\ Empty.b = 0
  BY <1>1 DEF FlushInto, StaleKeys, Empty
<1>3. 0 \notin Offsets
  BY DEF Offsets
<1>4. ASSUME NEW j \in Offsets, InSlot(j)' PROVE InSlot(j) /\ j \notin gone
  <2>1. PICK k \in Keys : j \in {slots'[k].a, slots'[k].b}
    BY <1>4 DEF InSlot
  <2>2. k \notin StaleKeys /\ j \in {slots[k].a, slots[k].b}
    BY <1>2, <1>3, <2>1
  <2>3. \A l \in StaleKeys : j \notin {slots[l].a, slots[l].b}
    BY <1>2, <1>3, <2>2, OneBucket
  <2>. QED  BY <2>2, <2>3 DEF InSlot
<1>5. HeldNow' \subseteq HeldNow
  BY <1>2, <1>4 DEF HeldNow, Named
<1>6. out \in SUBSET HeldNow
  BY <1>2 DEF HeldNow, Named, InSlot
<1>7. out \cap HeldNow' = {}
  BY <1>2, <1>4 DEF HeldNow, Named
<1>8. HandedOver' = HandedOver \cup out
  <2>1. ASSUME NEW o \in B
        PROVE  /\ o.key \in StaleKeys /\ o.life = life
               /\ Parts(o) = {slots[o.key].a, slots[o.key].b} \ {0}
    BY <1>1 DEF FlushInto, Parts
  <2>2. \A k \in StaleKeys : \E o \in B : o.key = k
    BY <1>1 DEF FlushInto
  <2>3. \A k \in StaleKeys : {slots[k].a, slots[k].b} \ {0} \subseteq Offsets
    BY StaleIsOver, SMTT(60) DEF Offsets, CTypeOK
  <2>4. \A j : j \in gone <=> \E o \in B : j \in Parts(o)
    BY <1>3, <2>1, <2>2, <2>3
  <2>5. UNION { { <<o.life, j>> : j \in Parts(o) } : o \in B } = out
    BY <2>1, <2>4 DEF Named
  <2>6. HandedOver' = HandedOver \cup UNION { { <<o.life, j>> : j \in Parts(o) } : o \in B }
    BY <1>2 DEF HandedOver, Parts
  <2>. QED  BY <2>5, <2>6
<1>9. {} \in H!Arriving
  BY DEF H!Arriving
<1>. HIDE DEF out
<1>. QED  BY <1>5, <1>6, <1>7, <1>8, <1>9, Moves

LEMMA RestartMoves == CoalescerInv /\ Restart => H!HandNext
<1>. SUFFICES ASSUME CoalescerInv, Restart PROVE H!HandNext
  OBVIOUS
<1>1. slots' = [k \in Keys |-> Empty] /\ outputs' = outputs
  BY DEF Restart
<1>2. HeldNow' = {}
  BY <1>1 DEF HeldNow, Named, InSlot, Empty, Offsets
<1>3. HandedOver' = HandedOver
  BY <1>1 DEF HandedOver, Parts
<1>4. {} \in H!Arriving
  BY DEF H!Arriving
<1>. QED  BY <1>2, <1>3, <1>4, Moves

\* In every life of the process each result the coalescer takes in leaves once: by
\* being handed over, or for good.  Detailed steps map to steps of HandOnce or to
\* stuttering.
THEOREM CoalescerHandsOnce == CSpec => HandsOverOnce
<1>1. CInit => H!HandInit
  <2>. SUFFICES ASSUME CInit PROVE HeldNow = {} /\ HandedOver = {}
    BY DEF H!HandInit
  <2>. QED  BY DEF CInit, HeldNow, HandedOver, Named, InSlot, Empty, Offsets
<1>2. CoalescerInv /\ [CNext]_cvars => [H!HandNext]_(H!hvars)
  <2>. SUFFICES ASSUME CoalescerInv, [CNext]_cvars, ~(HeldNow' = HeldNow /\ HandedOver' = HandedOver)
                PROVE  H!HandNext
    BY DEF H!hvars
  <2>1. slots' = slots /\ outputs' = outputs /\ life' = life => FALSE
    BY DEF HeldNow, HandedOver, Named, InSlot, Parts
  <2>2. CASE UNCHANGED cvars
    BY <2>1, <2>2 DEF cvars
  <2>3. CASE \E r \in Record : Produce(r)
    BY <2>1, <2>3 DEF Produce
  <2>4. CASE Tick
    BY <2>1, <2>4 DEF Tick
  <2>. QED  BY <2>2, <2>3, <2>4, ReadMoves, FlushMoves, RestartMoves DEF CNext
<1>. QED  BY CoalescerInvariant, <1>1, <1>2, PTL DEF CSpec, HandsOverOnce, H!HandSpec

=============================================================================
