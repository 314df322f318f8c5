------------------------------ MODULE Coalescer ------------------------------
(***************************************************************************)
(* The inference engine's Kafka runner (inference_layer.py): feature records *)
(* of the two tracks are read from the topic in order, each result goes into *)
(* the slot of its (target_ip_prefix, window) bucket, and a slot is          *)
(* published when both tracks are there, or by flush_stale once it is older  *)
(* than the window.  flush_stale runs only after the consumer has waited for *)
(* a message in vain.                                                        *)
(*                                                                         *)
(* A record of the topic is named by its offset.  A tick is half a minute    *)
(* divided by Window; the idle timeout (300 ms) is shorter than a tick.      *)
(***************************************************************************)
EXTENDS Naturals, Sequences, FiniteSets

CONSTANTS
    Targets,     \* target_ip_prefix of a record; a missing one counts as 'unknown'
    Window,      \* COALESCER_WINDOW_S in ticks
    LastArrival, \* bound: no record arrives, and no restart happens, after this time
    MaxTime,     \* bound: the clock stops here
    MaxRecords,  \* bound: length of the topic
    MaxFailures, \* bound: outputs whose publication fails
    MaxLives     \* bound: lives of the process

ASSUME CoalescerAssumption ==
    /\ Window \in Nat \ {0}
    /\ {LastArrival, MaxTime, MaxRecords, MaxFailures} \subseteq Nat
    /\ MaxLives \in Nat \ {0}
    /\ IsFiniteSet(Targets)

VARIABLES
    now,       \* time.time
    topic,     \* records produced so far
    busy,      \* a record was read since the clock last moved
    position,  \* last record read
    committed, \* offset a life resumed from, 0 for none
    slots,     \* PayloadCoalescer._buckets
    outputs,   \* what was published (or should have been)
    life,      \* incarnation of the process
    took,      \* history: when a record was last read
    lost       \* history: records a restart made the engine forget

cvars == <<now, topic, busy, position, committed, slots, outputs, life, took, lost>>

Tracks == {"a", "b"}
Record == [track : Tracks, target : Targets]
Offsets == 1..MaxRecords
Keys == Targets \X (0..(MaxTime \div Window))
Empty == [a |-> 0, b |-> 0, t0 |-> 0]
Complete(s) == s.a # 0 /\ s.b # 0

CTypeOK ==
    /\ now \in 0..MaxTime /\ busy \in BOOLEAN
    /\ topic \in Seq(Record) /\ Len(topic) <= MaxRecords
    /\ position \in 0..Len(topic) /\ committed \in 0..position
    /\ slots \in [Keys -> [a : 0..position, b : 0..position, t0 : 0..now]]
    /\ \A k \in Keys : ~Complete(slots[k])
    /\ outputs \subseteq [key : Keys, a : 0..Len(topic), b : 0..Len(topic),
                          nr : Nat, life : 1..life, sent : BOOLEAN]
    /\ life \in 1..MaxLives
    /\ took \in [Offsets -> 0..now] /\ lost \subseteq Offsets

CInit ==
    /\ now = 0 /\ topic = <<>> /\ busy = FALSE
    /\ position = 0 /\ committed = 0
    /\ slots = [k \in Keys |-> Empty]
    /\ outputs = {} /\ life = 1
    /\ took = [i \in Offsets |-> 0] /\ lost = {}

\* Mutant: one bucket for all windows.
BucketKeyNoTime(target, t) == <<target, 0>>

\* _bucket_key
BucketKey(target, t) == <<target, t \div Window>>

\* Mutant: a newer result does not replace an older one.
MergedFirst(slot, i) ==
    LET s == IF slot = Empty THEN [Empty EXCEPT !.t0 = now] ELSE slot
    IN  IF s[topic[i].track] = 0 THEN [s EXCEPT ![topic[i].track] = i] ELSE s

\* The slot of record i's bucket with the result of record i in it.
Merged(slot, i) ==
    LET s == IF slot = Empty THEN [Empty EXCEPT !.t0 = now] ELSE slot
    IN  IF topic[i].track = "a" THEN [s EXCEPT !.a = i] ELSE [s EXCEPT !.b = i]

\* Mutant: only one half is taken out.
LeftHalf(s) == IF Complete(s) THEN [s EXCEPT !.b = 0] ELSE s

\* What stays of a slot: a complete one is popped.
Left(s) == IF Complete(s) THEN Empty ELSE s

\* The slots of keys ks as outputs of one round; publication fails for some.
Build(ks, from, failed) ==
    { [key |-> k, a |-> from[k].a, b |-> from[k].b, nr |-> Cardinality(outputs),
       life |-> life, sent |-> k \notin failed] : k \in ks }

Failures == { o \in outputs : ~o.sent }

\* _publish: an error is logged and the output is gone.
Publish(ks, from) ==
    \E failed \in SUBSET ks :
        /\ Cardinality(Failures) + Cardinality(failed) <= MaxFailures
        /\ outputs' = outputs \cup Build(ks, from, failed)

\* The feature processors append to the topics.
Produce(r) ==
    /\ now <= LastArrival /\ Len(topic) < MaxRecords
    /\ topic' = Append(topic, r)
    /\ UNCHANGED <<now, busy, position, committed, slots, outputs, life, took, lost>>

\* One round of `for msg in consumer`: infer, merge, publish when complete.
Read ==
    /\ position < Len(topic)
    /\ LET i == position + 1
           k == BucketKey(topic[i].target, now)
           s == Merged(slots[k], i)
       IN  /\ position' = i
           /\ took' = [took EXCEPT ![i] = now]
           /\ slots' = [slots EXCEPT ![k] = Left(s)]
           /\ IF Complete(s) THEN Publish({k}, [slots EXCEPT ![k] = s])
                             ELSE UNCHANGED outputs
    /\ busy' = TRUE
    /\ UNCHANGED <<now, topic, committed, life, lost>>

\* Mutants: age is not asked for; a forecast alone is never given up.
StaleAtOnce(k) == slots[k] # Empty
StaleDetected(k) == slots[k].a # 0 /\ now - slots[k].t0 >= Window

\* A slot older than the window.
Stale(k) == slots[k] # Empty /\ now - slots[k].t0 >= Window

\* The consumer timed out: every stale slot is popped and published.
FlushStale ==
    /\ position = Len(topic)
    /\ LET stale == { k \in Keys : Stale(k) }
       IN  /\ Publish(stale, slots)
           /\ slots' = [k \in Keys |-> IF k \in stale THEN Empty ELSE slots[k]]
    /\ UNCHANGED <<now, topic, busy, position, committed, life, took, lost>>

InSlot(i) == \E k \in Keys : i \in {slots[k].a, slots[k].b}
Emitted(i) == \E o \in outputs : i \in {o.a, o.b}

\* The process ends and comes back: buckets are gone and reading resumes after
\* the last offset committed in the background (enable_auto_commit) or, if there
\* is none (auto_offset_reset = latest), at the end.
Restart ==
    /\ life < MaxLives /\ now <= LastArrival
    /\ committed' \in committed..position
    /\ position' = IF committed' = 0 THEN Len(topic) ELSE committed'
    /\ lost' = lost \cup { i \in 1..position' : ~Emitted(i) }
    /\ slots' = [k \in Keys |-> Empty]
    /\ life' = life + 1 /\ busy' = FALSE
    /\ UNCHANGED <<now, topic, outputs, took>>

\* Records that keep coming (until LastArrival; one per tick stands for them)
\* keep the consumer from timing out; otherwise it has read all and flushed long
\* before the tick is over.
Tick ==
    /\ now < MaxTime /\ now' = now + 1
    /\ \/ busy /\ now <= LastArrival
       \/ position = Len(topic) /\ \A k \in Keys : ~Stale(k)
    /\ busy' = FALSE
    /\ UNCHANGED <<topic, position, committed, slots, outputs, life, took, lost>>

CNext ==
    \/ \E r \in Record : Produce(r)
    \/ Read \/ FlushStale \/ Restart \/ Tick

CSpec == CInit /\ [][CNext]_cvars

\* The runner reads what is there, flushes when its consumer times out, and the
\* clock runs.  Restarts and new records may or may not happen.
CFairSpec ==
    CSpec /\ WF_cvars(Read) /\ WF_cvars(FlushStale) /\ WF_cvars(Tick)

-----------------------------------------------------------------------------
Parts(o) == {o.a, o.b} \ {0}

\* The slot of one window and one target is where two results meet (_merge,
\* _bucket_key): both results of an output were read in the same window from
\* records of the same target, one of each track.
PairsBelongTogether ==
    \A o \in outputs : o.life = life /\ o.a # 0 /\ o.b # 0 =>
        /\ topic[o.a] = [track |-> "a", target |-> o.key[1]]
        /\ topic[o.b] = [track |-> "b", target |-> o.key[1]]
        /\ took[o.a] \div Window = took[o.b] \div Window

\* flush_stale publishes half an output only when its other half can no longer
\* come: after it nothing is ever published for the same bucket in the same life.
HalfMeansClosed ==
    \A o \in outputs : o.a = 0 \/ o.b = 0 =>
        /\ (o.life = life => o.key[2] < now \div Window)
        /\ \A p \in outputs : p.key = o.key /\ p.life = o.life /\ p # o => p.nr < o.nr

\* Outputs with both halves reach the topic in the order of their results: of two
\* for one target in one life, the later has only later results.
PairsInOrder ==
    \A o, p \in { x \in outputs : x.a # 0 /\ x.b # 0 } :
        o.life = p.life /\ o.key[1] = p.key[1] /\ o.nr < p.nr =>
            \A i \in Parts(o), j \in Parts(p) : i < j

\* A result read later replaces one that still waits in the same slot.
Superseded(i) ==
    \E j \in i+1..position :
        topic[j] = topic[i] /\ took[j] \div Window = took[i] \div Window

\* No result vanishes between reading and publishing: it waits in its slot, was
\* put in an output, was replaced by a newer one of the same track and bucket, or
\* was not published when the process was restarted.
ResultsAccounted ==
    \A i \in 1..position :
        InSlot(i) \/ Emitted(i) \/ Superseded(i) \/ i \in lost

\* Every result the runner takes in leaves its slot, once the records pause
\* (LastArrival): it is published, replaced, or lost with the process.
ResultsLeave == \A i \in Offsets : InSlot(i) ~> ~InSlot(i)

\* _merge and flush_stale pop a slot with what they publish: in the life of a
\* process every result leaves once.
Named(S) == { <<life, i>> : i \in S }
HeldNow == Named({ i \in Offsets : InSlot(i) })
HandedOver == UNION { { <<o.life, i>> : i \in Parts(o) } : o \in outputs }

H == INSTANCE HandOnce WITH
    Results <- (1..MaxLives) \X Offsets,
    held    <- HeldNow,
    handed  <- HandedOver

HandsOverOnce == H!HandSpec

\* inference_layer.py:1225: "ensures Track-A-only or Track-B-only events still reach M3
\* within COALESCER_WINDOW_S".  No slot is older than twice the window.
ReachesM3InTime ==
    \A k \in Keys : slots[k] # Empty => now - slots[k].t0 <= 2 * Window

=============================================================================
