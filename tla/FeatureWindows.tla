--------------------------- MODULE FeatureWindows ---------------------------
(***************************************************************************)
(* The feature processor (pipeline/s2_features/flink_processor.py) behind    *)
(* the telemetry producers: samples are read from the raw topics into a      *)
(* sliding window (Track A) and a tumbling window (Track B), and one loop    *)
(* drains the consumer, emits Track A when its slide is due, then Track B    *)
(* when its window is over.  Both windows go by the time of reading.         *)
(*                                                                         *)
(* A raw sample is named by its offset; a reading of it by its number in     *)
(* the life of the process, for a sample may be read twice.                  *)
(***************************************************************************)
EXTENDS Integers, Sequences, FiniteSetsExt

CONSTANTS
    Devices,     \* source_device_id of samples that have one
    NoId,        \* a sample without a device id
    Blank,       \* a message without metrics
    FlowWindow, FlowSlide, TsWindow,  \* in ticks; a tick outlasts the idle timeout
    LastArrival, \* bound: no sample arrives, no fault happens after this time
    MaxTime,     \* bound: the clock stops here
    MaxRaw,      \* bound: length of the raw topic
    MaxFaults,   \* bound: failing calls to the broker
    MaxLives     \* bound: lives of the process

ASSUME WindowsAssumption ==
    /\ {LastArrival, MaxTime, MaxRaw, MaxFaults} \subseteq Nat
    /\ {FlowWindow, FlowSlide, TsWindow, MaxLives} \subseteq Nat \ {0}
    /\ NoId \notin Devices /\ Blank \notin Devices \cup {NoId}

VARIABLES
    now,        \* time.monotonic
    raw,        \* samples published so far
    pc,         \* where the loop is
    busy,       \* a sample was read since the clock last moved
    position,   \* last offset consumed
    committed,  \* offset a new consumer resumes from, 0 for none
    flow,       \* SlidingWindow._buf
    lastEmit,   \* SlidingWindow._last_emit
    ts,         \* TumblingWindow._buf
    openedAt,   \* TumblingWindow._opened_at
    device,     \* last_device_id
    faults,     \* failing calls so far
    life,       \* incarnation of the process
    log,        \* history: readings of this life
    sent,       \* history: this life's Track B windows, and the last window
    counted,    \* history: offsets that were in an emitted Track B window
    gone        \* history: offsets lost with a window or never read

wvars == <<now, raw, pc, busy, position, committed, flow, lastEmit, ts, openedAt,
           device, faults, life, log, sent, counted, gone>>
loopvars == <<flow, lastEmit, ts, openedAt, device>>

Kinds == Devices \cup {NoId, Blank}
Unknown == "unknown"
Readings == DOMAIN log
Offsets == 1..MaxRaw
Windows == [track : {"A", "B"}, key : Devices \cup {Unknown}, at : 0..MaxTime,
            members : SUBSET Readings, upto : 0..Len(log)]

\* Both buffers hold readings of this life, in the order of reading.
WTypeOK ==
    /\ now \in 0..MaxTime /\ busy \in BOOLEAN
    /\ pc \in {"drain", "flow", "ts", "noconsumer", "noproducer"}
    /\ raw \in Seq([kind : Kinds, at : 0..now]) /\ Len(raw) <= MaxRaw
    /\ position \in 0..Len(raw) /\ committed \in 0..Len(raw)
    /\ log \in Seq([off : Offsets, at : 0..now])
    /\ flow \in Seq(Readings) /\ ts \in Seq(Readings)
    /\ \A w \in {flow, ts} : \A i, j \in DOMAIN w : i < j => w[i] < w[j]
    /\ lastEmit \in 0..now /\ openedAt \in 0..now
    /\ device \in Devices \cup {Unknown}
    /\ faults \in 0..MaxFaults /\ life \in 1..MaxLives
    /\ sent \subseteq Windows
    /\ counted \subseteq Offsets /\ gone \subseteq Offsets

WInit ==
    /\ now = 0 /\ raw = <<>> /\ pc = "drain" /\ busy = FALSE
    /\ position = 0 /\ committed = 0
    /\ flow = <<>> /\ lastEmit = 0 /\ ts = <<>> /\ openedAt = 0 /\ device = Unknown
    /\ faults = 0 /\ life = 1
    /\ log = <<>> /\ sent = {} /\ counted = {} /\ gone = {}

-----------------------------------------------------------------------------
\* A producer publishes a sample; those it failed to fetch or to send are not
\* in the topic.
Arrive(kind) ==
    /\ now <= LastArrival /\ Len(raw) < MaxRaw
    /\ raw' = Append(raw, [kind |-> kind, at |-> now])
    /\ UNCHANGED <<now, pc, busy, position, committed, loopvars, faults, life,
                   log, sent, counted, gone>>

\* Mutant: the first device stays.
DeviceFirst(kind) == IF kind = NoId \/ device # Unknown THEN device ELSE kind

\* last_device_id after a sample
DeviceAfter(kind) == IF kind = NoId THEN device ELSE kind

\* One round of `for msg in consumer`.
Read ==
    /\ pc = "drain" /\ position < Len(raw)
    /\ position' = position + 1 /\ busy' = TRUE
    /\ LET sample == raw[position + 1]
           r == Len(log) + 1
       IN  IF sample.kind = Blank
           THEN UNCHANGED <<device, flow, ts, log>>
           ELSE /\ log' = Append(log, [off |-> position + 1, at |-> now])
                /\ flow' = Append(flow, r) /\ ts' = Append(ts, r)
                /\ device' = DeviceAfter(sample.kind)
    /\ UNCHANGED <<now, raw, pc, committed, lastEmit, openedAt, faults, life,
                   sent, counted, gone>>

FlowDue == now - lastEmit >= FlowSlide

\* Mutant: Track B is asked only when Track A has something to emit, too.
TsDueWithFlow == now - openedAt >= TsWindow /\ FlowDue

TsDue == now - openedAt >= TsWindow

\* The consumer waited for a sample in vain.  Rounds with nothing due change
\* nothing and are left out, except at the end of the clock.
DrainEnds ==
    /\ pc = "drain" /\ position = Len(raw) /\ (FlowDue \/ TsDue \/ now = MaxTime)
    /\ pc' = "flow"
    /\ UNCHANGED <<now, raw, busy, position, committed, loopvars, faults, life,
                   log, sent, counted, gone>>

\* The samples behind the readings of a buffer.
Samples(w) == { log[r].off : r \in { w[i] : i \in DOMAIN w } }

\* A consumer of the same group takes over: it resumes after the last offset
\* committed in the background or, without one, at the end of the topic.
Resume ==
    /\ committed' \in committed..position
    /\ position' = IF committed' = 0 THEN Len(raw) ELSE committed'

\* Reading fails; the windows stay.
ConsumerError ==
    /\ pc = "drain" /\ now <= LastArrival /\ faults < MaxFaults
    /\ faults' = faults + 1 /\ pc' = "noconsumer"
    /\ UNCHANGED <<now, raw, busy, position, committed, loopvars, life,
                   log, sent, counted, gone>>

\* Mutant: at most one reading leaves per window.
EvictedOne(w) ==
    IF w # <<>> /\ log[Head(w)].at < now - FlowWindow THEN Tail(w) ELSE w

\* SlidingWindow.emit pops from the left what is older than the window, and stops
\* at the first reading that is not.
Fresh(w) == { i \in DOMAIN w : log[w[i]].at >= now - FlowWindow }
Evicted(w) == IF Fresh(w) = {} THEN <<>> ELSE SubSeq(w, Min(Fresh(w)), Len(w))

Window(track, w) ==
    [track |-> track, key |-> device, at |-> now, upto |-> Len(log),
     members |-> { w[i] : i \in DOMAIN w }]

\* _send: when it fails the producer is replaced, which takes as long as the
\* broker is away, and the rest of the round is skipped.
Send(window, next) ==
    \E ok \in BOOLEAN :
        /\ ok \/ (faults < MaxFaults /\ now <= LastArrival)
        /\ faults' = IF ok THEN faults ELSE faults + 1
        /\ pc' = IF ok THEN next ELSE "noproducer"
        /\ sent' = { w \in sent : w.track = "B" } \cup {window}

\* Branch A.
FlowBranch ==
    /\ pc = "flow"
    /\ IF ~FlowDue
       THEN pc' = "ts" /\ UNCHANGED <<flow, lastEmit, faults, sent>>
       ELSE LET w == Evicted(flow)
            IN  /\ flow' = w /\ lastEmit' = now
                /\ IF w = <<>> THEN pc' = "ts" /\ UNCHANGED <<faults, sent>>
                               ELSE Send(Window("A", w), "ts")
    /\ UNCHANGED <<now, raw, busy, position, committed, ts, openedAt, device, life,
                   log, counted, gone>>

\* Mutant: the last reading opens the next window too.
KeptLast(w) == IF w = <<>> THEN w ELSE <<w[Len(w)]>>

\* TumblingWindow.emit: the window starts empty again.
Kept(w) == <<>>

\* Branch B.  The window is emptied before it is sent.
TsBranch ==
    /\ pc = "ts"
    /\ IF ~TsDue
       THEN pc' = "drain" /\ UNCHANGED <<ts, openedAt, faults, sent, counted>>
       ELSE /\ ts' = Kept(ts) /\ openedAt' = now
            /\ counted' = counted \cup Samples(ts)
            /\ IF ts = <<>> THEN pc' = "drain" /\ UNCHANGED <<faults, sent>>
                            ELSE Send(Window("B", ts), "drain")
    /\ UNCHANGED <<now, raw, busy, position, committed, flow, lastEmit, device, life,
                   log, gone>>

\* _connect_with_backoff succeeds.  A new consumer may read samples again that
\* are in the windows already, or miss some.
Reconnect ==
    /\ pc \in {"noconsumer", "noproducer"} /\ pc' = "drain"
    /\ IF pc = "noproducer"
       THEN UNCHANGED <<position, committed, gone>>
       ELSE Resume /\ gone' = gone \cup (position+1)..position'
    /\ UNCHANGED <<now, raw, busy, loopvars, faults, life, log, sent, counted>>

\* The process ends and is started again.
Restart ==
    /\ life < MaxLives /\ now <= LastArrival
    /\ life' = life + 1 /\ pc' = "drain" /\ busy' = FALSE
    /\ Resume
    /\ gone' = (gone \cup (position+1)..position' \cup Samples(ts)) \ (position'+1)..MaxRaw
    /\ flow' = <<>> /\ ts' = <<>> /\ lastEmit' = now /\ openedAt' = now
    /\ device' = Unknown /\ log' = <<>> /\ sent' = {}
    /\ UNCHANGED <<now, raw, faults, counted>>

\* Time passes while the broker is away, while samples keep the consumer from
\* timing out (until LastArrival), or once a round has done all that is due.
Tick ==
    /\ now < MaxTime /\ now' = now + 1
    /\ \/ pc \in {"noconsumer", "noproducer"} /\ now <= LastArrival
       \/ pc = "drain" /\ busy /\ now <= LastArrival
       \/ pc = "drain" /\ position = Len(raw) /\ ~FlowDue /\ ~TsDue
    /\ busy' = FALSE
    /\ UNCHANGED <<raw, pc, position, committed, loopvars, faults, life,
                   log, sent, counted, gone>>

WNext ==
    \/ \E kind \in Kinds : Arrive(kind)
    \/ Read \/ DrainEnds \/ ConsumerError \/ FlowBranch \/ TsBranch
    \/ Reconnect \/ Restart \/ Tick

WSpec == WInit /\ [][WNext]_wvars

\* The loop runs, the broker comes back, and the clock goes on.
WFairSpec ==
    /\ WSpec
    /\ WF_wvars(Read) /\ WF_wvars(DrainEnds) /\ WF_wvars(FlowBranch)
    /\ WF_wvars(TsBranch) /\ WF_wvars(Reconnect) /\ WF_wvars(Tick)

-----------------------------------------------------------------------------
\* A Track A window holds exactly the readings of its last FlowWindow ticks,
\* although eviction looks at the left end only and happens only on emission:
\* neither failed sends nor rounds held up by the broker leave an old reading in
\* or take a recent one out.
FlowIsExact ==
    \A w \in sent : w.track = "A" =>
        w.members = { r \in 1..w.upto : log[r].at >= w.at - FlowWindow }

\* The Track B windows of a life and the one being filled partition its readings,
\* whether or not they could be sent and whatever happened to Track A in between:
\* no reading counts twice and none is dropped.
TsPartition ==
    LET buffer == { ts[i] : i \in DOMAIN ts }
        bs == { w \in sent : w.track = "B" }
    IN  /\ Readings = buffer \cup UNION { w.members : w \in bs }
        /\ \A w \in bs : w.members \cap buffer = {}
        /\ \A v, w \in bs : v = w \/ v.members \cap w.members = {}

\* No sample is passed over in silence: what lies behind the consumer had no
\* metrics, is in the Track B window being filled, was in one that was emitted, or
\* is known to be lost; whatever was committed, read again or skipped.
SamplesAccounted ==
    \A i \in 1..position :
        raw[i].kind = Blank \/ i \in Samples(ts) \cup counted \cup gone

\* The three together: types, partition and account.
WindowsInv == WTypeOK /\ TsPartition /\ SamplesAccounted

\* One device id labels a whole window, the one seen last (run).  If any sample of
\* the window names its device, then the label is the device of one of them.
LabelIsFromWindow ==
    \A w \in sent :
        LET named == { raw[log[r].off].kind : r \in w.members } \cap Devices
        IN  named # {} => w.key \in named

\* Once the samples pause, every sample that arrived was in a Track B window that
\* was emitted, or was lost with one or passed over by a consumer that started at
\* the end: no outage leaves the loop stuck or a window open for ever.
EverySampleIsCounted ==
    \A i \in Offsets :
        (i \in DOMAIN raw /\ raw[i].kind # Blank) ~> i \in counted \cup gone

=============================================================================
