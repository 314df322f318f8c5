------------------------ MODULE FeatureWindowsProofs ------------------------
(***************************************************************************)
(* What the two windows of the feature processor hold, for any devices, any *)
(* lengths of the windows and the slide, and any number of samples, failing *)
(* calls and restarts.                                                      *)
(***************************************************************************)
EXTENDS FeatureWindows, SequenceTheorems, WellFoundedInduction, TLAPS

LEMMA LeastOf ==
    ASSUME NEW S \in SUBSET Nat, S # {}
    PROVE  Min(S) \in S /\ \A y \in S : Min(S) <= y
<1>. DEFINE R == { ss \in Nat \X Nat : ss[1] < ss[2] }
<1>1. IsWellFoundedOn(R, Nat)
  BY NatLessThanWellFounded DEF OpToRel
<1>2. \E x \in S : \A y \in S : ~ (<<y, x>> \in R)
  <2>. HIDE DEF R
  <2>. QED  BY <1>1, WFMin
<1>3. PICK x \in S : \A y \in S : ~ (<<y, x>> \in R)
  BY <1>2
<1>4. \A y \in S : x <= y
  <2>. SUFFICES ASSUME NEW y \in S PROVE x <= y
    OBVIOUS
  <2>1. ~ (y < x)
    BY <1>3
  <2>. QED  BY <2>1
<1>5. \E z \in S : \A y \in S : z <= y
  BY <1>4
<1>. QED  BY <1>5 DEF Min

-----------------------------------------------------------------------------
\* A buffer holds the latest readings, in the order of reading.
Latest(w) ==
    /\ Len(w) <= Len(log)
    /\ \A i \in 1..Len(w) : w[i] = Len(log) - Len(w) + i

\* Readings that have left a buffer, or are in it.
Left(w) == 1..(Len(log) - Len(w))
Inside(w) == (Len(log) - Len(w) + 1)..Len(log)

LogOk ==
    /\ log \in Seq([off : Offsets, at : 0..now])
    /\ \A r \in Readings : log[r].off <= Len(raw) /\ raw[log[r].off].kind # Blank
    /\ \A r, q \in Readings : r < q => log[r].at <= log[q].at

\* What left the sliding window is too old for any window to come.
FlowOk == Latest(flow) /\ \A r \in Left(flow) : log[r].at < now - FlowWindow

\* What left the tumbling window is in exactly one window that was emitted.
TsOk ==
    /\ Latest(ts)
    /\ \A w \in sent : w.track = "B" => w.members \subseteq Left(ts)
    /\ \A r \in Left(ts) : \E w \in sent : w.track = "B" /\ r \in w.members
    /\ \A v, w \in sent :
           v.track = "B" /\ w.track = "B" => v = w \/ v.members \cap w.members = {}

\* Among the latest readings, however many, the device seen last is one of the
\* devices they name.
Kind(r) == raw[log[r].off].kind
DeviceOk ==
    \A k, r \in Readings : k <= r /\ Kind(r) \in Devices =>
        \E q \in Readings : k <= q /\ Kind(q) \in Devices /\ Kind(q) = device

WindowsInduct ==
    /\ WTypeOK /\ LogOk /\ FlowOk /\ TsOk /\ DeviceOk
    /\ FlowIsExact /\ LabelIsFromWindow /\ SamplesAccounted

LEMMA Bounds ==
    /\ LastArrival \in Nat /\ MaxTime \in Nat /\ MaxRaw \in Nat /\ MaxFaults \in Nat
    /\ MaxLives \in Nat \ {0} /\ FlowWindow \in Nat /\ FlowSlide \in Nat /\ TsWindow \in Nat
    /\ NoId \notin Devices /\ Blank \notin Devices \cup {NoId}
BY WindowsAssumption DEF WindowsAssumption

USE Bounds DEF Readings

\* What the types say of the clock, the topic, the log and the buffers.
TypeFacts ==
    /\ now \in Nat /\ now <= MaxTime
    /\ raw \in Seq([kind : Kinds, at : 0..now])
    /\ Len(raw) \in Nat /\ Len(raw) <= MaxRaw /\ DOMAIN raw = 1..Len(raw)
    /\ \A i \in 1..Len(raw) : raw[i].kind \in Kinds
    /\ position \in Nat /\ position <= Len(raw) /\ committed \in Nat /\ committed <= Len(raw)
    /\ log \in Seq([off : Offsets, at : 0..now])
    /\ Len(log) \in Nat /\ Readings = 1..Len(log)
    /\ \A r \in 1..Len(log) : log[r].off \in Nat /\ log[r].off \in Offsets
                            /\ log[r].at \in Nat /\ log[r].at <= now
    /\ flow \in Seq(1..Len(log)) /\ Len(flow) \in Nat /\ DOMAIN flow = 1..Len(flow)
    /\ ts \in Seq(1..Len(log)) /\ Len(ts) \in Nat /\ DOMAIN ts = 1..Len(ts)
    /\ \A i \in 1..Len(ts) : ts[i] \in 1..Len(log)
    /\ \A w \in sent : w.members \subseteq 1..Len(log) /\ w.upto \in 0..Len(log)

LEMMA Typed == WTypeOK => TypeFacts
<1>. SUFFICES ASSUME WTypeOK PROVE TypeFacts
  OBVIOUS
<1>1. now \in 0..MaxTime /\ position \in 0..Len(raw) /\ committed \in 0..Len(raw)
      /\ raw \in Seq([kind : Kinds, at : 0..now]) /\ Len(raw) <= MaxRaw
      /\ log \in Seq([off : Offsets, at : 0..now])
      /\ flow \in Seq(Readings) /\ ts \in Seq(Readings) /\ sent \subseteq Windows
  BY DEF WTypeOK
<1>2. now \in Nat /\ now <= MaxTime /\ Len(raw) \in Nat /\ DOMAIN raw = 1..Len(raw)
      /\ position \in Nat /\ position <= Len(raw) /\ committed \in Nat /\ committed <= Len(raw)
      /\ Len(log) \in Nat /\ Readings = 1..Len(log)
  BY <1>1
<1>3. \A i \in 1..Len(raw) : raw[i].kind \in Kinds
  <2>0. raw \in Seq([kind : Kinds, at : 0..now])
    BY <1>1
  <2>1. \A i \in 1..Len(raw) : raw[i] \in [kind : Kinds, at : 0..now]
    BY <2>0, ElementOfSeq
  <2>. QED  BY <2>1
<1>4. \A r \in 1..Len(log) : log[r].off \in Offsets /\ log[r].at \in 0..now
  <2>0. log \in Seq([off : Offsets, at : 0..now])
    BY <1>1
  <2>1. \A r \in 1..Len(log) : log[r] \in [off : Offsets, at : 0..now]
    BY <2>0, ElementOfSeq
  <2>. QED  BY <2>1
<1>5. \A r \in 1..Len(log) : log[r].off \in Nat /\ log[r].at \in Nat /\ log[r].at <= now
  BY <1>2, <1>4 DEF Offsets
<1>6. /\ flow \in Seq(1..Len(log)) /\ Len(flow) \in Nat /\ DOMAIN flow = 1..Len(flow)
      /\ ts \in Seq(1..Len(log)) /\ Len(ts) \in Nat /\ DOMAIN ts = 1..Len(ts)
      /\ \A i \in 1..Len(ts) : ts[i] \in 1..Len(log)
  <2>1. DOMAIN log = 1..Len(log)
    BY <1>2
  <2>2. flow \in Seq(1..Len(log)) /\ ts \in Seq(1..Len(log))
    BY <1>1, <2>1
  <2>. QED  BY <2>2, ElementOfSeq
<1>7. \A w \in sent : w.members \subseteq 1..Len(log) /\ w.upto \in 0..Len(log)
  <2>0. sent \subseteq Windows
    BY <1>1
  <2>1. \A w \in sent : w.members \in SUBSET Readings /\ w.upto \in 0..Len(log)
    <3>. SUFFICES ASSUME NEW w \in sent
                  PROVE  w.members \in SUBSET Readings /\ w.upto \in 0..Len(log)
      OBVIOUS
    <3>1. w \in [track : {"A", "B"}, key : Devices \cup {Unknown}, at : 0..MaxTime,
                 members : SUBSET Readings, upto : 0..Len(log)]
      BY <2>0 DEF Windows
    <3>. QED  BY <3>1
  <2>. QED  BY <1>2, <2>1
<1>. QED  BY <1>1, <1>2, <1>3, <1>4, <1>5, <1>6, <1>7 DEF TypeFacts

\* Times stay in range as the clock goes on.
LEMMA LaterLog ==
    ASSUME NEW a \in Nat, NEW b \in Nat, a <= b, NEW s \in Seq([off : Offsets, at : 0..a])
    PROVE  s \in Seq([off : Offsets, at : 0..b])
<1>1. [off : Offsets, at : 0..a] \subseteq [off : Offsets, at : 0..b]
  OBVIOUS
<1>. QED  BY <1>1, SeqMonotonic

LEMMA LaterTopic ==
    ASSUME NEW a \in Nat, NEW b \in Nat, a <= b, NEW s \in Seq([kind : Kinds, at : 0..a])
    PROVE  s \in Seq([kind : Kinds, at : 0..b])
<1>1. [kind : Kinds, at : 0..a] \subseteq [kind : Kinds, at : 0..b]
  OBVIOUS
<1>. QED  BY <1>1, SeqMonotonic

LEMMA InitiallyOk == WInit => WindowsInduct
<1>. SUFFICES ASSUME WInit PROVE WindowsInduct
  OBVIOUS
<1>. USE DEF WInit
<1>1. Readings = {} /\ Len(log) = 0 /\ Len(raw) = 0 /\ Len(flow) = 0 /\ Len(ts) = 0
  OBVIOUS
<1>2. WTypeOK
  <2>1. now \in 0..MaxTime /\ lastEmit \in 0..now /\ openedAt \in 0..now
        /\ faults \in 0..MaxFaults /\ life \in 1..MaxLives /\ position \in 0..Len(raw)
        /\ committed \in 0..Len(raw) /\ Len(raw) <= MaxRaw
    BY <1>1
  <2>2. raw \in Seq([kind : Kinds, at : 0..now]) /\ log \in Seq([off : Offsets, at : 0..now])
        /\ flow \in Seq(Readings) /\ ts \in Seq(Readings)
    OBVIOUS
  <2>3. \A w \in {flow, ts} : DOMAIN w = {}
    OBVIOUS
  <2>. QED  BY <2>1, <2>2, <2>3 DEF WTypeOK
<1>3. LogOk
  BY <1>1 DEF LogOk
<1>4. FlowOk /\ TsOk
  BY <1>1 DEF FlowOk, TsOk, Latest, Left
<1>5. DeviceOk
  BY <1>1 DEF DeviceOk
<1>6. FlowIsExact /\ LabelIsFromWindow /\ SamplesAccounted
  BY DEF FlowIsExact, LabelIsFromWindow, SamplesAccounted
<1>. QED  BY <1>2, <1>3, <1>4, <1>5, <1>6 DEF WindowsInduct

-----------------------------------------------------------------------------
(* Steps that leave the windows alone. *)

\* A sample arrives: nothing that was read changes.
LEMMA ArriveOk ==
    ASSUME WindowsInduct, NEW kind \in Kinds, Arrive(kind)
    PROVE  WindowsInduct'
<1>. USE DEF WindowsInduct, Arrive, loopvars
<1>1. /\ raw \in Seq([kind : Kinds, at : 0..now])
      /\ raw' \in Seq([kind : Kinds, at : 0..now]) /\ Len(raw') = Len(raw) + 1
      /\ \A i \in 1..Len(raw) : raw'[i] = raw[i]
      /\ log \in Seq([off : Offsets, at : 0..now]) /\ Len(raw) \in Nat
  BY DEF WTypeOK
<1>2. \A r \in Readings : log[r].off \in 1..Len(raw)
  BY Typed, SMTT(30) DEF TypeFacts, LogOk, Offsets
<1>3. \A r \in Readings : raw'[log[r].off] = raw[log[r].off]
  BY <1>1, <1>2
<1>4. WTypeOK'
  BY <1>1 DEF WTypeOK, Windows
<1>5. LogOk'
  BY <1>1, <1>2, <1>3 DEF LogOk
<1>6. FlowOk' /\ TsOk'
  BY DEF FlowOk, TsOk, Latest, Left
<1>7. DeviceOk'
  BY <1>3, ZenonT(60) DEF DeviceOk, Kind
<1>8. FlowIsExact'
  BY DEF FlowIsExact
<1>9. LabelIsFromWindow'
  <2>1. \A w \in sent : w.members \subseteq Readings
    BY Typed DEF TypeFacts
  <2>2. \A w \in sent : { raw'[log[r].off].kind : r \in w.members }
                           = { raw[log[r].off].kind : r \in w.members }
    BY <1>3, <2>1
  <2>. QED  BY <2>2, ZenonT(60) DEF LabelIsFromWindow
<1>10. SamplesAccounted'
  <2>1. \A i \in 1..position : raw'[i] = raw[i]
    BY <1>1 DEF WTypeOK
  <2>2. Samples(ts)' = Samples(ts)
    BY DEF Samples
  <2>. QED  BY <2>1, <2>2 DEF SamplesAccounted
<1>. QED  BY <1>4, <1>5, <1>6, <1>7, <1>8, <1>9, <1>10

\* The program counter moves, or the clock, or a fault is counted.
LEMMA PassOk ==
    ASSUME WindowsInduct,
           UNCHANGED <<raw, position, committed, loopvars, life, log, sent, counted, gone>>,
           now' \in {now, now + 1}, now' <= MaxTime, busy' \in BOOLEAN,
           pc' \in {"drain", "flow", "ts", "noconsumer", "noproducer"},
           faults' \in 0..MaxFaults
    PROVE  WindowsInduct'
<1>. USE DEF WindowsInduct, loopvars
<1>1. now \in Nat /\ now' \in Nat /\ now <= now' /\ now' \in 0..MaxTime
  BY Typed DEF TypeFacts
<1>2. log \in Seq([off : Offsets, at : 0..now']) /\ raw \in Seq([kind : Kinds, at : 0..now'])
  <2>1. raw \in Seq([kind : Kinds, at : 0..now]) /\ log \in Seq([off : Offsets, at : 0..now])
    BY Typed DEF TypeFacts
  <2>. QED  BY <1>1, <2>1, LaterLog, LaterTopic
<1>3. WTypeOK'
  <2>1. lastEmit' \in 0..now' /\ openedAt' \in 0..now'
    BY <1>1 DEF WTypeOK
  <2>2. sent' \subseteq Windows'
    BY DEF WTypeOK, Windows
  <2>. QED  BY <1>1, <1>2, <2>1, <2>2 DEF WTypeOK
<1>4. LogOk'
  BY <1>2 DEF LogOk
<1>5. FlowOk'
  <2>1. Latest(flow)' /\ Left(flow)' = Left(flow)
    BY DEF FlowOk, Latest, Left
  <2>2. \A r \in Left(flow) : log[r].at \in Nat
    BY Typed DEF TypeFacts, Left
  <2>. QED  BY <1>1, <2>1, <2>2 DEF FlowOk
<1>6. TsOk'
  BY DEF TsOk, Latest, Left
<1>7. DeviceOk' /\ FlowIsExact' /\ LabelIsFromWindow'
  BY DEF DeviceOk, Kind, FlowIsExact, LabelIsFromWindow
<1>8. SamplesAccounted'
  BY DEF SamplesAccounted, Samples
<1>. QED  BY <1>3, <1>4, <1>5, <1>6, <1>7, <1>8

\* A new consumer may go back, or forward over samples that are then lost.
LEMMA ReconnectOk == WindowsInduct /\ Reconnect => WindowsInduct'
<1>. SUFFICES ASSUME WindowsInduct, Reconnect PROVE WindowsInduct'
  OBVIOUS
<1>. USE DEF WindowsInduct, Reconnect, loopvars
<1>1. CASE pc = "noproducer"
  BY <1>1, PassOk DEF WTypeOK
<1>2. CASE pc # "noproducer"
  <2>1. /\ committed' \in committed..position /\ position' \in {Len(raw), committed'}
        /\ gone' = gone \cup (position+1)..position'
    BY <1>2 DEF Resume
  <2>2. /\ position \in Nat /\ position <= Len(raw) /\ Len(raw) \in Nat /\ Len(raw) <= MaxRaw
        /\ committed \in Nat /\ gone \subseteq Offsets
    BY Typed DEF TypeFacts, WTypeOK
  <2>3. position' \in 0..Len(raw) /\ committed' \in 0..Len(raw) /\ gone' \subseteq Offsets
    <3>1. position' \in 0..Len(raw) /\ committed' \in 0..Len(raw)
      BY <2>1, <2>2
    <3>2. (position+1)..position' \subseteq Offsets
      BY <2>2, <3>1 DEF Offsets
    <3>. QED  BY <2>1, <2>2, <3>1, <3>2
  <2>4. WTypeOK'
    BY <2>3 DEF WTypeOK, Windows
  <2>5. LogOk' /\ FlowOk' /\ TsOk' /\ DeviceOk' /\ FlowIsExact' /\ LabelIsFromWindow'
    BY DEF LogOk, FlowOk, TsOk, Latest, Left, DeviceOk, Kind, FlowIsExact, LabelIsFromWindow
  <2>6. SamplesAccounted'
    <3>1. Samples(ts)' = Samples(ts)
      BY DEF Samples
    <3>2. \A i \in 1..position' : i \in 1..position \/ i \in (position+1)..position'
      BY <2>2, <2>3
    <3>. QED  BY <2>1, <3>1, <3>2 DEF SamplesAccounted
  <2>. QED  BY <2>4, <2>5, <2>6
<1>. QED  BY <1>1, <1>2

LEMMA Beyond ==
    ASSUME NEW p \in Nat, NEW q \in Nat, NEW m \in Nat, NEW i \in 1..q
    PROVE  (i \in 1..p \/ i \in (p+1)..q) /\ i \notin (q+1)..m
OBVIOUS

\* A restart forgets all readings and what was in the buffers.
LEMMA RestartOk == WindowsInduct /\ Restart => WindowsInduct'
<1>. SUFFICES ASSUME WindowsInduct, Restart PROVE WindowsInduct'
  OBVIOUS
<1>. USE DEF WindowsInduct
<1>1. /\ committed' \in committed..position /\ position' \in {Len(raw), committed'}
  BY DEF Restart, Resume
<1>2. /\ position \in Nat /\ position <= Len(raw) /\ Len(raw) \in Nat /\ Len(raw) <= MaxRaw
      /\ committed \in Nat /\ life \in Nat /\ now \in 0..MaxTime
  BY Typed DEF TypeFacts, WTypeOK
<1>3. Readings' = {} /\ Len(log') = 0 /\ Len(flow') = 0 /\ Len(ts') = 0
  BY DEF Restart
<1>4. \A i \in DOMAIN ts : log[ts[i]].off \in Offsets
  BY Typed DEF TypeFacts
<1>5. Samples(ts) \subseteq Offsets
  BY <1>4 DEF Samples
<1>6. position' \in 0..Len(raw) /\ committed' \in 0..Len(raw)
  BY <1>1, <1>2
<1>7. gone' \subseteq Offsets
  <2>1. (position+1)..position' \subseteq Offsets
    BY <1>2, <1>6 DEF Offsets
  <2>2. gone \subseteq Offsets
    BY DEF WTypeOK
  <2>. QED  BY <1>5, <2>1, <2>2 DEF Restart
<1>8. WTypeOK'
  <2>1. lastEmit' \in 0..now' /\ openedAt' \in 0..now' /\ life' \in 1..MaxLives
    BY <1>2 DEF Restart
  <2>2. log' \in Seq([off : Offsets, at : 0..now'])
        /\ flow' \in Seq(Readings') /\ ts' \in Seq(Readings')
    BY DEF Restart
  <2>3. \A w \in {flow', ts'} : DOMAIN w = {}
    BY DEF Restart
  <2>4. sent' \subseteq Windows' /\ device' \in Devices \cup {Unknown} /\ busy' \in BOOLEAN
        /\ UNCHANGED <<now, raw, faults, counted>>
        /\ pc' \in {"drain", "flow", "ts", "noconsumer", "noproducer"}
    BY DEF Restart
  <2>. QED  BY <1>2, <1>6, <1>7, <2>1, <2>2, <2>3, <2>4 DEF WTypeOK
<1>9. LogOk' /\ FlowOk' /\ TsOk' /\ DeviceOk'
  BY <1>3 DEF Restart, LogOk, FlowOk, TsOk, Latest, Left, DeviceOk
<1>10. FlowIsExact' /\ LabelIsFromWindow'
  BY DEF Restart, FlowIsExact, LabelIsFromWindow
<1>11. SamplesAccounted'
  <2>1. \A i \in 1..position' : /\ i \in 1..position \/ i \in (position+1)..position'
                               /\ i \notin (position'+1)..MaxRaw
    <3>1. position' \in Nat /\ position \in Nat /\ MaxRaw \in Nat
      BY <1>2, <1>6
    <3>. HIDE DEF Readings
    <3>. QED  BY <3>1, Beyond
  <2>2. \A i \in 1..position' : i \in 1..position =>
            raw[i].kind = Blank \/ i \in Samples(ts) \cup counted \cup gone
    BY DEF SamplesAccounted
  <2>3. gone' = (gone \cup (position+1)..position' \cup Samples(ts)) \ (position'+1)..MaxRaw
        /\ UNCHANGED <<raw, counted>>
    BY DEF Restart
  <2>. QED  BY <2>1, <2>2, <2>3 DEF SamplesAccounted
<1>. QED  BY <1>8, <1>9, <1>10, <1>11

-----------------------------------------------------------------------------
(* A reading. *)

LEMMA AppendLatest ==
    ASSUME NEW w \in Seq(Nat), NEW n \in Nat, Len(w) <= n,
           \A i \in 1..Len(w) : w[i] = n - Len(w) + i
    PROVE  /\ Append(w, n+1) \in Seq(Nat) /\ Len(Append(w, n+1)) = Len(w) + 1
           /\ \A i \in 1..(Len(w)+1) : Append(w, n+1)[i] = (n+1) - (Len(w)+1) + i
           /\ (n+1) - Len(Append(w, n+1)) = n - Len(w)
<1>1. Len(w) \in Nat /\ Len(Append(w, n+1)) = Len(w) + 1
  OBVIOUS
<1>2. \A i \in 1..Len(w) : Append(w, n+1)[i] = w[i]
  OBVIOUS
<1>3. Append(w, n+1)[Len(w)+1] = n + 1
  OBVIOUS
<1>. QED  BY <1>1, <1>2, <1>3

LEMMA ReadOk == WindowsInduct /\ Read => WindowsInduct'
<1>. SUFFICES ASSUME WindowsInduct, Read PROVE WindowsInduct'
  OBVIOUS
<1>. USE DEF WindowsInduct
<1>0. TypeFacts
  BY Typed
<1>1. PICK i \in Nat : i = position + 1
  BY <1>0 DEF TypeFacts
<1>2. PICK r \in Nat : r = Len(log) + 1
  BY <1>0 DEF TypeFacts
<1>3. /\ i \in 1..Len(raw) /\ i \in Offsets /\ position' = i
      /\ busy' \in BOOLEAN
      /\ UNCHANGED <<now, raw, pc, committed, lastEmit, openedAt, faults, life, sent, counted, gone>>
  BY <1>0, <1>1 DEF Read, TypeFacts, Offsets
<1>4. CASE raw[i].kind = Blank
  <2>1. UNCHANGED <<device, flow, ts, log>>
    BY <1>1, <1>4 DEF Read
  <2>2. WTypeOK'
    <3>1. position' \in 0..Len(raw)
      BY <1>3
    <3>2. sent' \subseteq Windows'
      BY <1>3, <2>1 DEF WTypeOK, Windows
    <3>. QED  BY <1>3, <2>1, <3>1, <3>2 DEF WTypeOK
  <2>3. LogOk' /\ FlowOk' /\ TsOk' /\ DeviceOk' /\ FlowIsExact' /\ LabelIsFromWindow'
    <3>1. LogOk' /\ FlowOk' /\ TsOk'
      BY <1>3, <2>1 DEF LogOk, FlowOk, TsOk, Latest, Left
    <3>2. DeviceOk' /\ FlowIsExact' /\ LabelIsFromWindow'
      BY <1>3, <2>1 DEF DeviceOk, Kind, FlowIsExact, LabelIsFromWindow
    <3>. QED  BY <3>1, <3>2
  <2>4. SamplesAccounted'
    <3>1. Samples(ts)' = Samples(ts)
      BY <2>1 DEF Samples
    <3>2. \A j \in 1..position' : j \in 1..position \/ j = i
      BY <1>0, <1>1, <1>3 DEF TypeFacts
    <3>. QED  BY <1>3, <1>4, <3>1, <3>2 DEF SamplesAccounted
  <2>. QED  BY <2>2, <2>3, <2>4
<1>5. CASE raw[i].kind # Blank
  <2>1. /\ log' = Append(log, [off |-> i, at |-> now])
        /\ flow' = Append(flow, r) /\ ts' = Append(ts, r)
        /\ device' = DeviceAfter(raw[i].kind)
    BY <1>1, <1>2, <1>5 DEF Read
  <2>2. /\ log' \in Seq([off : Offsets, at : 0..now]) /\ Len(log') = r
        /\ \A q \in 1..Len(log) : log'[q] = log[q]
        /\ log'[r] = [off |-> i, at |-> now]
        /\ Readings = 1..Len(log) /\ Readings' = 1..r
    <3>1. log \in Seq([off : Offsets, at : 0..now]) /\ Len(log) \in Nat
          /\ [off |-> i, at |-> now] \in [off : Offsets, at : 0..now]
      BY <1>0, <1>3 DEF TypeFacts
    <3>. QED  BY <1>2, <2>1, <3>1, AppendProperties
  <2>3. Len(log) \in Nat /\ now \in Nat /\ Len(raw) \in Nat
    BY <1>0 DEF TypeFacts
  <2>4. flow \in Seq(Nat) /\ ts \in Seq(Nat) /\ Len(flow) \in Nat /\ Len(ts) \in Nat
    <3>1. flow \in Seq(1..Len(log)) /\ ts \in Seq(1..Len(log)) /\ 1..Len(log) \subseteq Nat
      BY <1>0 DEF TypeFacts
    <3>. QED  BY <3>1, SeqMonotonic
  <2>5. /\ Latest(flow)' /\ Left(flow)' = Left(flow) /\ Len(flow') = Len(flow) + 1
    <3>1. Len(flow) <= Len(log) /\ \A k \in 1..Len(flow) : flow[k] = Len(log) - Len(flow) + k
      BY DEF FlowOk, Latest
    <3>. QED  BY <1>2, <2>1, <2>2, <2>3, <2>4, <3>1, AppendLatest DEF Latest, Left
  <2>6. /\ Latest(ts)' /\ Left(ts)' = Left(ts) /\ Len(ts') = Len(ts) + 1
    <3>1. Len(ts) <= Len(log) /\ \A k \in 1..Len(ts) : ts[k] = Len(log) - Len(ts) + k
      BY DEF TsOk, Latest
    <3>. QED  BY <1>2, <2>1, <2>2, <2>3, <2>4, <3>1, AppendLatest DEF Latest, Left
  <2>7. raw[i].kind \in Devices \cup {NoId}
    BY <1>0, <1>3, <1>5 DEF TypeFacts, Kinds
  <2>8. WTypeOK'
    <3>1. flow' \in Seq(Readings') /\ ts' \in Seq(Readings')
      <4>1. flow \in Seq(1..Len(log)) /\ ts \in Seq(1..Len(log))
            /\ 1..Len(log) \subseteq 1..r /\ r \in 1..r
        BY <1>0, <1>2 DEF TypeFacts
      <4>2. flow \in Seq(1..r) /\ ts \in Seq(1..r)
        BY <4>1, SeqMonotonic
      <4>. QED  BY <2>1, <2>2, <4>1, <4>2, AppendProperties
    <3>2. \A w \in {flow', ts'} : \A j, k \in DOMAIN w : j < k => w[j] < w[k]
      <4>1. ASSUME NEW w, Len(w) \in Nat, DOMAIN w = 1..Len(w), Latest(w)'
            PROVE  \A j, k \in DOMAIN w : j < k => w[j] < w[k]
        BY <2>2, <4>1 DEF Latest
      <4>2. /\ Len(flow') \in Nat /\ DOMAIN flow' = 1..Len(flow')
            /\ Len(ts') \in Nat /\ DOMAIN ts' = 1..Len(ts')
        BY <3>1
      <4>. QED  BY <2>5, <2>6, <4>1, <4>2 DEF Latest
    <3>3. sent' \subseteq Windows'
      <4>1. Readings \subseteq Readings' /\ 0..Len(log) \subseteq 0..Len(log')
        BY <1>2, <2>2, <2>3
      <4>2. sent \subseteq Windows
        BY DEF WTypeOK
      <4>. QED  BY <1>3, <4>1, <4>2 DEF Windows
    <3>4. device' \in Devices \cup {Unknown}
      BY <2>1, <2>7 DEF DeviceAfter, WTypeOK
    <3>5. position' \in 0..Len(raw)
      BY <1>3
    <3>. QED  BY <1>3, <2>2, <3>1, <3>2, <3>3, <3>4, <3>5 DEF WTypeOK
  <2>9. LogOk'
    <3>1. \A q \in 1..Len(log) :
              /\ log'[q] = log[q] /\ log[q].at \in Nat /\ log[q].at <= now
              /\ log[q].off <= Len(raw) /\ raw[log[q].off].kind # Blank
      BY <1>0, <2>2 DEF TypeFacts, LogOk
    <3>2. log'[r].off = i /\ log'[r].at = now /\ i <= Len(raw)
      BY <1>3, <2>2, <2>3
    <3>3. \A q \in 1..r : q \in 1..Len(log) \/ q = r
      BY <1>2, <2>3
    <3>4. \A q \in Readings' : log'[q].off <= Len(raw') /\ raw'[log'[q].off].kind # Blank
      BY <1>3, <1>5, <2>2, <3>1, <3>2, <3>3
    <3>5. \A p, q \in Readings' : p < q => log'[p].at <= log'[q].at
      <4>. SUFFICES ASSUME NEW p \in 1..r, NEW q \in 1..r, p < q
                    PROVE  log'[p].at <= log'[q].at
        BY <2>2
      <4>1. p \in 1..Len(log)
        BY <1>2, <2>3
      <4>2. CASE q = r
        BY <3>1, <3>2, <4>1, <4>2
      <4>3. CASE q \in 1..Len(log)
        BY <2>2, <3>1, <4>1, <4>3 DEF LogOk
      <4>. QED  BY <3>3, <4>2, <4>3
    <3>. QED  BY <1>3, <2>2, <3>4, <3>5 DEF LogOk
  <2>10. FlowOk'
    <3>1. \A q \in Left(flow) : q \in 1..Len(log)
      BY <2>3, <2>4 DEF Left
    <3>2. \A q \in Left(flow) : log'[q].at < now - FlowWindow
      BY <2>2, <3>1 DEF FlowOk
    <3>. QED  BY <1>3, <2>5, <3>2 DEF FlowOk
  <2>11. TsOk'
    BY <1>3, <2>6 DEF TsOk
  <2>12. \A q \in 1..Len(log) : Kind(q)' = Kind(q)
    BY <1>3, <2>2 DEF Kind
  <2>13. Kind(r)' = raw[i].kind
    BY <1>3, <2>2 DEF Kind
  <2>14. DeviceOk'
    <3>. SUFFICES ASSUME NEW k \in 1..r, NEW q \in 1..r, k <= q, Kind(q)' \in Devices
                  PROVE  \E p \in 1..r : k <= p /\ Kind(p)' \in Devices /\ Kind(p)' = device'
      BY <2>2 DEF DeviceOk
    <3>1. CASE raw[i].kind # NoId
      <4>1. r \in 1..r /\ k <= r
        BY <1>2, <2>3
      <4>2. device' = raw[i].kind /\ raw[i].kind \in Devices
        BY <2>1, <2>7, <3>1 DEF DeviceAfter
      <4>. QED  BY <2>13, <4>1, <4>2
    <3>2. CASE raw[i].kind = NoId
      <4>1. q # r
        BY <2>13, <3>2
      <4>2. q \in 1..Len(log) /\ k \in 1..Len(log)
        BY <1>2, <2>3, <4>1
      <4>3. Kind(q) \in Devices
        BY <2>12, <4>2
      <4>4. PICK p \in 1..Len(log) : k <= p /\ Kind(p) \in Devices /\ Kind(p) = device
        BY <2>2, <4>2, <4>3 DEF DeviceOk
      <4>5. p \in 1..r /\ device' = device
        BY <1>2, <2>1, <2>3, <3>2 DEF DeviceAfter
      <4>. QED  BY <2>12, <4>4, <4>5
    <3>. QED  BY <3>1, <3>2
  <2>15. \A w \in sent : w.members \subseteq 1..Len(log) /\ w.upto \in 0..Len(log)
    BY <1>0 DEF TypeFacts
  <2>16. FlowIsExact'
    <3>. SUFFICES ASSUME NEW w \in sent, w.track = "A"
                  PROVE  w.members = { q \in 1..w.upto : log'[q].at >= w.at - FlowWindow }
      BY <1>3 DEF FlowIsExact
    <3>1. \A q \in 1..w.upto : log'[q] = log[q]
      BY <2>2, <2>3, <2>15
    <3>. QED  BY <3>1 DEF FlowIsExact
  <2>17. LabelIsFromWindow'
    <3>1. \A w \in sent : \A q \in w.members : log'[q] = log[q]
      BY <2>2, <2>15
    <3>2. \A w \in sent : { raw'[log'[q].off].kind : q \in w.members }
                             = { raw[log[q].off].kind : q \in w.members }
      BY <1>3, <3>1
    <3>. QED  BY <1>3, <3>2 DEF LabelIsFromWindow
  <2>18. SamplesAccounted'
    <3>1. Samples(ts) \cup {i} \subseteq Samples(ts)'
      <4>1. DOMAIN ts = 1..Len(ts) /\ \A j \in 1..Len(ts) : ts[j] \in 1..Len(log)
        BY <1>0 DEF TypeFacts
      <4>2. DOMAIN ts' = 1..(Len(ts)+1) /\ ts'[Len(ts)+1] = r /\ \A j \in 1..Len(ts) : ts'[j] = ts[j]
        BY <2>1, <2>4, AppendProperties
      <4>3. \A j \in DOMAIN ts : j \in DOMAIN ts' /\ log'[ts'[j]].off = log[ts[j]].off
        BY <2>2, <2>4, <4>1, <4>2
      <4>4. Len(ts) + 1 \in DOMAIN ts' /\ log'[ts'[Len(ts)+1]].off = i
        BY <2>2, <2>4, <4>2
      <4>. QED  BY <4>3, <4>4 DEF Samples
    <3>2. \A j \in 1..position' : j \in 1..position \/ j = i
      BY <1>0, <1>1, <1>3 DEF TypeFacts
    <3>. QED  BY <1>3, <3>1, <3>2 DEF SamplesAccounted
  <2>. QED  BY <2>8, <2>9, <2>10, <2>11, <2>14, <2>16, <2>17, <2>18
<1>. QED  BY <1>4, <1>5

-----------------------------------------------------------------------------
(* The two branches that emit. *)

LEMMA Members ==
    ASSUME TypeFacts, NEW w \in Seq(1..Len(log)), Latest(w)
    PROVE  /\ { w[i] : i \in DOMAIN w } = Inside(w)
           /\ 1..Len(log) = Left(w) \cup Inside(w) /\ Left(w) \cap Inside(w) = {}
<1>1. Len(log) \in Nat /\ Len(w) \in Nat /\ DOMAIN w = 1..Len(w) /\ Len(w) <= Len(log)
      /\ \A i \in 1..Len(w) : w[i] = Len(log) - Len(w) + i
  BY DEF TypeFacts, Latest
<1>2. \A r \in Inside(w) : r - (Len(log) - Len(w)) \in 1..Len(w)
                          /\ r = Len(log) - Len(w) + (r - (Len(log) - Len(w)))
  BY <1>1 DEF Inside
<1>3. \A i \in 1..Len(w) : w[i] \in Inside(w)
  BY <1>1 DEF Inside
<1>4. { w[i] : i \in DOMAIN w } = Inside(w)
  BY <1>1, <1>2, <1>3
<1>5. 1..Len(log) = Left(w) \cup Inside(w) /\ Left(w) \cap Inside(w) = {}
  BY <1>1 DEF Left, Inside
<1>. QED  BY <1>4, <1>5

\* What a buffer that keeps the latest readings is emitted as.
LEMMA WindowOk ==
    ASSUME WindowsInduct, NEW w \in Seq(1..Len(log)), Latest(w), NEW track \in {"A", "B"}
    PROVE  /\ Window(track, w) \in Windows
           /\ Window(track, w).track = track /\ Window(track, w).at = now
           /\ Window(track, w).upto = Len(log) /\ Window(track, w).members = Inside(w)
           /\ LET named == { raw[log[r].off].kind : r \in Window(track, w).members } \cap Devices
              IN  named # {} => Window(track, w).key \in named
<1>. USE DEF WindowsInduct
<1>0. TypeFacts
  BY Typed
<1>1. { w[i] : i \in DOMAIN w } = Inside(w) /\ Inside(w) \subseteq 1..Len(log)
  BY <1>0, Members
<1>2. Window(track, w) = [track |-> track, key |-> device, at |-> now, upto |-> Len(log),
                          members |-> Inside(w)]
  BY <1>1 DEF Window
<1>3. Window(track, w) \in Windows
  <2>1. now \in 0..MaxTime /\ device \in Devices \cup {Unknown}
    BY DEF WTypeOK
  <2>2. Readings = 1..Len(log) /\ Len(log) \in 0..Len(log)
    BY <1>0 DEF TypeFacts
  <2>. QED  BY <1>1, <1>2, <2>1, <2>2 DEF Windows
<1>4. ASSUME { raw[log[r].off].kind : r \in Inside(w) } \cap Devices # {}
      PROVE  device \in { raw[log[r].off].kind : r \in Inside(w) } \cap Devices
  <2>1. PICK r \in Inside(w) : Kind(r) \in Devices
    BY <1>4 DEF Kind
  <2>0. Len(log) \in Nat /\ Len(w) \in Nat /\ Len(w) <= Len(log)
    BY <1>0 DEF TypeFacts, Latest
  <2>1a. Len(log) - Len(w) + 1 \in Nat
    BY <2>0
  <2>2. PICK k \in Nat : k = Len(log) - Len(w) + 1
    BY <2>1a
  <2>3. k \in 1..Len(log) /\ r \in 1..Len(log) /\ k <= r
    BY <2>0, <2>2 DEF Inside
  <2>4. PICK q \in 1..Len(log) : k <= q /\ Kind(q) \in Devices /\ Kind(q) = device
    BY <1>0, <2>1, <2>3 DEF DeviceOk, TypeFacts
  <2>5. q \in Inside(w)
    BY <1>0, <2>2, <2>4 DEF Inside, TypeFacts
  <2>. QED  BY <2>4, <2>5 DEF Kind
<1>. QED  BY <1>2, <1>3, <1>4

\* Eviction takes out what is too old for the window, and nothing else: readings are
\* logged by a clock that does not run backwards.
LEMMA EvictedOk ==
    ASSUME WindowsInduct
    PROVE  /\ Evicted(flow) \in Seq(1..Len(log)) /\ Latest(Evicted(flow))
           /\ \A r \in Left(Evicted(flow)) : log[r].at < now - FlowWindow
           /\ \A r \in Inside(Evicted(flow)) : log[r].at >= now - FlowWindow
<1>. USE DEF WindowsInduct
<1>0. TypeFacts /\ Latest(flow) /\ \A r \in Left(flow) : log[r].at < now - FlowWindow
  BY Typed DEF FlowOk
<1>1. /\ Len(log) \in Nat /\ Len(flow) \in Nat /\ Len(flow) <= Len(log) /\ now \in Nat
      /\ flow \in Seq(1..Len(log)) /\ DOMAIN flow = 1..Len(flow)
      /\ \A i \in 1..Len(flow) : flow[i] = Len(log) - Len(flow) + i
      /\ \A r \in 1..Len(log) : log[r].at \in Nat
  BY <1>0 DEF TypeFacts, Latest
<1>2. \A i \in 1..Len(flow) : i \notin Fresh(flow) => log[flow[i]].at < now - FlowWindow
  <2>1. \A i \in 1..Len(flow) : flow[i] \in 1..Len(log)
    BY <1>1
  <2>. QED  BY <1>1, <2>1 DEF Fresh
<1>3. CASE Fresh(flow) = {}
  <2>1. Evicted(flow) = <<>>
    BY <1>3 DEF Evicted
  <2>2. ASSUME NEW r \in 1..Len(log) PROVE log[r].at < now - FlowWindow
    <3>1. r \in Left(flow) \/ \E i \in DOMAIN flow : r = flow[i]
      <4>1. { flow[i] : i \in DOMAIN flow } = Inside(flow)
            /\ 1..Len(log) = Left(flow) \cup Inside(flow)
        BY <1>0, <1>1, Members
      <4>. QED  BY <4>1
    <3>. QED  BY <1>0, <1>1, <1>2, <1>3, <3>1
  <2>3. Len(<<>>) = 0 /\ <<>> \in Seq(1..Len(log))
    OBVIOUS
  <2>. QED  BY <1>1, <2>1, <2>2, <2>3 DEF Latest, Left, Inside
<1>4. CASE Fresh(flow) # {}
  <2>1. Fresh(flow) \in SUBSET Nat
    BY <1>1 DEF Fresh
  <2>2. PICK k \in Fresh(flow) : k = Min(Fresh(flow)) /\ \A j \in Fresh(flow) : k <= j
    BY <1>4, <2>1, LeastOf
  <2>3. /\ k \in 1..Len(flow) /\ log[flow[k]].at >= now - FlowWindow
        /\ Evicted(flow) = SubSeq(flow, k, Len(flow))
    BY <1>1, <1>4, <2>2 DEF Fresh, Evicted
  <2>4. PICK e : e = SubSeq(flow, k, Len(flow))
    OBVIOUS
  <2>5. /\ e \in Seq(1..Len(log)) /\ Len(e) = Len(flow) - k + 1
        /\ \A i \in 1..(Len(flow) - k + 1) : e[i] = flow[k + i - 1]
    BY <1>1, <2>3, <2>4, SubSeqProperties
  <2>6. Latest(e)
    <3>1. \A i \in 1..Len(e) : k + i - 1 \in 1..Len(flow)
      BY <1>1, <2>3, <2>5
    <3>2. \A i \in 1..Len(e) : e[i] = Len(log) - Len(flow) + (k + i - 1)
      BY <1>1, <2>5, <3>1
    <3>. QED  BY <1>1, <2>3, <2>5, <3>2 DEF Latest
  <2>7. ASSUME NEW r \in Left(e) PROVE log[r].at < now - FlowWindow
    <3>1. CASE r \in Left(flow)
      BY <1>0, <3>1
    <3>2. CASE r \notin Left(flow)
      <4>0. r \in Int
        BY DEF Left
      <4>1. PICK j \in Int : j = r - (Len(log) - Len(flow))
        BY <1>1, <4>0
      <4>2. j \in 1..Len(flow) /\ j < k /\ r = Len(log) - Len(flow) + j
        BY <1>1, <2>3, <2>5, <3>2, <4>1, SMTT(60) DEF Left
      <4>3. j \notin Fresh(flow) /\ flow[j] = r
        BY <1>1, <2>2, <2>3, <4>2
      <4>. QED  BY <1>2, <4>2, <4>3
    <3>. QED  BY <3>1, <3>2
  <2>8. ASSUME NEW r \in Inside(e) PROVE log[r].at >= now - FlowWindow
    <3>1. flow[k] \in 1..Len(log) /\ r \in 1..Len(log) /\ flow[k] <= r
      BY <1>1, <2>3, <2>5 DEF Inside
    <3>2. Readings = 1..Len(log) /\ \A p, q \in Readings : p < q => log[p].at <= log[q].at
      BY <1>0 DEF LogOk, TypeFacts
    <3>3. log[flow[k]].at \in Nat /\ log[r].at \in Nat /\ log[flow[k]].at <= log[r].at
      <4>1. CASE flow[k] = r
        BY <1>1, <3>1, <4>1
      <4>2. CASE flow[k] < r
        BY <1>1, <3>1, <3>2, <4>2
      <4>3. flow[k] = r \/ flow[k] < r
        BY <3>1
      <4>. QED  BY <4>1, <4>2, <4>3
    <3>4. PICK u, v : u = log[flow[k]].at /\ v = log[r].at
      OBVIOUS
    <3>5. u \in Nat /\ v \in Nat /\ u <= v /\ u >= now - FlowWindow
      BY <2>3, <3>3, <3>4
    <3>6. now \in Int
      BY <1>0 DEF TypeFacts
    <3>7. v >= now - FlowWindow
      BY <3>5, <3>6
    <3>. QED  BY <3>4, <3>7
  <2>. QED  BY <2>3, <2>4, <2>5, <2>6, <2>7, <2>8
<1>. QED  BY <1>3, <1>4

LEMMA SamplesInTopic == WindowsInduct => Samples(ts) \subseteq Offsets
<1>. SUFFICES ASSUME WindowsInduct PROVE Samples(ts) \subseteq Offsets
  OBVIOUS
<1>1. \A i \in DOMAIN ts : log[ts[i]].off \in Offsets
  BY Typed DEF WindowsInduct, TypeFacts
<1>. QED  BY <1>1 DEF Samples

LEMMA SortedBuffer ==
    ASSUME NEW w, Len(w) \in Nat, DOMAIN w = 1..Len(w), Len(log) \in Nat, Latest(w)
    PROVE  \A i, j \in DOMAIN w : i < j => w[i] < w[j]
BY DEF Latest

LEMMA FlowOkNext == WindowsInduct /\ FlowBranch => WindowsInduct'
<1>. SUFFICES ASSUME WindowsInduct, FlowBranch PROVE WindowsInduct'
  OBVIOUS
<1>. USE DEF WindowsInduct
<1>0. TypeFacts /\ Len(log) \in Nat /\ now \in Nat /\ now \in 0..MaxTime
  BY Typed DEF TypeFacts
<1>1. UNCHANGED <<now, raw, busy, position, committed, ts, openedAt, device, life,
                  log, counted, gone>>
  BY DEF FlowBranch
<1>2. CASE ~FlowDue
  <2>1. pc' = "ts" /\ UNCHANGED <<flow, lastEmit, faults, sent>>
    BY <1>2 DEF FlowBranch
  <2>2. busy' \in BOOLEAN /\ now' \in {now, now + 1} /\ now' <= MaxTime /\ faults' \in 0..MaxFaults
    BY <1>0, <1>1, <2>1 DEF WTypeOK
  <2>. QED  BY <1>1, <2>1, <2>2, PassOk DEF loopvars
<1>3. CASE FlowDue
  <2>1. PICK e : e = Evicted(flow)
    OBVIOUS
  <2>2. /\ e \in Seq(1..Len(log)) /\ Latest(e)
        /\ \A r \in Left(e) : log[r].at < now - FlowWindow
        /\ \A r \in Inside(e) : log[r].at >= now - FlowWindow
    BY <2>1, EvictedOk
  <2>3. flow' = e /\ lastEmit' = now
    BY <1>3, <2>1 DEF FlowBranch
  <2>4. /\ sent' = sent \/ sent' = { w \in sent : w.track = "B" } \cup {Window("A", e)}
        /\ pc' \in {"ts", "noproducer"}
        /\ faults' = faults \/ (faults < MaxFaults /\ faults' = faults + 1)
    BY <1>3, <2>1 DEF FlowBranch, Send
  <2>5. PICK x : x = Window("A", e)
    OBVIOUS
  <2>6. /\ x \in Windows /\ x.track = "A" /\ x.at = now /\ x.upto = Len(log)
        /\ x.members = Inside(e)
        /\ LET named == { raw[log[r].off].kind : r \in x.members } \cap Devices
           IN  named # {} => x.key \in named
    BY <2>2, <2>5, WindowOk
  <2>7. \A w \in sent' : w \in sent \/ w = x
    BY <2>4, <2>5
  <2>8. \A w \in sent' : w.track = "B" => w \in sent
    BY <2>4, <2>5, <2>6
  <2>9. \A w \in sent : w.track = "B" => w \in sent'
    BY <2>4
  <2>10. WTypeOK'
    <3>1. flow' \in Seq(Readings') /\ Readings = 1..Len(log)
      BY <1>0, <1>1, <2>2, <2>3 DEF TypeFacts
    <3>2. \A w \in {flow', ts'} : \A i, j \in DOMAIN w : i < j => w[i] < w[j]
      <4>1. \A i, j \in DOMAIN e : i < j => e[i] < e[j]
        BY <1>0, <2>2, SortedBuffer
      <4>2. \A i, j \in DOMAIN ts : i < j => ts[i] < ts[j]
        BY DEF WTypeOK
      <4>. QED  BY <1>1, <2>3, <4>1, <4>2
    <3>3. sent' \subseteq Windows'
      <4>1. \A w \in sent' : w \in Windows
        BY <2>6, <2>7 DEF WTypeOK
      <4>2. Windows' = Windows
        BY <1>1 DEF Windows
      <4>. QED  BY <4>1, <4>2
    <3>4. faults' \in 0..MaxFaults /\ lastEmit' \in 0..now'
      BY <1>0, <1>1, <2>3, <2>4 DEF WTypeOK
    <3>. QED  BY <1>1, <2>4, <3>1, <3>2, <3>3, <3>4 DEF WTypeOK
  <2>11. LogOk' /\ DeviceOk'
    BY <1>1 DEF LogOk, DeviceOk, Kind
  <2>12. FlowOk'
    BY <1>1, <2>2, <2>3 DEF FlowOk, Latest, Left
  <2>13. TsOk'
    <3>1. Latest(ts)' /\ Left(ts)' = Left(ts)
      BY <1>1 DEF TsOk, Latest, Left
    <3>. QED  BY <2>8, <2>9, <3>1 DEF TsOk
  <2>14. FlowIsExact'
    <3>1. x.members = { r \in 1..x.upto : log[r].at >= x.at - FlowWindow }
      <4>1. 1..Len(log) = Left(e) \cup Inside(e)
        BY <1>0, <2>2, Members
      <4>2. \A r \in 1..Len(log) : log[r].at \in Nat
        BY <1>0 DEF TypeFacts
      <4>3. \A r \in 1..Len(log) : r \in Inside(e) <=> log[r].at >= now - FlowWindow
        <5>. SUFFICES ASSUME NEW r \in 1..Len(log)
                      PROVE  r \in Inside(e) <=> log[r].at >= now - FlowWindow
          OBVIOUS
        <5>1. CASE r \in Inside(e)
          BY <2>2, <5>1
        <5>2. CASE r \notin Inside(e)
          <6>1. log[r].at < now - FlowWindow /\ log[r].at \in Nat
            BY <2>2, <4>1, <4>2, <5>2
          <6>2. ~ (log[r].at >= now - FlowWindow)
            BY <1>0, <6>1
          <6>. QED  BY <5>2, <6>2
        <5>. QED  BY <5>1, <5>2
      <4>. QED  BY <2>6, <4>1, <4>3
    <3>. QED  BY <1>1, <2>7, <3>1 DEF FlowIsExact
  <2>15. LabelIsFromWindow'
    BY <1>1, <2>6, <2>7 DEF LabelIsFromWindow
  <2>16. SamplesAccounted'
    BY <1>1 DEF SamplesAccounted, Samples
  <2>. QED  BY <2>10, <2>11, <2>12, <2>13, <2>14, <2>15, <2>16
<1>. QED  BY <1>2, <1>3

LEMMA TsOkNext == WindowsInduct /\ TsBranch => WindowsInduct'
<1>. SUFFICES ASSUME WindowsInduct, TsBranch PROVE WindowsInduct'
  OBVIOUS
<1>. USE DEF WindowsInduct
<1>0. TypeFacts /\ Len(log) \in Nat /\ now \in Nat /\ now \in 0..MaxTime
  BY Typed DEF TypeFacts
<1>1. UNCHANGED <<now, raw, busy, position, committed, flow, lastEmit, device, life, log, gone>>
  BY DEF TsBranch
<1>2. CASE ~TsDue
  <2>1. pc' = "drain" /\ UNCHANGED <<ts, openedAt, faults, sent, counted>>
    BY <1>2 DEF TsBranch
  <2>2. busy' \in BOOLEAN /\ now' \in {now, now + 1} /\ now' <= MaxTime /\ faults' \in 0..MaxFaults
    BY <1>0, <1>1, <2>1 DEF WTypeOK
  <2>. QED  BY <1>1, <2>1, <2>2, PassOk DEF loopvars
<1>3. CASE TsDue
  <2>1. ts' = <<>> /\ openedAt' = now /\ counted' = counted \cup Samples(ts)
    BY <1>3 DEF TsBranch, Kept
  <2>2. /\ \/ ts = <<>> /\ sent' = sent
           \/ sent' = { w \in sent : w.track = "B" } \cup {Window("B", ts)}
        /\ pc' \in {"drain", "noproducer"}
        /\ faults' = faults \/ (faults < MaxFaults /\ faults' = faults + 1)
    BY <1>3 DEF TsBranch, Send
  <2>3. PICK x : x = Window("B", ts)
    OBVIOUS
  <2>4. ts \in Seq(1..Len(log)) /\ Latest(ts)
    BY <1>0 DEF TypeFacts, TsOk
  <2>5. /\ x \in Windows /\ x.track = "B" /\ x.at = now /\ x.members = Inside(ts)
        /\ LET named == { raw[log[r].off].kind : r \in x.members } \cap Devices
           IN  named # {} => x.key \in named
    BY <2>3, <2>4, WindowOk
  <2>6. \A w \in sent' : w \in sent \/ w = x
    BY <2>2, <2>3
  <2>7. \A w \in sent : w.track = "B" => w \in sent'
    BY <2>2
  <2>8. 1..Len(log) = Left(ts) \cup Inside(ts) /\ Left(ts) \cap Inside(ts) = {}
    BY <1>0, <2>4, Members
  <2>9. Latest(ts)' /\ Left(ts)' = 1..Len(log)
    BY <1>0, <1>1, <2>1 DEF Latest, Left
  <2>10. WTypeOK'
    <3>1. ts' \in Seq(Readings') /\ DOMAIN ts' = {}
      BY <2>1
    <3>2. \A w \in {flow', ts'} : \A i, j \in DOMAIN w : i < j => w[i] < w[j]
      <4>1. \A i, j \in DOMAIN flow : i < j => flow[i] < flow[j]
        BY DEF WTypeOK
      <4>. QED  BY <1>1, <3>1, <4>1
    <3>3. sent' \subseteq Windows'
      <4>1. \A w \in sent' : w \in Windows
        BY <2>5, <2>6 DEF WTypeOK
      <4>2. Windows' = Windows
        BY <1>1 DEF Windows
      <4>. QED  BY <4>1, <4>2
    <3>4. faults' \in 0..MaxFaults /\ openedAt' \in 0..now'
      BY <1>0, <1>1, <2>1, <2>2 DEF WTypeOK
    <3>5. counted' \subseteq Offsets
      BY <2>1, SamplesInTopic DEF WTypeOK
    <3>. QED  BY <1>1, <2>2, <3>1, <3>2, <3>3, <3>4, <3>5 DEF WTypeOK
  <2>11. LogOk' /\ DeviceOk'
    BY <1>1 DEF LogOk, DeviceOk, Kind
  <2>12. FlowOk'
    BY <1>1 DEF FlowOk, Latest, Left
  <2>13. TsOk'
    <3>1. \A w \in sent' : w.track = "B" => w.members \subseteq 1..Len(log)
      BY <2>5, <2>6, <2>8 DEF TsOk
    <3>2. ASSUME NEW r \in 1..Len(log)
          PROVE  \E w \in sent' : w.track = "B" /\ r \in w.members
      <4>1. CASE r \in Left(ts)
        BY <2>7, <4>1 DEF TsOk
      <4>2. CASE r \in Inside(ts)
        <5>1. ts # <<>>
          BY <1>0, <4>2 DEF Inside
        <5>2. x \in sent'
          BY <2>2, <2>3, <5>1
        <5>. QED  BY <2>5, <4>2, <5>2
      <4>. QED  BY <2>8, <4>1, <4>2
    <3>3. \A v, w \in sent' : v.track = "B" /\ w.track = "B" => v = w \/ v.members \cap w.members = {}
      <4>. SUFFICES ASSUME NEW v \in sent', NEW w \in sent', v.track = "B", w.track = "B", v # w
                    PROVE  v.members \cap w.members = {}
        OBVIOUS
      <4>1. CASE v \in sent /\ w \in sent
        BY <4>1 DEF TsOk
      <4>2. CASE v \in sent /\ w = x
        BY <2>5, <2>8, <4>2 DEF TsOk
      <4>3. CASE v = x /\ w \in sent
        BY <2>5, <2>8, <4>3 DEF TsOk
      <4>. QED  BY <2>6, <4>1, <4>2, <4>3
    <3>. QED  BY <2>9, <3>1, <3>2, <3>3 DEF TsOk
  <2>14. FlowIsExact'
    <3>1. \A w \in sent' : w.track = "A" => w \in sent
      BY <2>5, <2>6
    <3>. QED  BY <1>1, <3>1 DEF FlowIsExact
  <2>15. LabelIsFromWindow'
    BY <1>1, <2>5, <2>6 DEF LabelIsFromWindow
  <2>16. SamplesAccounted'
    BY <1>1, <2>1 DEF SamplesAccounted
  <2>. QED  BY <2>10, <2>11, <2>12, <2>13, <2>14, <2>15, <2>16
<1>. QED  BY <1>2, <1>3

-----------------------------------------------------------------------------
(* The theorems. *)

LEMMA NextOk == WindowsInduct /\ [WNext]_wvars => WindowsInduct'
<1>. SUFFICES ASSUME WindowsInduct, [WNext]_wvars PROVE WindowsInduct'
  OBVIOUS
<1>0. /\ now \in Nat /\ now <= MaxTime /\ now \in {now, now + 1} /\ busy \in BOOLEAN
      /\ pc \in {"drain", "flow", "ts", "noconsumer", "noproducer"}
      /\ faults \in 0..MaxFaults
  BY Typed DEF WindowsInduct, WTypeOK, TypeFacts
<1>1. ASSUME NEW kind \in Kinds, Arrive(kind) PROVE WindowsInduct'
  BY <1>1, ArriveOk
<1>2. CASE Read
  BY <1>2, ReadOk
<1>3. CASE DrainEnds
  BY <1>0, <1>3, PassOk DEF DrainEnds
<1>4. CASE ConsumerError
  <2>1. faults' \in 0..MaxFaults
    BY <1>0, <1>4 DEF ConsumerError
  <2>. QED  BY <1>0, <1>4, <2>1, PassOk DEF ConsumerError
<1>5. CASE FlowBranch
  BY <1>5, FlowOkNext
<1>6. CASE TsBranch
  BY <1>6, TsOkNext
<1>7. CASE Reconnect
  BY <1>7, ReconnectOk
<1>8. CASE Restart
  BY <1>8, RestartOk
<1>9. CASE Tick
  <2>1. now' \in {now, now + 1} /\ now' <= MaxTime
    BY <1>0, <1>9 DEF Tick
  <2>. QED  BY <1>0, <1>9, <2>1, PassOk DEF Tick
<1>10. CASE UNCHANGED wvars
  BY <1>0, <1>10, PassOk DEF wvars, loopvars
<1>. QED  BY <1>1, <1>2, <1>3, <1>4, <1>5, <1>6, <1>7, <1>8, <1>9, <1>10 DEF WNext

\* Both buffers always hold the latest readings in order, what has left them is
\* too old or in exactly one emitted window, the device seen last is one the latest
\* readings name, and no sample is passed over (run, SlidingWindow, TumblingWindow).
THEOREM WindowsInvariant == WSpec => []WindowsInduct
<1>1. WInit => WindowsInduct
  BY InitiallyOk
<1>2. WindowsInduct /\ [WNext]_wvars => WindowsInduct'
  BY NextOk
<1>. QED  BY <1>1, <1>2, PTL DEF WSpec

\* A Track A window holds exactly the readings of the last FlowWindow ticks, at every
\* emission, however many were skipped by an absent broker (SlidingWindow.emit).
THEOREM FlowExact == WSpec => []FlowIsExact
<1>1. WindowsInduct => FlowIsExact
  BY DEF WindowsInduct
<1>. QED  BY <1>1, WindowsInvariant, PTL

\* The label of a window is a device of one of its samples, if any of them names
\* its device (last_device_id in run).
THEOREM LabelsHonest == WSpec => []LabelIsFromWindow
<1>1. WindowsInduct => LabelIsFromWindow
  BY DEF WindowsInduct
<1>. QED  BY <1>1, WindowsInvariant, PTL

\* The Track B windows of a life and the one being filled partition its readings, and
\* every sample behind the consumer is in one of them or known to be lost
\* (TumblingWindow.emit, _send, _connect_with_backoff).
THEOREM WindowsPartition == WSpec => []WindowsInv
<1>1. WindowsInduct => WindowsInv
  <2>. SUFFICES ASSUME WindowsInduct PROVE TsPartition
    BY DEF WindowsInduct, WindowsInv
  <2>1. TypeFacts /\ TsOk
    BY Typed DEF WindowsInduct
  <2>2. /\ { ts[i] : i \in DOMAIN ts } = Inside(ts)
        /\ Readings = Left(ts) \cup Inside(ts) /\ Left(ts) \cap Inside(ts) = {}
    BY <2>1, Members DEF TypeFacts, TsOk
  <2>3. PICK bs : bs = { w \in sent : w.track = "B" }
    OBVIOUS
  <2>4. UNION { w.members : w \in bs } = Left(ts)
    BY <2>1, <2>3 DEF TsOk
  <2>5. \A w \in bs : w.members \cap Inside(ts) = {}
    BY <2>1, <2>2, <2>3 DEF TsOk
  <2>6. \A v, w \in bs : v = w \/ v.members \cap w.members = {}
    BY <2>1, <2>3 DEF TsOk
  <2>. QED  BY <2>2, <2>3, <2>4, <2>5, <2>6 DEF TsPartition
<1>. QED  BY <1>1, WindowsInvariant, PTL

=============================================================================
