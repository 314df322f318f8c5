------------------------ MODULE ScenarioStateProofs ------------------------
(***************************************************************************)
(* The state file when all callers are threads of one process, as the lock  *)
(* takes for granted: for any number of threads, calls and crashes, readers *)
(* find whole records and every call is atomic.                             *)
(***************************************************************************)
EXTENDS ScenarioState, FiniteSetTheorems, TLAPS

OneHome == \A t, u \in Threads : Home[t] = Home[u]

Whole(r) == r \in Records /\ Len(r.history) <= Ring

\* Where a call is, its temporary file holds what it should.
CallOk(t) ==
    /\ pc[t] # "idle" => op[t] \in A!Ops /\ Whole(local[t])
    /\ pc[t] \in {"open", "write", "replace"} /\ op[t].field # "all" => local[t] = Loaded
    /\ pc[t] = "write" => tmp # None /\ fd[t] = tmp /\ content[tmp] = Torn
    /\ pc[t] = "replace" => tmp # None /\ content[tmp] = A!Apply(op[t], local[t])

StateInv ==
    /\ STypeOK /\ content \in [Inodes -> Records \cup {Torn}]
    /\ fd \in [Threads -> Inodes \cup {None}]
    /\ DOMAIN op = Threads /\ DOMAIN local = Threads
    /\ ReadersSeeWhole
    /\ file # None => tmp # file
    /\ \A t \in Threads : CallOk(t)

USE ScenarioAssumption DEF ScenarioAssumption

-----------------------------------------------------------------------------
(* Records. *)

LEMMA TornIsNoRecord == Torn \notin Records
BY DEF Torn, Records

LEMMA DefaultIsWhole == Whole(A!Default)
<1>1. A!Default.history = <<>> /\ <<>> \in Seq(A!Events) /\ Len(<<>>) = 0
  BY DEF A!Default
<1>. QED  BY <1>1 DEF Whole, Records, A!Default, A!Modes, A!Statuses

\* The history keeps its length.
LEMMA PushedIsShort ==
    ASSUME NEW h \in Seq(A!Events), NEW e \in A!Events
    PROVE  A!Pushed(h, e) \in Seq(A!Events) /\ Len(A!Pushed(h, e)) <= Ring
<1>. DEFINE all == Append(h, e)
            from == 1 + (IF Len(all) > Ring THEN Len(all) - Ring ELSE 0)
<1>1. all \in Seq(A!Events) /\ Len(all) \in Nat \ {0}
  OBVIOUS
<1>2. from \in 1..Len(all) /\ Len(all) - from + 1 <= Ring
  BY <1>1
<1>3. A!Pushed(h, e) = SubSeq(all, from, Len(all))
  BY DEF A!Pushed
<1>. HIDE DEF all, from
<1>4. /\ SubSeq(all, from, Len(all)) \in Seq(A!Events)
      /\ Len(SubSeq(all, from, Len(all))) = Len(all) - from + 1
  BY <1>1, <1>2
<1>. QED  BY <1>2, <1>3, <1>4

\* Every call leaves a whole record.
LEMMA ApplyIsWhole ==
    ASSUME NEW o \in A!Ops, NEW r, Whole(r)
    PROVE  Whole(A!Apply(o, r))
<1>1. r \in Records
  BY DEF Whole
<1>2. CASE o.field = "mode" /\ o.value \in A!Modes
  BY <1>1, <1>2 DEF Whole, Records, A!Apply
<1>3. CASE o.field = "status" /\ o.value \in A!Statuses
  BY <1>1, <1>3 DEF Whole, Records, A!Apply
<1>4. CASE o.field = "history" /\ o.value \in A!Events
  <2>1. A!Pushed(r.history, o.value) \in Seq(A!Events)
        /\ Len(A!Pushed(r.history, o.value)) <= Ring
    BY <1>1, <1>4, PushedIsShort DEF Records
  <2>2. A!Apply(o, r) = [r EXCEPT !.history = A!Pushed(r.history, o.value)]
    BY <1>4 DEF A!Apply
  <2>. QED  BY <1>1, <2>1, <2>2 DEF Whole, Records
<1>5. CASE o.field = "all" /\ o.value \in A!Modes
  <2>1. A!Apply(o, r) = [A!Default EXCEPT !.mode = o.value]
    BY <1>5 DEF A!Apply
  <2>2. A!Default \in Records /\ Len(A!Default.history) <= Ring
    BY DefaultIsWhole DEF Whole
  <2>. QED  BY <1>5, <2>1, <2>2 DEF Whole, Records
<1>. QED  BY <1>2, <1>3, <1>4, <1>5 DEF A!Ops

\* reset does not depend on the record it replaces.
LEMMA ResetForgets ==
    ASSUME NEW o, o.field = "all", NEW r, NEW s
    PROVE  A!Apply(o, r) = A!Apply(o, s)
BY DEF A!Apply

LEMMA LoadedIsWhole == StateInv => Whole(Loaded) /\ Loaded = Shown
<1>. SUFFICES ASSUME StateInv PROVE Whole(Loaded) /\ Loaded = Shown
  OBVIOUS
<1>1. CASE file = None
  BY <1>1, DefaultIsWhole DEF Loaded, Shown, A!Default
<1>2. CASE file # None
  <2>1. file \in Inodes /\ content[file] # Torn
    BY <1>2 DEF StateInv, STypeOK, ReadersSeeWhole
  <2>2. Loaded = content[file] /\ Shown = content[file]
    BY <1>2, <2>1 DEF Loaded, Shown
  <2>. QED  BY <2>1, <2>2 DEF StateInv, STypeOK, Whole
<1>. QED  BY <1>1, <1>2

\* With one process, at most one call is under way.
LEMMA OneCall ==
    ASSUME OneHome, STypeOK, NEW t \in Threads, pc[t] # "idle"
    PROVE  /\ lock[Home[t]] = t
           /\ \A u \in Threads \ {t} : pc[u] = "idle" /\ fd[u] = None
<1>1. lock[Home[t]] = t
  BY DEF STypeOK
<1>2. ASSUME NEW u \in Threads \ {t} PROVE pc[u] = "idle" /\ fd[u] = None
  BY <1>1, <1>2 DEF STypeOK, OneHome
<1>. QED  BY <1>1, <1>2

\* tmp.open("w") finds an inode that is not the state file.
LEMMA TargetIsFree ==
    ASSUME OneHome, StateInv, NEW t \in Threads, pc[t] = "open"
    PROVE  Target \in Inodes /\ Target # file
<1>. USE DEF StateInv
<1>1. CASE tmp # None
  BY <1>1 DEF Target, STypeOK
<1>2. CASE tmp = None
  <2>1. {1, 2} \subseteq Inodes
    <3>1. Cardinality(Threads) \in Nat
      BY FS_CardinalityType
    <3>. QED  BY <3>1 DEF Inodes
  <2>2. \A u \in Threads : fd[u] = None
    BY OneCall DEF STypeOK
  <2>3. PICK i \in {1, 2} : i # file
    OBVIOUS
  <2>4. i \in Unused
    BY <1>2, <2>1, <2>2, <2>3 DEF Unused, Inodes
  <2>5. FreshInode \in Unused
    BY <2>4 DEF FreshInode
  <2>. QED  BY <1>2, <2>5 DEF Target, Unused
<1>. QED  BY <1>1, <1>2

-----------------------------------------------------------------------------
(* The steps. *)

LEMMA StateInit == SInit => StateInv
<1>. SUFFICES ASSUME SInit PROVE StateInv
  OBVIOUS
<1>. USE DEF SInit
<1>1. STypeOK
  <2>1. lock \in [Processes -> Threads \cup {None}] /\ pc \in [Threads -> Stages]
    BY DEF Stages
  <2>2. \A t \in Threads : lock[Home[t]] # t
    OBVIOUS
  <2>. QED  BY <2>1, <2>2 DEF STypeOK
<1>2. \A t \in Threads : CallOk(t)
  BY DEF CallOk
<1>. QED  BY <1>1, <1>2 DEF StateInv, ReadersSeeWhole

\* What is enough for a step of one thread while the others are idle.
LEMMA OthersIdle ==
    ASSUME NEW t \in Threads,
           \A u \in Threads \ {t} : pc'[u] = "idle",
           CallOk(t)'
    PROVE  (\A u \in Threads : CallOk(u))'
BY DEF CallOk

LEMMA BeginKeeps ==
    ASSUME OneHome, StateInv, NEW t \in Threads, NEW o \in A!Ops, Begin(t, o)
    PROVE  StateInv'
<1>. USE DEF StateInv, Begin, files
<1>1. \A u \in Threads : pc[u] = "idle"
  BY DEF STypeOK, OneHome, Unlocked
<1>2. pc' \in [Threads -> Stages] /\ lock' \in [Processes -> Threads \cup {None}]
  BY DEF STypeOK, Stages
<1>3. \A u \in Threads : pc'[u] # "idle" <=> lock'[Home[u]] = u
  BY <1>1 DEF STypeOK, OneHome, Unlocked
<1>4. \A u \in Threads : fd'[u] # None <=> pc'[u] = "write"
  BY <1>1 DEF STypeOK
<1>5. ops' \in 0..MaxOps
  BY DEF STypeOK
<1>6. STypeOK'
  BY <1>2, <1>3, <1>4, <1>5 DEF STypeOK
<1>7. CallOk(t)'
  <2>1. op'[t] = o /\ local'[t] = A!Default
    OBVIOUS
  <2>2. pc'[t] = IF o.field = "all" THEN "open" ELSE "read"
    BY DEF STypeOK
  <2>. QED  BY <2>1, <2>2, DefaultIsWhole DEF CallOk
<1>8. \A u \in Threads \ {t} : pc'[u] = "idle"
  BY <1>1 DEF STypeOK
<1>. QED  BY <1>6, <1>7, <1>8, OthersIdle DEF ReadersSeeWhole

LEMMA ReadKeeps ==
    ASSUME OneHome, StateInv, NEW t \in Threads, ReadState(t)
    PROVE  StateInv'
<1>. USE DEF StateInv, ReadState, files
<1>1. \A u \in Threads \ {t} : pc'[u] = "idle"
  BY OneCall DEF STypeOK
<1>2. STypeOK'
  BY DEF STypeOK, Stages
<1>3. CallOk(t)'
  <2>1. pc'[t] = "open" /\ local'[t] = Loaded /\ op' = op
    BY DEF STypeOK
  <2>2. Loaded' = Loaded
    BY DEF Loaded
  <2>3. Whole(Loaded) /\ op[t] \in A!Ops
    BY LoadedIsWhole DEF CallOk
  <2>. QED  BY <2>1, <2>2, <2>3 DEF CallOk
<1>. QED  BY <1>1, <1>2, <1>3, OthersIdle DEF ReadersSeeWhole

LEMMA OpenKeeps ==
    ASSUME OneHome, StateInv, NEW t \in Threads, OpenTmp(t)
    PROVE  StateInv'
<1>. USE DEF StateInv, files
<1>0. pc[t] = "open" /\ Target \in Inodes /\ Target # file
  BY TargetIsFree DEF OpenTmp
<1>1. /\ pc' = [pc EXCEPT ![t] = "write"] /\ tmp' = Target
      /\ content' = [content EXCEPT ![Target] = Torn]
      /\ fd' = [fd EXCEPT ![t] = Target]
      /\ UNCHANGED <<file, lock, op, local, ops, crashes>>
  BY DEF OpenTmp
<1>2. \A u \in Threads \ {t} : pc'[u] = "idle"
  BY <1>0, <1>1, OneCall DEF STypeOK
<1>3. Target # None
  BY <1>0 DEF Inodes
<1>4. content' \in [Inodes -> Records \cup {Torn}] /\ content'[Target] = Torn
      /\ \A i \in Inodes : i # Target => content'[i] = content[i]
  BY <1>0, <1>1
<1>5. STypeOK'
  <2>1. \A i \in Inodes : content'[i] # Torn => content'[i] \in Records
                                                /\ Len(content'[i].history) <= Ring
    BY <1>4 DEF STypeOK
  <2>2. pc' \in [Threads -> Stages] /\ \A u \in Threads : pc'[u] # "idle" <=> pc[u] # "idle"
    BY <1>0, <1>1 DEF STypeOK, Stages
  <2>3. \A u \in Threads : fd'[u] # None <=> pc'[u] = "write"
    BY <1>0, <1>1, <1>3 DEF STypeOK
  <2>. QED  BY <1>0, <1>1, <2>1, <2>2, <2>3 DEF STypeOK
<1>6. ReadersSeeWhole' /\ Loaded' = Loaded
  BY <1>0, <1>1, <1>4 DEF STypeOK, ReadersSeeWhole, Loaded
<1>7. CallOk(t)'
  <2>1. pc'[t] = "write" /\ fd'[t] = Target
    BY <1>0, <1>1 DEF STypeOK
  <2>. QED  BY <1>0, <1>1, <1>3, <1>4, <1>6, <2>1 DEF CallOk
<1>8. fd' \in [Threads -> Inodes \cup {None}] /\ DOMAIN op' = Threads /\ DOMAIN local' = Threads
  BY <1>0, <1>1
<1>. QED  BY <1>0, <1>1, <1>2, <1>4, <1>5, <1>6, <1>7, <1>8, OthersIdle

\* Nobody else writes: what is in the temporary file is the new record.
LEMMA WriteKeeps ==
    ASSUME OneHome, StateInv, NEW t \in Threads, WriteTmp(t)
    PROVE  StateInv'
<1>. USE DEF StateInv
<1>. DEFINE new == A!Apply(op[t], local[t])
<1>0. /\ pc[t] = "write" /\ tmp # None /\ tmp \in Inodes /\ fd[t] = tmp
      /\ content[tmp] = Torn /\ op[t] \in A!Ops /\ Whole(local[t])
  BY DEF WriteTmp, CallOk, STypeOK
<1>1. ~Shared(t)
  BY <1>0, OneCall DEF Shared
<1>2. content' = [content EXCEPT ![tmp] = new]
  BY <1>0, <1>1 DEF WriteTmp
<1>3. /\ pc' = [pc EXCEPT ![t] = "replace"] /\ fd' = [fd EXCEPT ![t] = None]
      /\ UNCHANGED <<file, tmp, lock, op, local, ops, crashes>>
  BY DEF WriteTmp
<1>4. Whole(new)
  BY <1>0, ApplyIsWhole
<1>. HIDE DEF new
<1>5. content' \in [Inodes -> Records \cup {Torn}] /\ content'[tmp] = new
      /\ \A i \in Inodes : i # tmp => content'[i] = content[i]
  BY <1>0, <1>2, <1>4 DEF Whole
<1>6. \A u \in Threads \ {t} : pc'[u] = "idle"
  BY <1>0, <1>3, OneCall DEF STypeOK
<1>7. STypeOK'
  <2>1. \A i \in Inodes : content'[i] # Torn => content'[i] \in Records
                                                /\ Len(content'[i].history) <= Ring
    BY <1>4, <1>5 DEF STypeOK, Whole
  <2>2. pc' \in [Threads -> Stages] /\ \A u \in Threads : pc'[u] # "idle" <=> pc[u] # "idle"
    BY <1>0, <1>3 DEF STypeOK, Stages
  <2>3. \A u \in Threads : fd'[u] # None <=> pc'[u] = "write"
    BY <1>0, <1>3 DEF STypeOK
  <2>. QED  BY <1>3, <2>1, <2>2, <2>3 DEF STypeOK
<1>8. ReadersSeeWhole' /\ Loaded' = Loaded
  BY <1>3, <1>5 DEF STypeOK, ReadersSeeWhole, Loaded
<1>9. CallOk(t)'
  <2>1. pc'[t] = "replace"
    BY <1>3 DEF STypeOK
  <2>2. content'[tmp'] = A!Apply(op'[t], local'[t])
    BY <1>3, <1>5 DEF new
  <2>3. op'[t] \in A!Ops /\ Whole(local'[t]) /\ tmp' # None
    BY <1>0, <1>3
  <2>4. op'[t].field # "all" => local'[t] = Loaded'
    BY <1>0, <1>3, <1>8 DEF CallOk
  <2>. QED  BY <2>1, <2>2, <2>3, <2>4 DEF CallOk
<1>10. fd' \in [Threads -> Inodes \cup {None}] /\ DOMAIN op' = Threads /\ DOMAIN local' = Threads
  BY <1>3
<1>. QED  BY <1>3, <1>5, <1>6, <1>7, <1>8, <1>9, <1>10, OthersIdle

\* The lock is free and nobody has anything open after a call.
LEMMA FinishFrees ==
    ASSUME OneHome, STypeOK, NEW t \in Threads, pc[t] \in {"open", "replace"},
           Finish(t), fd' = fd
    PROVE  /\ \A u \in Threads : pc'[u] = "idle"
           /\ pc' \in [Threads -> Stages] /\ lock' \in [Processes -> Threads \cup {None}]
           /\ \A u \in Threads : pc'[u] # "idle" <=> lock'[Home[u]] = u
           /\ \A u \in Threads : fd'[u] # None <=> pc'[u] = "write"
<1>1. /\ pc' = [pc EXCEPT ![t] = "idle"] /\ lock' = [lock EXCEPT ![Home[t]] = None]
  BY DEF Finish
<1>2. \A u \in Threads \ {t} : pc[u] = "idle" /\ fd[u] = None
  BY OneCall
<1>3. \A u \in Threads : pc'[u] = "idle" /\ lock'[Home[u]] = None /\ fd'[u] = None
  BY <1>1, <1>2 DEF STypeOK, OneHome
<1>4. pc' \in [Threads -> Stages] /\ lock' \in [Processes -> Threads \cup {None}]
  BY <1>1 DEF STypeOK, Stages
<1>. QED  BY <1>3, <1>4

LEMMA ReplaceKeeps ==
    ASSUME OneHome, StateInv, NEW t \in Threads, Replace(t)
    PROVE  StateInv'
<1>. USE DEF StateInv
<1>0. /\ pc[t] = "replace" /\ Finish(t) /\ fd' = fd
      /\ tmp # None /\ content[tmp] = A!Apply(op[t], local[t])
      /\ op[t] \in A!Ops /\ Whole(local[t])
  BY DEF Replace, CallOk
<1>1. file' = tmp /\ tmp' = None /\ UNCHANGED <<content, ops, crashes>>
  BY <1>0 DEF Replace
<1>2. Whole(content[tmp])
  BY <1>0, ApplyIsWhole
<1>3. STypeOK'
  <2>1. tmp \in Inodes
    BY <1>0 DEF STypeOK
  <2>. QED  BY <1>0, <1>1, <2>1, FinishFrees DEF STypeOK
<1>4. ReadersSeeWhole'
  BY <1>1, <1>2, TornIsNoRecord DEF ReadersSeeWhole, Whole
<1>5. \A u \in Threads : CallOk(u)'
  BY <1>0, FinishFrees DEF CallOk
<1>6. DOMAIN op' = Threads /\ DOMAIN local' = Threads
  BY <1>0 DEF Finish
<1>. QED  BY <1>0, <1>1, <1>3, <1>4, <1>5, <1>6

LEMMA AbandonKeeps ==
    ASSUME OneHome, StateInv, NEW t \in Threads, Abandon(t)
    PROVE  StateInv'
<1>. USE DEF StateInv, files
<1>0. pc[t] = "open" /\ Finish(t) /\ UNCHANGED <<file, tmp, content, fd, ops, crashes>>
  BY DEF Abandon
<1>1. STypeOK'
  BY <1>0, FinishFrees DEF STypeOK
<1>2. \A u \in Threads : CallOk(u)'
  BY <1>0, FinishFrees DEF CallOk
<1>3. DOMAIN op' = Threads /\ DOMAIN local' = Threads
  BY <1>0 DEF Finish
<1>. QED  BY <1>0, <1>1, <1>2, <1>3 DEF ReadersSeeWhole

\* A crash takes the process with all its calls; the temporary file stays.
LEMMA CrashKeeps ==
    ASSUME OneHome, StateInv, NEW p \in Processes, Crash(p)
    PROVE  StateInv'
<1>. USE DEF StateInv, files
<1>1. /\ pc' = [t \in Threads |-> IF Home[t] = p THEN "idle" ELSE pc[t]]
      /\ fd' = [t \in Threads |-> IF Home[t] = p THEN None ELSE fd[t]]
      /\ op' = [t \in Threads |-> IF Home[t] = p THEN None ELSE op[t]]
      /\ local' = [t \in Threads |-> IF Home[t] = p THEN None ELSE local[t]]
      /\ lock' = [lock EXCEPT ![p] = None]
      /\ UNCHANGED <<file, tmp, content, ops>>
      /\ crashes < MaxCrashes /\ crashes' = crashes + 1
  BY DEF Crash
<1>2. /\ pc' \in [Threads -> Stages] /\ lock' \in [Processes -> Threads \cup {None}]
      /\ fd' \in [Threads -> Inodes \cup {None}]
      /\ DOMAIN op' = Threads /\ DOMAIN local' = Threads
  BY <1>1 DEF STypeOK, Stages
<1>3. \A u \in Threads : pc'[u] # "idle" <=> lock'[Home[u]] = u
  BY <1>1 DEF STypeOK
<1>4. \A u \in Threads : fd'[u] # None <=> pc'[u] = "write"
  BY <1>1 DEF STypeOK
<1>5. crashes' \in 0..MaxCrashes
  BY <1>1 DEF STypeOK
<1>6. STypeOK'
  BY <1>1, <1>2, <1>3, <1>4, <1>5 DEF STypeOK
<1>7. ReadersSeeWhole' /\ Loaded' = Loaded
  BY <1>1 DEF ReadersSeeWhole, Loaded
<1>8. ASSUME NEW u \in Threads PROVE CallOk(u)'
  <2>1. CASE Home[u] = p
    BY <1>1, <2>1 DEF CallOk
  <2>2. CASE Home[u] # p
    <3>1. /\ pc'[u] = pc[u] /\ fd'[u] = fd[u] /\ op'[u] = op[u] /\ local'[u] = local[u]
          /\ tmp' = tmp /\ content' = content
      BY <1>1, <2>2
    <3>. QED  BY <1>7, <3>1 DEF CallOk
  <2>. QED  BY <2>1, <2>2
<1>. QED  BY <1>1, <1>2, <1>6, <1>7, <1>8

LEMMA StateStep ==
    ASSUME OneHome, StateInv, [SNext]_svars
    PROVE  StateInv'
<1>1. ASSUME NEW t \in Threads, Step(t) PROVE StateInv'
  BY <1>1, ReadKeeps, AbandonKeeps, OpenKeeps, WriteKeeps, ReplaceKeeps DEF Step
<1>2. ASSUME NEW t \in Threads, NEW o \in A!Ops, Begin(t, o) PROVE StateInv'
  BY <1>2, BeginKeeps
<1>3. ASSUME NEW p \in Processes, Crash(p) PROVE StateInv'
  BY <1>3, CrashKeeps
<1>4. ASSUME UNCHANGED svars PROVE StateInv'
  BY <1>4 DEF svars, StateInv, STypeOK, ReadersSeeWhole, CallOk, Loaded
<1>. QED  BY <1>1, <1>2, <1>3, <1>4 DEF SNext, Rest

-----------------------------------------------------------------------------
\* Everything below is for callers that share the lock: all in one process.

\* The invariant of the state file: what every call in progress holds is what the
\* file shows, and its temporary file is its own.
THEOREM StateInvariant ==
    ASSUME OneHome PROVE SSpec => []StateInv
<1>1. SInit => StateInv
  BY StateInit
<1>2. StateInv /\ [SNext]_svars => StateInv'
  BY StateStep
<1>. QED  BY <1>1, <1>2, PTL DEF SSpec

\* Every variable has its type, and a call is under way exactly while its thread
\* holds the lock.
THEOREM StateTypes ==
    ASSUME OneHome PROVE SSpec => []STypeOK
<1>1. StateInv => STypeOK
  BY DEF StateInv
<1>. QED  BY <1>1, StateInvariant, PTL

\* _write renames a finished file over the old one: a reader without the lock never
\* finds half a record, whatever call is under way and wherever the process died.
THEOREM ReadersNeverSeeHalf ==
    ASSUME OneHome PROVE SSpec => []ReadersSeeWhole
<1>1. StateInv => ReadersSeeWhole
  BY DEF StateInv
<1>. QED  BY <1>1, StateInvariant, PTL

\* The rename is the one step in which a call takes effect, and its effect is that
\* of the whole call.
LEMMA ReplaceApplies ==
    ASSUME OneHome, StateInv, NEW t \in Threads, Replace(t)
    PROVE  A!Next
<1>0. /\ pc[t] = "replace" /\ tmp # None /\ content[tmp] = A!Apply(op[t], local[t])
      /\ op[t] \in A!Ops /\ (op[t].field # "all" => local[t] = Loaded)
  BY DEF Replace, StateInv, CallOk
<1>1. Shown' = A!Apply(op[t], local[t])
  BY <1>0 DEF Replace, Shown
<1>2. A!Apply(op[t], local[t]) = A!Apply(op[t], Shown)
  BY <1>0, LoadedIsWhole, ResetForgets
<1>. QED  BY <1>0, <1>1, <1>2 DEF A!Next

\* No other step changes what a reader finds.
LEMMA OthersAreSilent ==
    ASSUME OneHome, StateInv, [SNext]_svars, ~ \E t \in Threads : Replace(t)
    PROVE  Shown' = Shown
<1>1. ASSUME NEW t \in Threads, OpenTmp(t) PROVE Shown' = Shown
  <2>1. Target \in Inodes /\ Target # file
    BY <1>1, TargetIsFree DEF OpenTmp
  <2>. QED  BY <1>1, <2>1 DEF OpenTmp, Shown, StateInv, STypeOK
<1>2. ASSUME NEW t \in Threads, WriteTmp(t) PROVE Shown' = Shown
  <2>1. fd[t] = tmp /\ (file # None => tmp # file)
    BY <1>2 DEF WriteTmp, StateInv, CallOk
  <2>. QED  BY <1>2, <2>1 DEF WriteTmp, Shown, StateInv, STypeOK
<1>3. ASSUME UNCHANGED files PROVE Shown' = Shown
  BY <1>3 DEF files, Shown
<1>4. ASSUME NEW t \in Threads, ReadState(t) \/ Abandon(t) PROVE UNCHANGED files
  BY <1>4 DEF ReadState, Abandon
<1>5. ASSUME NEW t \in Threads, NEW o \in A!Ops, Begin(t, o) PROVE UNCHANGED files
  BY <1>5 DEF Begin
<1>6. ASSUME NEW p \in Processes, Crash(p) PROVE UNCHANGED files
  BY <1>6 DEF Crash
<1>7. ASSUME UNCHANGED svars PROVE UNCHANGED files
  BY <1>7 DEF svars, files
<1>. QED  BY <1>1, <1>2, <1>3, <1>4, <1>5, <1>6, <1>7 DEF SNext, Step, Rest

\* update, mark_stage, push_event and reset, with all their steps and a crash between
\* any two, implement one atomic change of the state.
THEOREM CallsImplementAtomicState ==
    ASSUME OneHome PROVE SSpec => CallsAreAtomic
<1>1. SInit => A!Init
  BY DEF SInit, A!Init, Shown, A!Default
<1>2. StateInv /\ [SNext]_svars => [A!Next]_Shown
  BY ReplaceApplies, OthersAreSilent
<1>. QED  BY <1>1, <1>2, StateInvariant, PTL DEF SSpec, CallsAreAtomic, A!Spec

=============================================================================
