--------------------------- MODULE ScenarioState ---------------------------
(***************************************************************************)
(* The state file behind the demo (scenario_state.py): threads of several    *)
(* processes change it by reading the file, changing the record, writing it  *)
(* to a temporary file of one fixed name and renaming that over the state    *)
(* file.  A lock orders the threads of one process.                          *)
(*                                                                         *)
(* A file is an inode with contents; opening the temporary file truncates    *)
(* the inode that has its name at that moment, if there is one, whoever else *)
(* has it open.                                                              *)
(***************************************************************************)
EXTENDS Naturals, Sequences, FiniteSets

CONSTANTS
    Threads,    \* callers that change the state
    Processes,
    Home,       \* the process of each thread
    None,
    Ring,       \* entries the history keeps
    MaxOps,     \* bound: calls
    MaxCrashes  \* bound: crashes

ASSUME ScenarioAssumption ==
    /\ Home \in [Threads -> Processes]
    /\ None \notin Threads /\ Ring \in Nat \ {0}
    /\ IsFiniteSet(Threads) /\ None \notin 1..(Cardinality(Threads) + 2)
    /\ MaxOps \in Nat /\ MaxCrashes \in Nat

VARIABLES
    file,     \* inode STATE_PATH names, None when there is no such file
    tmp,      \* inode the temporary name names, or None
    content,  \* what an inode holds: a record, or Torn
    lock,     \* _LOCK of each process: the thread that holds it, or None
    pc,       \* where a call is
    op,       \* what it does
    local,    \* the record it read
    fd,       \* the inode it has open
    ops,      \* calls so far
    crashes   \* crashes so far

svars == <<file, tmp, content, lock, pc, op, local, fd, ops, crashes>>
files == <<file, tmp, content>>

\* An empty, half-written or mixed file; json.load fails on it.
Torn == [torn |-> TRUE]

\* Enough for the file, the temporary one and what each thread may have open.
Inodes == 1..(Cardinality(Threads) + 2)

Shown == IF file = None THEN [mode |-> "ai_assisted", status |-> "idle", history |-> <<>>]
         ELSE content[file]

A == INSTANCE AtomicState WITH state <- Shown

Records == [mode : A!Modes, status : A!Statuses, history : Seq(A!Events)]
Stages == {"idle", "read", "open", "write", "replace"}

\* A call is under way exactly while its thread holds the lock of its process.
STypeOK ==
    /\ file \in Inodes \cup {None} /\ tmp \in Inodes \cup {None}
    /\ \A i \in Inodes :
           content[i] # Torn => content[i] \in Records /\ Len(content[i].history) <= Ring
    /\ lock \in [Processes -> Threads \cup {None}]
    /\ pc \in [Threads -> Stages]
    /\ \A t \in Threads : pc[t] # "idle" <=> lock[Home[t]] = t
    /\ \A t \in Threads : fd[t] # None <=> pc[t] = "write"
    /\ ops \in 0..MaxOps /\ crashes \in 0..MaxCrashes

SInit ==
    /\ file = None /\ tmp = None /\ content = [i \in Inodes |-> Torn]
    /\ lock = [p \in Processes |-> None]
    /\ pc = [t \in Threads |-> "idle"]
    /\ op = [t \in Threads |-> None] /\ local = [t \in Threads |-> None]
    /\ fd = [t \in Threads |-> None]
    /\ ops = 0 /\ crashes = 0

\* Mutant: no lock at all.
UnlockedAlways(t) == TRUE
Unlocked(t) == lock[Home[t]] = None

\* A call takes the lock; reset does not read.
Begin(t, o) ==
    /\ pc[t] = "idle" /\ Unlocked(t) /\ ops < MaxOps
    /\ lock' = [lock EXCEPT ![Home[t]] = t]
    /\ op' = [op EXCEPT ![t] = o] /\ ops' = ops + 1
    /\ pc' = [pc EXCEPT ![t] = IF o.field = "all" THEN "open" ELSE "read"]
    /\ local' = [local EXCEPT ![t] = A!Default]
    /\ UNCHANGED <<files, fd, crashes>>

\* _read: no file, or one that cannot be decoded, is the default state.
Loaded == IF file = None \/ content[file] = Torn THEN A!Default ELSE content[file]

ReadState(t) ==
    /\ pc[t] = "read" /\ pc' = [pc EXCEPT ![t] = "open"]
    /\ local' = [local EXCEPT ![t] = Loaded]
    /\ UNCHANGED <<files, lock, op, fd, ops, crashes>>

Unused == { i \in Inodes : i \notin {file, tmp} /\ \A t \in Threads : fd[t] # i }
FreshInode == CHOOSE i \in Unused : TRUE

\* Mutant: the state file is opened for writing itself.
InPlace == IF file # None THEN file ELSE IF tmp # None THEN tmp ELSE FreshInode
Target == IF tmp # None THEN tmp ELSE FreshInode

\* tmp.open("w") truncates.
OpenTmp(t) ==
    /\ pc[t] = "open" /\ pc' = [pc EXCEPT ![t] = "write"]
    /\ LET i == Target
       IN  /\ tmp' = i
           /\ content' = [content EXCEPT ![i] = Torn]
           /\ fd' = [fd EXCEPT ![t] = i]
    /\ UNCHANGED <<file, lock, op, local, ops, crashes>>

Shared(t) == \E u \in Threads \ {t} : fd[u] = fd[t]

\* json.dump, close.  Over another writer's text, or with one writing at the same
\* time, the result may be a mixture.
WriteTmp(t) ==
    /\ pc[t] = "write" /\ pc' = [pc EXCEPT ![t] = "replace"]
    /\ LET new == A!Apply(op[t], local[t])
       IN  \E c \in {new, Torn} :
               /\ c = new \/ Shared(t) \/ content[fd[t]] # Torn
               /\ content' = [content EXCEPT ![fd[t]] = c]
    /\ fd' = [fd EXCEPT ![t] = None]
    /\ UNCHANGED <<file, tmp, lock, op, local, ops, crashes>>

Finish(t) ==
    /\ pc' = [pc EXCEPT ![t] = "idle"]
    /\ lock' = [lock EXCEPT ![Home[t]] = None]
    /\ op' = [op EXCEPT ![t] = None] /\ local' = [local EXCEPT ![t] = None]

\* tmp.replace: the rename fails when another process has renamed the file.
Replace(t) ==
    /\ pc[t] = "replace" /\ Finish(t)
    /\ IF tmp = None THEN UNCHANGED <<file, tmp>>
                     ELSE file' = tmp /\ tmp' = None
    /\ UNCHANGED <<content, fd, ops, crashes>>

\* The body of a `with update()` raises: the lock is released, nothing is written.
Abandon(t) ==
    /\ pc[t] = "open" /\ op[t].field # "all" /\ Finish(t)
    /\ UNCHANGED <<files, fd, ops, crashes>>

\* A process is killed and started again.
Crash(p) ==
    /\ crashes < MaxCrashes /\ crashes' = crashes + 1
    /\ LET gone == { t \in Threads : Home[t] = p }
           Cleared(f, v) == [t \in Threads |-> IF t \in gone THEN v ELSE f[t]]
       IN  /\ pc' = Cleared(pc, "idle") /\ fd' = Cleared(fd, None)
           /\ op' = Cleared(op, None) /\ local' = Cleared(local, None)
    /\ lock' = [lock EXCEPT ![p] = None]
    /\ UNCHANGED <<files, ops>>

Step(t) == ReadState(t) \/ Abandon(t) \/ OpenTmp(t) \/ WriteTmp(t) \/ Replace(t)
Idle == \A t \in Threads : pc[t] = "idle"

\* All calls are made.
Rest == ops = MaxOps /\ Idle /\ UNCHANGED svars

SNext ==
    \/ \E t \in Threads : Step(t) \/ \E o \in A!Ops : Begin(t, o)
    \/ \E p \in Processes : Crash(p)
    \/ Rest

SSpec == SInit /\ [][SNext]_svars

-----------------------------------------------------------------------------
\* A reader, which takes no lock of the writers, finds a whole record at any moment,
\* also while a call is under way and after a crash in the middle of one.
ReadersSeeWhole == file # None => content[file] # Torn

\* The threads of one process change the state as if each call were one step: none
\* works on a record that another has replaced meanwhile, and a crash leaves either
\* all of a call or nothing.
CallsAreAtomic == A!Spec

\* scenario_state.py:139: update is an "Atomic read-modify-write helper".  No call
\* that is about to write has read a record that is no longer the current one.
ReadModifyWriteIsAtomic ==
    \A t \in Threads :
        pc[t] \in {"open", "write", "replace"} /\ op[t].field # "all" =>
            local[t] = Loaded

=============================================================================
