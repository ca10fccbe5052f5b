------------------------------ MODULE AuditWriter ------------------------------
(***************************************************************************)
(* internal/audit: the append-only trail of segments that an emission is    *)
(* durable in before it returns, and the recovery that resumes it.  The     *)
(* writer has one mutex, so its steps are the calls into the file system,   *)
(* between which the process may die and the power may fail.                *)
(*                                                                          *)
(* The file system is external: what a process sees (entries, contents) and *)
(* what is on the disk (kept, synced) are made equal by an fsync, or by the *)
(* system in its own time, and a power loss leaves something between them.  *)
(* A file is its frames; a record's size is abstract, so any segment that   *)
(* holds one may be full.  A record that is too large is rejected before    *)
(* anything happens and Close only releases the handle: both are left out.  *)
(***************************************************************************)
EXTENDS Sequences, FiniteSetsExt

CONSTANTS
  MaxEmits, MaxFaults,   \* bounds: emissions, failed calls into the file system
  Settles                \* what a process leaves behind is on the disk before the next starts

ASSUME WriterAssumption == MaxEmits \in Nat /\ MaxFaults \in Nat /\ Settles \in BOOLEAN

\* A segment is named by the sequence of its first record.
Starts == 0 .. MaxEmits
Temp == -1
Names == Starts \cup {Temp}
NoInode == 0
Inodes == 1 .. 2 * Cardinality(Names)

\* The frames of a file: its header, records, and bytes that are no frame.
Header == [id |-> 0, seq |-> 0]
Torn == [id |-> 0, seq |-> -1]

VARIABLES
  dir,                 \* the directory: absent, seen, kept
  entries, kept,       \* its entries
  contents, synced,    \* what is in each inode
  pc, cur,             \* the writer's next step, and the emission it is for (0 in New)
  seq, active, size,   \* Writer: seq, active, activeSize in frames
  emits,               \* history: emissions so far
  acks,                \* history: the records that Emit returned an Ack for
  faults               \* history: failed calls

disk == <<dir, entries, kept, contents, synced>>
memory == <<cur, seq, active, size>>
history == <<emits, acks, faults>>
writerVars == <<disk, pc, memory, history>>

Creating == {"create", "syncTemp", "rename", "syncDir"}
Booting == {"syncParent", "cleanTemps", "syncClean", "scan", "truncate", "syncTruncate"}
Pcs == {"down", "idle", "write", "fsync", "discard", "poisoned"} \cup Creating \cup Booting

WriterInit ==
  /\ dir \in {"absent", "kept"}
  /\ entries = [n \in Names |-> NoInode] /\ kept = entries
  /\ contents = [i \in Inodes |-> <<>>] /\ synced = contents
  /\ pc = "down" /\ cur = 0
  /\ seq = 0 /\ active = NoInode /\ size = 0
  /\ emits = 0 /\ acks = {} /\ faults = 0

Fault == faults < MaxFaults /\ faults' = faults + 1

Forget == cur' = 0 /\ seq' = 0 /\ active' = NoInode /\ size' = 0

-----------------------------------------------------------------------------
(* Reading segments *)

Segments == {n \in Starts : entries[n] # NoInode}
Last == Max(Segments)

Frames(n) == contents[entries[n]]

\* readFrame stops at the first bytes that are no frame.
Good(s) ==
  LET cuts == {k \in DOMAIN s : s[k] = Torn} IN
    IF cuts = {} THEN s ELSE SubSeq(s, 1, Min(cuts) - 1)
IsTorn(n) == Good(Frames(n)) # Frames(n)
HasHeader(n) == Good(Frames(n)) # <<>>
Count(n) == Len(Good(Frames(n))) - 1
Readable(n) == {Good(Frames(n))[k] : k \in 2 .. Count(n) + 1}

-----------------------------------------------------------------------------
(* createSegment *)

\* The inodes in use by no entry; there is always one for a new file.
Free == {i \in Inodes : \A n \in Names : i \notin {entries[n], kept[n]}}

CreateTemp ==
  /\ pc = "create" /\ entries[Temp] = NoInode /\ Free # {}
  /\ LET i == Min(Free) IN
       /\ entries' = [entries EXCEPT ![Temp] = i]
       /\ contents' = [contents EXCEPT ![i] = <<Header>>]
       /\ synced' = [synced EXCEPT ![i] = <<>>]
  /\ pc' = "syncTemp"
  /\ UNCHANGED <<dir, kept, memory, history>>

SyncTemp ==
  /\ pc = "syncTemp"
  /\ synced' = [synced EXCEPT ![entries[Temp]] = contents[entries[Temp]]]
  /\ pc' = "rename"
  /\ UNCHANGED <<dir, entries, kept, contents, memory, history>>

Rename ==
  /\ pc = "rename"
  /\ entries' = [entries EXCEPT ![seq] = entries[Temp], ![Temp] = NoInode]
  /\ pc' = "syncDir"
  /\ UNCHANGED <<dir, kept, contents, synced, memory, history>>

\* A slip: the new entry is not synced.
SyncDirNot ==
  /\ pc = "syncDir"
  /\ active' = entries[seq] /\ size' = 1
  /\ pc' = IF cur = 0 THEN "idle" ELSE "write"
  /\ UNCHANGED <<disk, cur, seq, history>>

SyncDir ==
  /\ pc = "syncDir"
  /\ kept' = entries
  /\ active' = entries[seq] /\ size' = 1
  /\ pc' = IF cur = 0 THEN "idle" ELSE "write"
  /\ UNCHANGED <<dir, entries, contents, synced, cur, seq, history>>

\* Any call of createSegment fails; the temp file is removed as far as that works.
CreateFails ==
  /\ pc \in Creating /\ Fault
  /\ entries' \in {entries, [entries EXCEPT ![Temp] = NoInode]}
  /\ pc' = IF cur = 0 THEN "down" ELSE "poisoned"
  /\ UNCHANGED <<dir, kept, contents, synced, memory, emits, acks>>

-----------------------------------------------------------------------------
(* New *)

Settled == dir # "seen" /\ entries = kept /\ contents = synced

\* ensureDirDurable takes a directory that is there for durable.
Boot ==
  /\ pc = "down" /\ (Settles => Settled)
  /\ Forget
  /\ IF dir = "absent" THEN dir' = "seen" /\ pc' = "syncParent"
     ELSE pc' = "cleanTemps" /\ UNCHANGED dir
  /\ UNCHANGED <<entries, kept, contents, synced, history>>

SyncParent ==
  /\ pc = "syncParent"
  /\ \/ dir' = "kept" /\ pc' = "cleanTemps" /\ UNCHANGED faults
     \/ Fault /\ dir' \in {"absent", "seen"} /\ pc' = "down"
  /\ UNCHANGED <<entries, kept, contents, synced, memory, emits, acks>>

CleanTemps ==
  /\ pc = "cleanTemps"
  /\ entries' = [entries EXCEPT ![Temp] = NoInode]
  /\ pc' = IF entries[Temp] = NoInode THEN "scan" ELSE "syncClean"
  /\ UNCHANGED <<dir, kept, contents, synced, memory, history>>

SyncClean ==
  /\ pc = "syncClean"
  /\ kept' = entries /\ pc' = "scan"
  /\ UNCHANGED <<dir, entries, contents, synced, memory, history>>

\* The segments that the scan has yet to read, in the order of their names.
Unread == {n \in Segments : \A m \in Segments : entries[m] = active => n > m}

\* A segment without its header, or a torn one that is not the last, ends New.
Refused(n) == ~HasHeader(n) \/ (n # Last /\ IsTorn(n))

\* A slip: only the active segment is counted.
ScanLast ==
  /\ pc = "scan"
  /\ IF Segments = {} THEN pc' = "create" /\ UNCHANGED <<seq, active, size>>
     ELSE /\ seq' = Count(Last)
          /\ active' = entries[Last] /\ size' = Count(Last) + 1
          /\ pc' = IF IsTorn(Last) THEN "truncate" ELSE "idle"
  /\ UNCHANGED <<disk, cur, history>>

\* One segment is read and counted; the last one becomes the active one.
Scan ==
  /\ pc = "scan"
  /\ IF Segments = {} THEN pc' = "create" /\ UNCHANGED <<seq, active, size>>
     ELSE LET n == Min(Unread) IN
       IF Refused(n) THEN pc' = "down" /\ UNCHANGED <<seq, active, size>>
       ELSE /\ seq' = seq + Count(n)
            /\ active' = entries[n] /\ size' = Count(n) + 1
            /\ pc' = IF n # Last THEN "scan" ELSE IF IsTorn(n) THEN "truncate" ELSE "idle"
  /\ UNCHANGED <<disk, cur, history>>

Truncate ==
  /\ pc = "truncate"
  /\ contents' = [contents EXCEPT ![active] = SubSeq(@, 1, size)]
  /\ pc' = "syncTruncate"
  /\ UNCHANGED <<dir, entries, kept, synced, memory, history>>

SyncTruncate ==
  /\ pc = "syncTruncate"
  /\ synced' = [synced EXCEPT ![active] = contents[active]]
  /\ pc' = "idle"
  /\ UNCHANGED <<dir, entries, kept, contents, memory, history>>

\* Any other call of New fails.
BootFails ==
  /\ pc \in Booting \ {"syncParent"} /\ Fault
  /\ pc' = "down"
  /\ UNCHANGED <<disk, memory, emits, acks>>

-----------------------------------------------------------------------------
(* commit *)

\* A segment with a record in it rotates when the next does not fit.
Commit ==
  /\ pc = "idle" /\ emits < MaxEmits
  /\ emits' = emits + 1 /\ cur' = emits'
  /\ pc' = "write" \/ (size > 1 /\ pc' = "create")
  /\ UNCHANGED <<disk, seq, active, size, acks, faults>>

Appended(frame) == [contents EXCEPT ![active] = Append(SubSeq(@, 1, size), frame)]

Write ==
  /\ pc = "write"
  /\ \/ contents' = Appended([id |-> cur, seq |-> seq]) /\ pc' = "fsync" /\ UNCHANGED faults
     \/ /\ contents' \in {contents, Appended(Torn), Appended([id |-> cur, seq |-> seq])}
        /\ pc' = "discard" /\ Fault
  /\ UNCHANGED <<dir, entries, kept, synced, memory, emits, acks>>

Fsync ==
  /\ pc = "fsync"
  /\ synced' = [synced EXCEPT ![active] = contents[active]]
  /\ acks' = acks \cup {[id |-> cur, seq |-> seq]}
  /\ seq' = seq + 1 /\ size' = size + 1 /\ cur' = 0
  /\ pc' = "idle"
  /\ UNCHANGED <<dir, entries, kept, contents, active, emits, faults>>

\* What was not confirmed may have reached the disk all the same.
FsyncFails ==
  /\ pc = "fsync" /\ Fault
  /\ synced' \in {synced, [synced EXCEPT ![active] = contents[active]]}
  /\ pc' = "discard"
  /\ UNCHANGED <<dir, entries, kept, contents, memory, emits, acks>>

\* A slip: the writer goes on after a failure.
DiscardOnly ==
  /\ pc = "discard"
  /\ \/ UNCHANGED <<contents, synced>>
     \/ /\ contents' = [contents EXCEPT ![active] = SubSeq(@, 1, size)]
        /\ synced' \in {synced, [synced EXCEPT ![active] = contents'[active]]}
  /\ pc' = "idle" /\ cur' = 0
  /\ UNCHANGED <<dir, entries, kept, seq, active, size, history>>

\* discardTail tries to cut the frame off, and latch ends all emissions.
Discard ==
  /\ pc = "discard"
  /\ \/ UNCHANGED <<contents, synced>>
     \/ /\ contents' = [contents EXCEPT ![active] = SubSeq(@, 1, size)]
        /\ synced' \in {synced, [synced EXCEPT ![active] = contents'[active]]}
  /\ pc' = "poisoned"
  /\ UNCHANGED <<dir, entries, kept, memory, history>>

-----------------------------------------------------------------------------
(* Crashes *)

\* The process ends, in the middle of a write for one.
Die ==
  /\ pc # "down" /\ pc' = "down" /\ Forget
  /\ contents' \in {contents} \cup (IF pc = "write" THEN {Appended(Torn)} ELSE {})
  /\ UNCHANGED <<dir, entries, kept, synced, history>>

\* The system writes back what it holds.
Settle ==
  /\ ~Settled
  /\ dir' = IF dir = "seen" THEN "kept" ELSE dir
  /\ kept' = entries /\ synced' = contents
  /\ UNCHANGED <<entries, contents, pc, memory, history>>

\* What may be left of a file: an unsynced change is there, in part, torn, or not.
Prefix(s, n) == SubSeq(s, 1, n)
Survivors(i) ==
  LET c == contents[i]
      s == synced[i]
      same == Max({n \in 0 .. Len(c) : n <= Len(s) /\ Prefix(c, n) = Prefix(s, n)})
      cut(t) == {Prefix(t, n) : n \in same .. Len(t)}
                  \cup {Append(Prefix(t, n), Torn) : n \in same .. Len(t) - 1}
  IN cut(c) \cup cut(s)

PowerLoss ==
  /\ pc' = "down" /\ Forget
  /\ dir' \in IF dir = "seen" THEN {"absent", "kept"} ELSE {dir}
  /\ \E lost \in SUBSET {n \in Names : entries[n] # kept[n]} :
       entries' = [n \in Names |-> IF dir' = "absent" THEN NoInode
                                   ELSE IF n \in lost THEN kept[n] ELSE entries[n]]
  /\ kept' = entries'
  /\ \E left \in [{i \in Inodes : contents[i] # synced[i]} -> UNION {Survivors(i) : i \in Inodes}] :
       /\ \A i \in DOMAIN left : left[i] \in Survivors(i)
       /\ contents' = [i \in Inodes |->
                         IF \A n \in Names : entries'[n] # i THEN <<>>
                         ELSE IF i \in DOMAIN left THEN left[i] ELSE contents[i]]
  /\ synced' = contents'
  /\ UNCHANGED history

-----------------------------------------------------------------------------
WriterNext ==
  \/ Boot \/ SyncParent \/ CleanTemps \/ SyncClean \/ Scan \/ Truncate \/ SyncTruncate
  \/ BootFails
  \/ CreateTemp \/ SyncTemp \/ Rename \/ SyncDir \/ CreateFails
  \/ Commit \/ Write \/ Fsync \/ FsyncFails \/ Discard
  \/ Die \/ Settle \/ PowerLoss

WriterSpec == WriterInit /\ [][WriterNext]_writerVars

-----------------------------------------------------------------------------
\* What Emit returned an Ack for, recovery reads back, whatever failed or crashed since
\* (audit.go:85-89: an Emit returns nil only after the record is durable).
AckedSurvives == pc = "scan" => acks \subseteq UNION {Readable(n) : n \in Segments}

\* The trail that recovery reads is numbered from 0 without a gap or a repetition, and
\* segments begin where their names say, so that the count resumes the sequence and no
\* new record or segment takes the place of an old one (writer.go:307-311, 337).
InSequence ==
  pc = "scan" =>
    \A n \in Segments :
      /\ \A k \in 2 .. Count(n) + 1 : Good(Frames(n))[k].seq = n + k - 2
      /\ n # Last => n + Count(n) \in Segments
      /\ n = 0 \/ \E m \in Segments : m < n /\ m + Count(m) = n

\* No failure or crash leaves a trail that New refuses: a torn frame is only ever at its
\* end (writer.go:307-325).
BootsAgain == pc = "scan" => \A n \in Segments : ~Refused(n)
=============================================================================
