------------------------------ MODULE SpillFile ------------------------------
(***************************************************************************)
(* The offline spill file of src/ph_native.c, call by call: offline_spill, *)
(* offline_enforce_cap and offline_replay, the file system underneath, and *)
(* processes that are killed and machines that lose power between any two  *)
(* calls.  Sender treats a spill and a replay as single steps; here they   *)
(* are what the code makes of open, write, fsync, rename and remove.       *)
(*                                                                         *)
(* Batches are numbered in the order they are spilled.  The file is its    *)
(* newline-terminated lines and tail, the number of bytes after the last   *)
(* newline.  A line has the number of the batch it holds, or Garbage when  *)
(* bytes of two records share it.                                          *)
(*                                                                         *)
(* cache is the file every process sees.  What a power loss leaves is a    *)
(* member of inode (contents the file itself may fall back to) or, while   *)
(* the directory has not been synced since the name changed, of behind     *)
(* (contents of what the name denoted before).                             *)
(*                                                                         *)
(* On a failed flush the C library is taken to discard its buffer, as      *)
(* glibc and musl do.                                                      *)
(***************************************************************************)
EXTENDS Naturals, Sequences, FiniteSets

CONSTANTS MaxBatches,  \* bound: batches that are spilled
          BodyLen,     \* bytes of each batch's body
          MaxBytes,    \* PH_OFFLINE_MAX_BYTES
          MaxCrashes   \* bound: kills and power losses

Batches == 1..MaxBatches

ASSUME SpillAssumption ==
  /\ MaxBatches \in Nat
  /\ BodyLen \in [Batches -> Nat \ {0}]
  /\ MaxBytes \in Nat
  /\ MaxCrashes \in Nat

VARIABLES cache, inode, behind, \* the file: see above
          pc,       \* control of the sender thread; "down" between processes
          base,     \* the file as offline_spill found it: where start points
          draft,    \* what write_atomic puts in the file
          victims,  \* batches that the rewrite in hand leaves out of the file
          todo,     \* lines offline_replay still has to look at
          next,     \* batch that is spilled next
          acked,    \* batches whose offline_spill returned 1
          settled,  \* batches posted, or counted in st_failed, since
          excused,  \* batches lost in one of the four ways named below
          crashes   \* kills and power losses so far

diskVars == <<cache, inode, behind>>
localVars == <<base, draft, victims, todo>>
ghostVars == <<next, acked, settled, excused>>
spillVars == <<diskVars, pc, localVars, ghostVars, crashes>>

Garbage == 0
Absent == [exists |-> FALSE, lines |-> <<>>, tail |-> 0]
Empty == [Absent EXCEPT !.exists = TRUE]

Line(b) == [id |-> b, size |-> BodyLen[b]]

(* Batches that have a line of their own among ls, or in file c.           *)
Held(ls) == {ls[i].id : i \in DOMAIN ls} \ {Garbage}
Own(c) == Held(c.lines)

(* Bytes of lines, each with its newline.                                  *)
LineBytes(ls) ==
  LET sum[i \in 0..Len(ls)] == IF i = 0 THEN 0 ELSE sum[i - 1] + ls[i].size + 1
  IN sum[Len(ls)]

(* file_size, of a file that exists.                                       *)
Bytes(c) == LineBytes(c.lines) + c.tail

(* c after the first k bytes of b's record.  Behind a torn tail the        *)
(* newline ends a line that is neither record.                             *)
Written(c, b, k) ==
  IF k <= BodyLen[b]
  THEN [c EXCEPT !.exists = TRUE, !.tail = @ + k]
  ELSE [exists |-> TRUE, tail |-> 0,
        lines |-> Append(c.lines,
                    IF c.tail = 0 THEN Line(b)
                    ELSE [id |-> Garbage, size |-> c.tail + BodyLen[b]])]

\* Mutant: the newline is forgotten.
FitsWithoutNewline(c, b) == Bytes(c) + BodyLen[b] <= MaxBytes

(* The record fits under the cap.                                          *)
Fits(c, b) == Bytes(c) + BodyLen[b] + 1 <= MaxBytes

(* What offline_enforce_cap keeps: the lines, and the tail, that start     *)
(* past byte drop, since it cuts at the next newline.                      *)
Trimmed(c, incoming) ==
  LET drop == Bytes(c) - (MaxBytes - incoming - 1)
      n == Cardinality({k \in 1..(Len(c.lines) + 1) :
                          LineBytes(SubSeq(c.lines, 1, k - 1)) <= drop})
  IN IF n > Len(c.lines) THEN Empty
     ELSE [c EXCEPT !.lines = SubSeq(@, n + 1, Len(@))]

SpillInit ==
  /\ cache = Absent /\ inode = {Absent} /\ behind = {}
  /\ pc = "idle"
  /\ base = Absent /\ draft = Absent /\ victims = {} /\ todo = <<>>
  /\ next = 1 /\ acked = {} /\ settled = {} /\ excused = {}
  /\ crashes = 0

-----------------------------------------------------------------------------
(* The call in hand is over, by a return or with the process.              *)
Over(to) ==
  /\ pc' = to
  /\ base' = Absent /\ draft' = Absent /\ victims' = {} /\ todo' = <<>>

(* offline_spill returns 0: the caller counts the batch as failed.         *)
Refused ==
  /\ Over("idle")
  /\ next' = next + 1
  /\ UNCHANGED <<acked, settled, crashes>>

(* offline_spill returns 1.  The first of the four: the record was put     *)
(* behind a torn tail.                                                     *)
Acknowledged ==
  /\ Over("idle")
  /\ next' = next + 1
  /\ acked' = acked \cup {next}
  /\ excused' = IF base.tail = 0 THEN excused ELSE excused \cup {next}
  /\ UNCHANGED <<settled, crashes>>

(* offline_enforce_cap, up to its rewrite.                                 *)
EnforceCap ==
  /\ pc = "idle" /\ next \in Batches
  /\ BodyLen[next] < MaxBytes
  /\ \/ /\ ~cache.exists \/ Fits(cache, next)
        /\ pc' = "append"
        /\ UNCHANGED <<draft, victims>>
     \/ /\ cache.exists /\ ~Fits(cache, next)
        /\ draft' = Trimmed(cache, BodyLen[next])
        /\ victims' = Own(cache) \ Own(draft')
        /\ pc' = "evict"
  /\ UNCHANGED <<diskVars, base, todo, ghostVars, crashes>>

(* No directory, a batch that is too large, no memory, or a file that does *)
(* not open or read.                                                       *)
SpillFails ==
  /\ pc \in {"idle", "append"} /\ next \in Batches
  /\ Refused
  /\ UNCHANGED <<diskVars, excused>>

(* Open for append and write.  k bytes of the record reach the file.       *)
AppendRecord ==
  /\ pc = "append"
  /\ base' = cache
  /\ \E k \in 0..(BodyLen[next] + 1) :
       /\ cache' = Written(cache, next, k)
       /\ inode' = (IF cache.exists THEN inode ELSE {})
                      \cup {Written(cache, next, j) : j \in 0..k}
       /\ pc' = IF k = BodyLen[next] + 1 THEN "flush" ELSE "rollback"
  /\ behind' = IF cache.exists THEN behind ELSE behind \cup inode
  /\ UNCHANGED <<draft, victims, todo, ghostVars, crashes>>

\* Mutant: flushed but not synced.
NotSynced == inode

(* What is durable of the file after fsync.                                *)
Synced == {cache}

(* durable_flush and fclose.  A close that fails returns 0 and leaves the  *)
(* record where it is.                                                     *)
FlushRecord ==
  /\ pc = "flush"
  /\ inode' = Synced
  /\ UNCHANGED <<cache, behind>>
  /\ \/ base.exists /\ Acknowledged
     \/ /\ ~base.exists
        /\ pc' = "entry"
        /\ UNCHANGED <<localVars, ghostVars, crashes>>
     \/ Refused /\ UNCHANGED excused

FlushFails ==
  /\ pc = "flush"
  /\ pc' = "rollback"
  /\ UNCHANGED <<diskVars, localVars, ghostVars, crashes>>

(* Truncate to start and flush, whatever either returns.                   *)
RollBack ==
  /\ pc = "rollback"
  /\ cache' \in {cache, [base EXCEPT !.exists = TRUE]}
  /\ inode' \in {{cache'}, inode \cup {cache'}}
  /\ Refused
  /\ UNCHANGED <<behind, excused>>

(* fsync_offline_dir for a file that was new.                              *)
SyncNewEntry ==
  /\ pc = "entry"
  /\ UNCHANGED <<cache, inode>>
  /\ \/ behind' = {} /\ Acknowledged
     \/ Refused /\ UNCHANGED <<behind, excused>>

-----------------------------------------------------------------------------
(* write_atomic, called by offline_enforce_cap ("evict") and by            *)
(* offline_replay ("keep"): the temporary file is written and synced, then *)
(* renamed over the file, then the directory is synced.                    *)
TmpContents == {draft}

Replace(from, to) ==
  /\ pc = from
  /\ pc' = to
  /\ cache' = draft
  /\ inode' = TmpContents
  /\ behind' = behind \cup inode
  /\ UNCHANGED <<base, draft, victims, todo, next, acked, settled, crashes>>

(* The second of the four: the rewrite that follows a replay leaves out    *)
(* what was not read, or what memory ran out for.                          *)
ReplaceKept == Replace("keep", "kept") /\ excused' = excused \cup victims

ReplaceTrimmed == Replace("evict", "evicted") /\ UNCHANGED excused

(* Evicted batches are counted once write_atomic has returned 1.           *)
EvictionDone ==
  /\ pc = "evicted"
  /\ Over("append")
  /\ behind' = {}
  /\ settled' = settled \cup victims
  /\ UNCHANGED <<cache, inode, next, acked, excused, crashes>>

(* write_atomic returns 0 in offline_enforce_cap.  The third of the four:  *)
(* the rename has already happened, and nothing is counted.                *)
EvictionFails ==
  /\ pc \in {"evict", "evicted"}
  /\ excused' = IF pc = "evicted" THEN excused \cup victims ELSE excused
  /\ Refused
  /\ UNCHANGED diskVars

(* write_atomic returns in offline_replay, which only logs a failure.      *)
RewriteReturns ==
  /\ pc \in {"keep", "kept"}
  /\ Over("idle")
  /\ behind' \in IF pc = "kept" THEN {behind, {}} ELSE {behind}
  /\ UNCHANGED <<cache, inode, ghostVars, crashes>>

-----------------------------------------------------------------------------
(* offline_replay reads the file; fread may stop short.                    *)
ReplayBegin ==
  /\ pc = "idle" /\ cache.exists /\ Bytes(cache) > 0
  /\ \E n \in 0..Len(cache.lines) :
       /\ todo' = SubSeq(cache.lines, 1, n)
       /\ victims' = Own(cache) \ Held(todo')
  /\ pc' = "replay"
  /\ UNCHANGED <<diskVars, base, draft, ghostVars, crashes>>

(* It returns at once when there is nothing to read, no memory for it, or  *)
(* no time left.                                                           *)
ReplaySkip == pc = "idle" /\ UNCHANGED spillVars

(* One line leaves the file: over max_batch_bytes and counted, or accepted *)
(* by the server, or rejected for good and counted.  A line that holds no  *)
(* whole batch counts for nothing.                                         *)
ReplayLine ==
  /\ pc = "replay" /\ todo # <<>>
  /\ settled' = settled \cup Held(<<Head(todo)>>)
  /\ todo' = Tail(todo)
  /\ UNCHANGED <<diskVars, pc, base, draft, victims, next, acked, excused, crashes>>

(* A transient failure, a hold or the deadline stops the replay, and the   *)
(* rest of the lines is kept.  Once memory runs out the buffer takes no    *)
(* more bytes: n lines are in it, and perhaps the next without its newline.*)
ReplayStop ==
  /\ pc = "replay" /\ todo # <<>>
  /\ \E n \in 0..Len(todo) :
       \E t \in {0} \cup {todo[n + 1].size : i \in {n} \ {Len(todo)}} :
         draft' = [exists |-> TRUE, lines |-> SubSeq(todo, 1, n), tail |-> t]
  /\ victims' = victims \cup (Held(todo) \ Own(draft'))
  /\ todo' = <<>>
  /\ pc' = IF draft' = Empty THEN "remove" ELSE "keep"
  /\ UNCHANGED <<diskVars, base, ghostVars, crashes>>

ReplayDone ==
  /\ pc = "replay" /\ todo = <<>>
  /\ pc' = "remove"
  /\ UNCHANGED <<diskVars, localVars, ghostVars, crashes>>

(* Nothing to keep: remove the file.  A failure is only logged.            *)
RemoveFile ==
  /\ pc = "remove"
  /\ Over("idle")
  /\ \/ /\ cache' = Absent
        /\ inode' = {Absent}
        /\ behind' = behind \cup inode
        /\ excused' = excused \cup victims
     \/ UNCHANGED <<diskVars, excused>>
  /\ UNCHANGED <<next, acked, settled, crashes>>

-----------------------------------------------------------------------------
(* The process dies.  An eviction that was not counted yet goes with it.   *)
Dies ==
  /\ crashes < MaxCrashes
  /\ crashes' = crashes + 1
  /\ Over("down")
  /\ UNCHANGED <<acked, settled>>
  /\ next' = IF pc \in {"append", "flush", "rollback", "entry", "evict", "evicted"}
             THEN next + 1 ELSE next

Uncounted == IF pc = "evicted" THEN victims ELSE {}

Kill ==
  /\ pc # "down"
  /\ Dies
  /\ excused' = excused \cup Uncounted
  /\ UNCHANGED diskVars

(* The last of the four: the power fails while the name may still fall     *)
(* back to an older file.                                                  *)
PowerLoss ==
  /\ Dies
  /\ cache' \in inode \cup behind
  /\ inode' = {cache'}
  /\ behind' = {}
  /\ excused' = excused \cup (Uncounted \ Own(cache'))
                  \cup (IF cache' \in inode THEN {} ELSE acked \ Own(cache'))

Restart ==
  /\ pc = "down"
  /\ pc' = "idle"
  /\ UNCHANGED <<diskVars, localVars, ghostVars, crashes>>

SpillNext ==
  \/ EnforceCap \/ SpillFails \/ AppendRecord \/ FlushRecord \/ FlushFails
  \/ RollBack \/ SyncNewEntry
  \/ ReplaceKept \/ ReplaceTrimmed \/ EvictionDone \/ EvictionFails \/ RewriteReturns
  \/ ReplaySkip \/ ReplayBegin \/ ReplayLine \/ ReplayStop \/ ReplayDone \/ RemoveFile
  \/ Kill \/ PowerLoss \/ Restart

SpillSpec == SpillInit /\ [][SpillNext]_spillVars

-----------------------------------------------------------------------------
Pcs == {"down", "idle", "append", "flush", "rollback", "entry", "evict",
        "evicted", "replay", "remove", "keep", "kept"}

Lines == Seq([id : Batches \cup {Garbage}, size : Nat \ {0}])
Files == [exists : BOOLEAN, lines : Lines, tail : Nat]

SpillTypeOK ==
  /\ {cache, base, draft} \cup inode \cup behind \subseteq Files
  /\ pc \in Pcs
  /\ todo \in Lines
  /\ victims \subseteq Batches
  /\ next \in 1..(MaxBatches + 1)
  /\ UNION {acked, settled, excused} \subseteq 1..(next - 1)
  /\ crashes \in 0..MaxCrashes

(* A batch that offline_spill took is in the file until it is posted or    *)
(* counted: on a line of its own, in what processes see and in whatever    *)
(* the file may fall back to.  The four ways to lose one that excused      *)
(* names are all there are: behind a torn tail, in a replay that could not *)
(* read or keep it, in an eviction whose directory sync failed or whose    *)
(* process died, or by a power loss before the name was durable.           *)
SpilledStays ==
  \A b \in acked \ (settled \cup excused \cup Uncounted) :
    \A c \in {cache} \cup inode : b \in Own(c)

(* Batches are in the file in the order they were spilled, each once,      *)
(* whatever crash or failed call came before: offline_replay posts the     *)
(* oldest first.                                                           *)
LinesInOrder ==
  \A c \in {cache} \cup inode \cup behind :
    \A i, j \in DOMAIN c.lines :
      i < j /\ Garbage \notin {c.lines[i].id, c.lines[j].id}
        => c.lines[i].id < c.lines[j].id

(* The file never outgrows PH_OFFLINE_MAX_BYTES, torn tails, failed        *)
(* rollbacks and files that come back after a power loss included.         *)
UnderCap == \A c \in {cache} \cup inode \cup behind : Bytes(c) <= MaxBytes

=============================================================================
