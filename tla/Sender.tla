------------------------------- MODULE Sender -------------------------------
(***************************************************************************)
(* The delivery pipeline of src/ph_native.c: the sender thread, the event  *)
(* ring it drains, the offline spill file it replays and appends to, the   *)
(* server backpressure window it honours, ph_flush and ph_shutdown.        *)
(*                                                                         *)
(* Events are numbered in the order the ring accepts them.  A run of       *)
(* events (what one POST body or one spill record holds) is the set of     *)
(* their numbers: the code keeps a run in capture order.  The counters     *)
(* st_sent, st_failed, st_before_send_dropped and the ring's dropped are   *)
(* the sets of the events they counted.                                    *)
(*                                                                         *)
(* Time is what can be observed of it: hold is "disabled_until > now" and  *)
(* may lapse at any moment, expired is "the shutdown deadline has passed"  *)
(* and may become true at any moment after the stop request.  Each read    *)
(* of a clock by the code is a step of its own.                            *)
(***************************************************************************)
EXTENDS Naturals, Sequences, FiniteSets, Functions

CONSTANTS MaxEvents,        \* bound: number of the last event captured
          Old,              \* events 1..Old lie in the spill file of an
                            \* earlier run of the program, one per record
          MaxQueue,         \* capacity of the ring
          MaxBatch,         \* events one pop takes at most
          MaxRetries,       \* retries of one POST (max_retries)
          MaxRun,           \* events that fit max_batch_bytes
          Heavy,            \* events that alone exceed max_batch_bytes
          Configs,          \* whether offline_path is set: the cases to consider
          HasBeforeSend,    \* before_send is set and may veto an event
          CrashReplay,      \* the first capture is the crash report of an
                            \* earlier run (ph_signal_crash_replay)
          Responses,        \* what the server may answer, see Answers
          CapBinds,         \* the spill file may reach its byte cap
          IoFaults,         \* file operations and allocations may fail
          DirSyncFaults,    \* fsync of the directory may fail after a rename
          HoldOutlivesStop, \* no backpressure window ends during shutdown
          Flushers          \* threads that call ph_flush, once each

(* What a POST comes to: a 2xx, a 2xx with the quota notice, a permanent   *)
(* 4xx, a 429 or 503 that arms the limiter, and any other failure.         *)
Answers == {"ok", "quota", "reject", "throttle", "transient"}
Delivers == {"ok", "quota"}
Arms == {"quota", "throttle"}

ASSUME SenderAssumption ==
  /\ MaxEvents \in Nat /\ Old \in Nat /\ Old <= MaxEvents
  /\ MaxQueue \in Nat \ {0} /\ MaxBatch \in Nat \ {0}
  /\ MaxRetries \in Nat
  /\ MaxRun \in Nat \ {0}
  /\ Heavy \subseteq 1 .. MaxEvents
  /\ {HasBeforeSend, CrashReplay, CapBinds, IoFaults, DirSyncFaults,
      HoldOutlivesStop} \subseteq BOOLEAN
  /\ Responses \subseteq Answers /\ Configs \subseteq BOOLEAN

VARIABLES offline,    \* offline_path is set, from ph_init on
          accepted,   \* events 1..accepted were accepted, by this run or before
          queue,      \* the ring, oldest first
          overflowed, \* events the ring evicted
          disk,       \* the records of the spill file, oldest first
          sent, failed, vetoed,
          record,     \* the crash record file of the earlier run exists
          hold,       \* the backpressure window is open
          armedBy,    \* which kind of POST opened it: "replay" or "live"
          stop,       \* g_ph.stop
          expired,    \* the shutdown deadline has passed
          pc,         \* control of the sender thread
          final,      \* it runs the final drain
          sending,    \* g_ph.sending
          lines, keep, stopped, \* locals of offline_replay
          todo,       \* runs still to be sent or persisted, the first in hand
          persisting, \* a send returned blocked: persist what is left in todo
          attempt,    \* retry number of the POST in hand
          back,       \* where control returns when todo is empty
          fpc,        \* control of each ph_flush call
          cycled,     \* drain_gen has passed the call's snapshot
          target,     \* events accepted before the call
          sawStart    \* a drain began after the call's snapshot

ringVars == <<offline, accepted, queue, overflowed>>
countVars == <<sent, failed, vetoed>>
timeVars == <<hold, armedBy, stop, expired>>
replayVars == <<lines, keep, stopped>>
runVars == <<todo, persisting, attempt, back>>
flushVars == <<fpc, cycled, target, sawStart>>
vars == <<ringVars, disk, countVars, record, timeVars, pc, final, sending,
          replayVars, runVars, flushVars>>

Ring == INSTANCE BoundedFifo WITH Cap <- MaxQueue

CrashEvent == Old + 1
Union(records) == UNION Range(records)

(* The serialized run exceeds max_batch_bytes.                             *)
Oversize(run) == Cardinality(run) > MaxRun \/ run \cap Heavy # {}

(* The first half of a run, evs[0 .. n/2).                                 *)
FirstHalf(run) ==
  {e \in run : 2 * Cardinality({d \in run : d <= e}) <= Cardinality(run)}

Init ==
  /\ offline \in Configs
  /\ accepted = IF offline THEN Old ELSE 0
  /\ queue = <<>>
  /\ overflowed = {}
  /\ disk = [i \in 1 .. accepted |-> {i}]
  /\ sent = {}
  /\ failed = {}
  /\ vetoed = {}
  /\ record = (CrashReplay /\ offline)
  /\ hold = FALSE
  /\ armedBy = "live"
  /\ stop = FALSE
  /\ expired = FALSE
  /\ pc = "wait"
  /\ final = FALSE
  /\ sending = FALSE
  /\ lines = <<>>
  /\ keep = <<>>
  /\ stopped = FALSE
  /\ todo = <<>>
  /\ persisting = FALSE
  /\ attempt = 0
  /\ back = "held"
  /\ fpc = [f \in Flushers |-> "out"]
  /\ cycled = [f \in Flushers |-> FALSE]
  /\ target = [f \in Flushers |-> 0]
  /\ sawStart = [f \in Flushers |-> FALSE]

Goto(from, to) == pc = from /\ pc' = to

(* A step that only reads, and branches.                                   *)
Move(from, to) ==
  /\ Goto(from, to)
  /\ UNCHANGED <<ringVars, disk, countVars, record, timeVars, final, sending,
                 replayVars, runVars, flushVars>>
-----------------------------------------------------------------------------
(* The host, the server's window and the clock.                            *)

(* ph__submit_event, past admission: the ring accepts the event.           *)
Capture ==
  /\ ~stop
  /\ accepted < MaxEvents
  /\ accepted' = accepted + 1
  /\ queue' = Ring!Pushed(queue, accepted + 1)
  /\ overflowed' = overflowed \cup Ring!Evicted(queue)
  /\ UNCHANGED <<offline, disk, countVars, record, timeVars, pc, final, sending,
                 replayVars, runVars, flushVars>>

HoldLapses ==
  /\ hold
  /\ ~(HoldOutlivesStop /\ stop)
  /\ hold' = FALSE
  /\ UNCHANGED <<ringVars, disk, countVars, record, armedBy, stop, expired, pc,
                 final, sending, replayVars, runVars, flushVars>>

(* ph__sender_stop_and_join.  The host has joined every thread that calls  *)
(* the SDK, so no ph_flush is in progress.                                 *)
StopRequest ==
  /\ ~stop
  /\ \A f \in Flushers : fpc[f] # "waiting"
  /\ stop' = TRUE
  /\ UNCHANGED <<ringVars, disk, countVars, record, hold, armedBy, expired, pc,
                 final, sending, replayVars, runVars, flushVars>>

DeadlinePasses ==
  /\ stop
  /\ ~expired
  /\ expired' = TRUE
  /\ UNCHANGED <<ringVars, disk, countVars, record, hold, armedBy, stop, pc,
                 final, sending, replayVars, runVars, flushVars>>

(* ph_flush: snapshot drain_gen and wake the sender.                       *)
FlushBegin(f) ==
  /\ ~stop
  /\ fpc[f] = "out"
  /\ fpc' = [fpc EXCEPT ![f] = "waiting"]
  /\ cycled' = [cycled EXCEPT ![f] = FALSE]
  /\ target' = [target EXCEPT ![f] = accepted]
  /\ sawStart' = [sawStart EXCEPT ![f] = FALSE]
  /\ UNCHANGED <<ringVars, disk, countVars, record, timeVars, pc, final,
                 sending, replayVars, runVars>>

(* Mutant: the sending flag is not looked at.                              *)
FlushReturnEarly(f) ==
  /\ fpc[f] = "waiting" /\ cycled[f] /\ queue = <<>>
  /\ fpc' = [fpc EXCEPT ![f] = "idle"]
  /\ UNCHANGED <<ringVars, disk, countVars, record, timeVars, pc, final,
                 sending, replayVars, runVars, cycled, target, sawStart>>

(* ph_flush finds the sender idle and returns.                             *)
FlushReturn(f) ==
  /\ fpc[f] = "waiting"
  /\ cycled[f]
  /\ queue = <<>>
  /\ ~sending
  /\ fpc' = [fpc EXCEPT ![f] = "idle"]
  /\ UNCHANGED <<ringVars, disk, countVars, record, timeVars, pc, final,
                 sending, replayVars, runVars, cycled, target, sawStart>>

(* ph_flush returns on its timeout, or at once with timeout 0.             *)
FlushTimeout(f) ==
  /\ fpc[f] = "waiting"
  /\ fpc' = [fpc EXCEPT ![f] = "gone"]
  /\ UNCHANGED <<ringVars, disk, countVars, record, timeVars, pc, final,
                 sending, replayVars, runVars, cycled, target, sawStart>>
-----------------------------------------------------------------------------
(* The sender thread: the start of drain and offline_replay.               *)

(* ph_queue_wait returned, or the stop request was seen: drain begins.     *)
DrainBegin ==
  /\ pc \in {"wait", "final"}
  /\ final' = (pc = "final")
  /\ pc' = "gate"
  /\ sending' = TRUE
  /\ sawStart' = [f \in Flushers |-> TRUE]
  /\ UNCHANGED <<ringVars, disk, countVars, record, timeVars, replayVars,
                 runVars, fpc, cycled, target>>

(* Nothing is replayed or sent under backpressure or past the deadline.    *)
Gate ==
  Move("gate", IF hold \/ expired THEN "tail" ELSE "open")

(* offline_replay reads the whole file.                                    *)
ReplayBegin ==
  /\ offline /\ ~expired /\ disk # <<>>
  /\ Goto("open", "line")
  /\ lines' = disk
  /\ keep' = <<>>
  /\ stopped' = FALSE
  /\ UNCHANGED <<ringVars, disk, countVars, record, timeVars, final, sending,
                 runVars, flushVars>>

(* Nothing to replay, the deadline has passed, or the file is unreadable.  *)
ReplaySkip ==
  /\ ~offline \/ expired \/ disk = <<>> \/ IoFaults
  /\ Move("open", "loop")

(* Mutant: the untried remainder is not copied into keep.                  *)
ReplayForgets ==
  /\ stopped \/ expired \/ lines = <<>>
  /\ Goto("line", "rewrite")
  /\ lines' = <<>>
  /\ UNCHANGED <<ringVars, disk, countVars, record, timeVars, final, sending,
                 keep, stopped, runVars, flushVars>>

(* Once stopped, or past the deadline, the rest of the file is kept.       *)
ReplayStop ==
  /\ stopped \/ expired \/ lines = <<>>
  /\ Goto("line", "rewrite")
  /\ keep' = keep \o lines
  /\ lines' = <<>>
  /\ UNCHANGED <<ringVars, disk, countVars, record, timeVars, final, sending,
                 stopped, runVars, flushVars>>

(* A record over max_batch_bytes (the cap was lowered since) is dropped.   *)
ReplayOversize ==
  /\ ~stopped /\ ~expired /\ lines # <<>>
  /\ Oversize(Head(lines))
  /\ Goto("line", "line")
  /\ failed' = failed \cup Head(lines)
  /\ lines' = Tail(lines)
  /\ UNCHANGED <<ringVars, disk, sent, vetoed, record, timeVars, final, sending,
                 keep, stopped, runVars, flushVars>>

ReplayPost ==
  /\ ~stopped /\ ~expired /\ lines # <<>>
  /\ ~Oversize(Head(lines))
  /\ Move("line", "rpost")

(* Any POST may fail once the shutdown budget limits it.                   *)
Possible == Responses \cup IF stop THEN {"transient"} ELSE {}

(* post_and_note folds the answer into the rate limiter.                   *)
Note(r, kind) ==
  /\ hold' = (hold \/ r \in Arms)
  /\ armedBy' = IF r \in Arms THEN kind ELSE armedBy

(* The answer to a replayed record: delivered or rejected records leave    *)
(* the file, a failed one is kept and stops the replay.                    *)
ReplayAnswer(r) ==
  /\ r \in Possible
  /\ Goto("rpost", IF r \in Delivers THEN "rcheck" ELSE "line")
  /\ Note(r, "replay")
  /\ sent' = IF r \in Delivers THEN sent \cup Head(lines) ELSE sent
  /\ failed' = IF r = "reject" THEN failed \cup Head(lines) ELSE failed
  /\ keep' = IF r \in Delivers \cup {"reject"} THEN keep ELSE Append(keep, Head(lines))
  /\ stopped' = (r \notin Delivers \cup {"reject"})
  /\ lines' = Tail(lines)
  /\ UNCHANGED <<ringVars, disk, vetoed, record, stop, expired, final, sending,
                 runVars, flushVars>>

(* After a delivery: a quota notice holds the untried remainder.           *)
ReplayCheck ==
  /\ Goto("rcheck", "line")
  /\ stopped' = hold
  /\ UNCHANGED <<ringVars, disk, countVars, record, timeVars, final, sending,
                 lines, keep, runVars, flushVars>>

(* Mutant: a fully drained file is not removed.                            *)
RewriteUnlessDrained ==
  /\ Goto("rewrite", "loop")
  /\ disk' = IF keep = <<>> THEN disk ELSE keep
  /\ keep' = <<>>
  /\ UNCHANGED <<ringVars, countVars, record, timeVars, final, sending, lines,
                 stopped, runVars, flushVars>>

(* The file is removed or atomically replaced by what was kept.  If that   *)
(* fails it stays as it was and its records will be sent again.            *)
Rewrite ==
  /\ Goto("rewrite", "loop")
  /\ \/ disk' = keep
     \/ IoFaults /\ UNCHANGED disk
  /\ keep' = <<>>
  /\ UNCHANGED <<ringVars, countVars, record, timeVars, final, sending, lines,
                 stopped, runVars, flushVars>>
-----------------------------------------------------------------------------
(* The sender thread: popping, and the end of drain.                       *)

(* scrub_events: before_send may veto any event except the crash report,   *)
(* whose scrub ran before it was queued.                                   *)
Vetoes(batch) ==
  IF HasBeforeSend
  THEN SUBSET (IF CrashReplay THEN batch \ {CrashEvent} ELSE batch)
  ELSE {{}}

(* Pop a batch, scrub it and put the survivors in hand; continue at next   *)
(* when they are settled.                                                  *)
PopScrubbed(next) ==
  LET batch == Range(Ring!Batch(queue, MaxBatch))
  IN /\ queue # <<>>
     /\ queue' = Ring!Rest(queue, MaxBatch)
     /\ \E gone \in Vetoes(batch) :
          /\ vetoed' = vetoed \cup gone
          /\ todo' = IF batch = gone THEN <<>> ELSE <<batch \ gone>>
     /\ pc' = "run"
     /\ back' = next
     /\ persisting' = (next # "held")
     /\ UNCHANGED <<offline, accepted, overflowed, disk, sent, failed, record, timeVars,
                    final, sending, replayVars, attempt, flushVars>>

(* drain's loop: the next batch goes to send_batch.                        *)
LoopPop ==
  /\ pc = "loop"
  /\ ~expired
  /\ PopScrubbed("held")

(* drain's loop ends on an empty ring, or turns to settle_queued.          *)
LoopEnd ==
  /\ expired \/ queue = <<>>
  /\ Move("loop", IF expired THEN "settle" ELSE "tail")

(* A batch tripped the limiter: hold the rest in the ring.                 *)
Held ==
  Move("held", IF hold THEN "tail" ELSE "loop")

(* The two clock reads of drain's last condition.                          *)
TailDeadline ==
  Move("tail", IF expired THEN "settleTail" ELSE "tailHold")

(* Mutant: the final drain does not settle what backpressure holds.        *)
TailIgnoresHold == Move("tailHold", "finish")

TailHold ==
  Move("tailHold", IF final /\ hold THEN "settleTail" ELSE "finish")

(* settle_queued, from drain's loop and from its end: pop and persist, or  *)
(* count as failed without an offline_path, until the ring is empty.       *)
SettlePersist ==
  /\ pc \in {"settle", "settleTail"}
  /\ offline
  /\ PopScrubbed(pc)

SettleDrop ==
  /\ pc \in {"settle", "settleTail"}
  /\ ~offline
  /\ queue # <<>>
  /\ failed' = failed \cup Range(Ring!Batch(queue, MaxBatch))
  /\ queue' = Ring!Rest(queue, MaxBatch)
  /\ UNCHANGED <<offline, accepted, overflowed, disk, sent, vetoed, record, timeVars, pc,
                 final, sending, replayVars, runVars, flushVars>>

SettleEnd ==
  /\ pc \in {"settle", "settleTail"}
  /\ queue = <<>>
  /\ pc' = IF pc = "settle" THEN "tail" ELSE "finish"
  /\ UNCHANGED <<ringVars, disk, countVars, record, timeVars, final, sending,
                 replayVars, runVars, flushVars>>

(* Mutant: the generation does not advance.                                *)
FinishUnannounced ==
  /\ Goto("finish", IF final THEN "done" ELSE "after")
  /\ sending' = FALSE
  /\ UNCHANGED <<ringVars, disk, countVars, record, timeVars, final, replayVars,
                 runVars, flushVars>>

(* The end of drain: the generation advances and waiting flushes look.     *)
Finish ==
  /\ Goto("finish", IF final THEN "done" ELSE "after")
  /\ sending' = FALSE
  /\ cycled' = [f \in Flushers |-> cycled[f] \/ fpc[f] = "waiting"]
  /\ UNCHANGED <<ringVars, disk, countVars, record, timeVars, final, replayVars,
                 runVars, fpc, target, sawStart>>

(* sender_main after a drain: stop, park while the server holds us off, or *)
(* wait again.  A window with less than a millisecond left is not parked.  *)
After ==
  /\ pc = "after"
  /\ pc' \in IF stop THEN {"final"} ELSE IF hold THEN {"park", "wait"} ELSE {"wait"}
  /\ UNCHANGED <<ringVars, disk, countVars, record, timeVars, final, sending,
                 replayVars, runVars, flushVars>>

(* Mutant: the park is not interrupted by the stop request.                *)
ParkUninterrupted == ~hold /\ Move("park", IF stop THEN "final" ELSE "wait")

Park ==
  /\ stop \/ ~hold
  /\ Move("park", IF stop THEN "final" ELSE "wait")
-----------------------------------------------------------------------------
(* The sender thread: send_run, send_one and persist_run.                  *)

Run == Head(todo)

(* The run in hand is settled: counted, delivered or on disk.              *)
Settled == todo' = Tail(todo)

(* persist_run rather than send_run, and whether it serializes.            *)
Persists == persisting \/ expired
Serializes == offline \/ ~Persists

RunFrame == UNCHANGED <<ringVars, vetoed, timeVars, final, sending, replayVars,
                        persisting, back, flushVars>>

RunsDone ==
  /\ todo = <<>>
  /\ Goto("run", back)
  /\ persisting' = FALSE
  /\ UNCHANGED <<ringVars, disk, countVars, record, timeVars, final, sending,
                 replayVars, todo, attempt, back, flushVars>>

(* Mutant: the halves in the wrong order.                                  *)
RunSplitSwapped ==
  /\ todo # <<>> /\ Serializes
  /\ Oversize(Run) /\ Cardinality(Run) > 1
  /\ Goto("run", "run")
  /\ todo' = <<Run \ FirstHalf(Run), FirstHalf(Run)>> \o Tail(todo)
  /\ UNCHANGED <<disk, sent, failed, record, attempt>>
  /\ RunFrame

RunSplit ==
  /\ todo # <<>> /\ Serializes
  /\ Oversize(Run) /\ Cardinality(Run) > 1
  /\ Goto("run", "run")
  /\ todo' = <<FirstHalf(Run), Run \ FirstHalf(Run)>> \o Tail(todo)
  /\ UNCHANGED <<disk, sent, failed, record, attempt>>
  /\ RunFrame

(* A single event over the cap, or no memory for the body: counted.        *)
RunFails ==
  /\ todo # <<>> /\ Serializes
  /\ (Oversize(Run) /\ Cardinality(Run) = 1) \/ IoFaults
  /\ Goto("run", "run")
  /\ failed' = failed \cup Run
  /\ Settled
  /\ UNCHANGED <<disk, sent, record, attempt>>
  /\ RunFrame

RunPost ==
  /\ todo # <<>> /\ ~Persists /\ ~Oversize(Run)
  /\ Goto("run", "post")
  /\ attempt' = 0
  /\ UNCHANGED <<todo, disk, sent, failed, record>>
  /\ RunFrame

(* ph_signal_crash_handoff_complete: the crash record may go.              *)
Handoff(run) == record' = (record /\ ~(CrashReplay /\ CrashEvent \in run))

(* offline_enforce_cap: the oldest records make room and are counted.  How *)
(* many depends on their sizes in bytes.                                   *)
CapDrops == IF CapBinds THEN 0 .. Len(disk) ELSE {0}
Evicted(d) == Union(SubSeq(disk, 1, d))
Kept(d) == SubSeq(disk, d + 1, Len(disk))

(* offline_spill: append the run as the newest record.                     *)
Spill(run) ==
  /\ \E d \in CapDrops :
       /\ disk' = Append(Kept(d), run)
       /\ failed' = failed \cup Evicted(d)
  /\ Handoff(run)

(* Mutant: a failed spill acknowledges the crash.                          *)
SpillFailsHandedOff(run) ==
  /\ IoFaults
  /\ \E d \in CapDrops :
       /\ disk' = Kept(d)
       /\ failed' = failed \cup Evicted(d) \cup run
  /\ Handoff(run)

(* offline_spill reports failure: nothing was written, or the last close   *)
(* or directory sync failed behind a complete record.  The run is counted. *)
SpillFails(run) ==
  /\ IoFaults
  /\ \E d \in CapDrops :
       /\ disk' \in {Kept(d), Append(Kept(d), run)}
       /\ failed' = failed \cup Evicted(d) \cup run
  /\ UNCHANGED record

(* write_atomic in offline_enforce_cap renamed the shortened file and then *)
(* failed to sync the directory: the evicted records are not counted.      *)
CapRewriteFails(run) ==
  /\ DirSyncFaults
  /\ \E d \in CapDrops :
       /\ d > 0
       /\ disk' = Kept(d)
       /\ failed' = failed \cup run
  /\ UNCHANGED record

(* Persist the run, or count it when there is no offline_path.             *)
Persist(run) ==
  \/ /\ ~offline
     /\ failed' = failed \cup run
     /\ UNCHANGED <<disk, record>>
  \/ offline /\ (Spill(run) \/ SpillFails(run) \/ CapRewriteFails(run))

RunPersist ==
  /\ todo # <<>> /\ Persists
  /\ ~offline \/ ~Oversize(Run)
  /\ Goto("run", "run")
  /\ Persist(Run)
  /\ Settled
  /\ UNCHANGED <<sent, attempt>>
  /\ RunFrame

(* The answer to the POST of a run.                                        *)
Answer(r) ==
  /\ r \in Possible
  /\ Goto("post", IF r \in Delivers \cup {"reject"} THEN "return" ELSE "retry")
  /\ Note(r, "live")
  /\ sent' = IF r \in Delivers THEN sent \cup Run ELSE sent
  /\ failed' = IF r = "reject" THEN failed \cup Run ELSE failed
  /\ IF r \in Delivers THEN Handoff(Run) ELSE UNCHANGED record
  /\ IF r \in Delivers \cup {"reject"} THEN Settled ELSE UNCHANGED todo
  /\ UNCHANGED <<ringVars, disk, vetoed, stop, expired, final, sending,
                 replayVars, persisting, attempt, back, flushVars>>

(* A failed attempt: give up under backpressure or after the last retry.   *)
Retry ==
  Move("retry", IF hold \/ attempt = MaxRetries THEN "giveUp" ELSE "backoff")

(* sender_backoff_wait: the stop request ends the retries.                 *)
Backoff ==
  /\ Goto("backoff", IF stop THEN "giveUp" ELSE "post")
  /\ attempt' = IF stop THEN attempt ELSE attempt + 1
  /\ UNCHANGED <<todo, disk, sent, failed, record>>
  /\ RunFrame

GiveUp ==
  /\ Goto("giveUp", "return")
  /\ Persist(Run)
  /\ Settled
  /\ UNCHANGED <<sent, attempt>>
  /\ RunFrame

(* Mutant: the siblings of a throttled half are still sent.                *)
ReturnUnblocked ==
  /\ Goto("return", "run")
  /\ UNCHANGED <<ringVars, disk, countVars, record, timeVars, final, sending,
                 replayVars, runVars, flushVars>>

(* send_one returns whether the limiter is armed: if so the unsent siblings *)
(* of a split run are persisted.                                           *)
Return ==
  /\ Goto("return", "run")
  /\ persisting' = (persisting \/ hold)
  /\ UNCHANGED <<ringVars, disk, countVars, record, timeVars, final, sending,
                 replayVars, todo, attempt, back, flushVars>>
-----------------------------------------------------------------------------
Replay ==
  \/ ReplayBegin \/ ReplaySkip \/ ReplayStop \/ ReplayOversize \/ ReplayPost
  \/ \E r \in Answers : ReplayAnswer(r)
  \/ ReplayCheck \/ Rewrite

Drain ==
  \/ DrainBegin \/ Gate \/ LoopPop \/ LoopEnd \/ Held \/ TailDeadline \/ TailHold
  \/ SettlePersist \/ SettleDrop \/ SettleEnd \/ Finish \/ After \/ Park

SendRun ==
  \/ RunsDone \/ RunSplit \/ RunFails \/ RunPost \/ RunPersist
  \/ \E r \in Answers : Answer(r)
  \/ Retry \/ Backoff \/ GiveUp \/ Return

SenderThread == Replay \/ Drain \/ SendRun

Flush(f) == FlushBegin(f) \/ FlushReturn(f) \/ FlushTimeout(f)

Environment == Capture \/ HoldLapses \/ StopRequest \/ DeadlinePasses

(* ph_shutdown has joined the thread: nothing more happens.                *)
Terminated == pc = "done" /\ UNCHANGED vars

Next ==
  \/ SenderThread
  \/ Environment
  \/ \E f \in Flushers : Flush(f)
  \/ Terminated

Spec == Init /\ [][Next]_vars

(* The sender thread runs and every POST returns (the transport has a      *)
(* deadline); a backpressure window ends; and a flush that finds the       *)
(* sender idle again and again (it polls every 100 ms, an idle sender      *)
(* sleeps for the flush interval) sees it once.                            *)
Fairness ==
  /\ WF_vars(SenderThread)
  /\ WF_vars(HoldLapses)
  /\ \A f \in Flushers : SF_vars(FlushReturn(f))

FairSpec == Spec /\ Fairness
-----------------------------------------------------------------------------
Events == 1 .. MaxEvents

Places == {"wait", "final", "gate", "open", "line", "rpost", "rcheck", "rewrite",
           "loop", "held", "tail", "tailHold", "settle", "settleTail", "finish",
           "after", "park", "done", "run", "post", "retry", "backoff", "giveUp",
           "return"}

EventsTyped ==
  /\ offline \in Configs /\ accepted \in 0 .. MaxEvents
  /\ queue \in Seq(Events) /\ Len(queue) <= MaxQueue
  /\ overflowed \subseteq Events /\ vetoed \subseteq Events
  /\ sent \subseteq Events /\ failed \subseteq Events
  /\ disk \in Seq(SUBSET Events) /\ todo \in Seq(SUBSET Events)
  /\ lines \in Seq(SUBSET Events) /\ keep \in Seq(SUBSET Events)

ControlTyped ==
  /\ record \in BOOLEAN /\ hold \in BOOLEAN /\ stop \in BOOLEAN
  /\ expired \in BOOLEAN /\ final \in BOOLEAN /\ sending \in BOOLEAN
  /\ stopped \in BOOLEAN /\ persisting \in BOOLEAN
  /\ armedBy \in {"replay", "live"}
  /\ pc \in Places
  /\ attempt \in 0 .. MaxRetries
  /\ back \in {"held", "settle", "settleTail"}

FlushTyped ==
  /\ fpc \in [Flushers -> {"out", "waiting", "idle", "gone"}]
  /\ cycled \in [Flushers -> BOOLEAN]
  /\ target \in [Flushers -> Nat]
  /\ sawStart \in [Flushers -> BOOLEAN]

(* Every variable has its type: in particular the ring never exceeds its   *)
(* capacity and no POST is retried more than max_retries times.            *)
TypeOK == EventsTyped /\ ControlTyped /\ FlushTyped

Replaying == pc \in {"line", "rpost", "rcheck", "rewrite"}

(* The records that will still be on disk when the replay has rewritten    *)
(* the file.                                                               *)
Backlog == IF Replaying THEN keep \o lines ELSE disk

InHand == Union(todo)
Counted == sent \cup failed \cup vetoed \cup overflowed

(* No event is lost silently: each accepted event is in the ring, in the   *)
(* sender's hands, on disk, delivered, or in a counter that                *)
(* ph_dropped_events adds up.                                              *)
NoSilentLoss ==
  1 .. accepted \subseteq Range(queue) \cup InHand \cup Union(Backlog) \cup Counted

(* Without I/O faults no event is in two places, delivered twice or        *)
(* counted twice: splits, vetoes, retries, replays and settling hand every *)
(* event over exactly once.                                                *)
CountedOnce ==
  LET places == <<Range(queue), overflowed, sent, failed, vetoed>> \o Backlog \o todo
  IN \A i, j \in DOMAIN places : i # j => places[i] \cap places[j] = {}

(* The backlog keeps capture order: every record of the spill file is      *)
(* older than the next, all are older than the runs in hand, and those are *)
(* older than what the ring holds (splitting, spilling unsent siblings,    *)
(* keeping the rest of a replay and settling never reorder).               *)
BacklogInOrder ==
  LET b == Backlog \o todo \o [i \in DOMAIN queue |-> {queue[i]}]
  IN \A i, j \in DOMAIN b : i < j => \A d \in b[i], e \in b[j] : d < e

(* ph_flush keeps its promise: when it returns because the sender is idle, *)
(* no event captured before the call is in the ring or in the sender's     *)
(* hands, whichever drain it overlapped with.                              *)
FlushSettles ==
  \A f \in Flushers :
    fpc[f] = "idle" => \A e \in Range(queue) \cup InHand : e > target[f]

Posting == pc \in {"post", "rpost"}

(* A window opened by the answer to a live batch is honoured: until it     *)
(* ends no POST starts, neither for the siblings of a split batch nor for  *)
(* the next batch, the replay or the final drain.                          *)
LiveHoldHonoured == Posting /\ hold => armedBy = "replay"

(* "Under server backpressure (429/Retry-After) hold everything: no        *)
(* replay, no sends" (the comment in drain): no POST is made while a       *)
(* window is open, whichever POST opened it.                               *)
HoldHonoured == Posting => ~hold

(* "The sender removes the record only after delivery or durable offline   *)
(* spill" (ph_crash.h): the step that removes the crash record leaves the  *)
(* report delivered or in the spill file; when the report is evicted,      *)
(* rejected, too large or its spill fails, the record stays for the next   *)
(* start of the program.                                                   *)
CrashRecordKept ==
  [][~record' => CrashEvent \in sent' \cup Union(disk')]_record

(* "persists remaining batches when offline_path is set or counts them as  *)
(* dropped" (ph_shutdown): when the sender thread has ended, nothing is    *)
(* left in the ring that ph_shutdown frees.                                *)
ShutdownSettles == pc = "done" => queue = <<>> /\ todo = <<>>

(* "we wait for a *full* cycle to complete" (ph_flush): a drain that began *)
(* after the call has ended when the flush returns.                        *)
FlushFullCycle == \A f \in Flushers : fpc[f] = "idle" => sawStart[f]

(* "replay any spilled batches first (preserving order across a            *)
(* reconnect)" (drain): events are delivered in capture order.             *)
DeliveryInOrder == [][\A e \in sent' \ sent : \A d \in sent : d < e]_sent

(* ph_shutdown returns: the sender thread ends after the stop request,     *)
(* whatever the server answers and even if a window never ends.            *)
ShutdownTerminates == stop ~> pc = "done"

(* A ph_flush that never times out returns once captures stop, whatever    *)
(* the server answers.                                                     *)
FlushReturns == \A f \in Flushers : fpc[f] = "waiting" ~> fpc[f] # "waiting"
=============================================================================
