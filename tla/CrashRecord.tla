---------------------------- MODULE CrashRecord -----------------------------
(***************************************************************************)
(* The crash record of src/ph_crash.c across runs of the program: the      *)
(* POSIX fault handler that writes and publishes it, and the replay, the   *)
(* hand-off and the installation of the handler in normal context.         *)
(*                                                                         *)
(* A record is the number of the crash it describes: ph_crash_encode and   *)
(* ph_crash_decode are inverse on a whole record, and what a cut-short     *)
(* write leaves (Torn) does not decode.  Files are what the names point    *)
(* to, since publication is a hard link: path and tmp are inodes, data is  *)
(* what each inode holds.                                                  *)
(*                                                                         *)
(* One thread is in the handler at a time.  A second fault, in the handler *)
(* or in another thread, ends the process: its signal is back to the       *)
(* default action, or the handler finds g_in_handler set and exits.        *)
(***************************************************************************)
EXTENDS Naturals

CONSTANTS MaxFaults,        \* bound: crashes in all runs together
          UnlinkSkipped     \* the unlink after a link may not happen: the
                            \* run is killed before it, or the call fails

ASSUME CrashAssumption == MaxFaults \in Nat /\ UnlinkSkipped \in BOOLEAN

Torn == 0
NoFile == 0
NoReport == 0
Inodes == {1, 2}

VARIABLES path,      \* inode of ph-crash.bin, or NoFile
          tmp,       \* inode of ph-crash.bin.tmp, or NoFile
          data,      \* what the inodes hold
          run,       \* the program: "down", "off" (SDK not started),
                     \* "replayed", "on", "stopping"
          inHandler, \* g_in_handler
          hpc,       \* control of the handler
          faults,    \* crashes so far; the last one is in hand
          queued     \* report the sender holds as a marked event

fileVars == <<path, tmp, data>>
recordVars == <<fileVars, run, inHandler, hpc, faults, queued>>

RecordInit ==
  /\ path = NoFile
  /\ tmp = NoFile
  /\ data = [i \in Inodes |-> Torn]
  /\ run = "down"
  /\ inHandler = FALSE
  /\ hpc = "idle"
  /\ faults = 0
  /\ queued = NoReport

Start ==
  /\ run = "down"
  /\ run' = "off"
  /\ UNCHANGED <<fileVars, inHandler, hpc, faults, queued>>

(* ph_signal_crash_replay, called by ph_init before the handler is armed.  *)
(* A record that does not decode, or that before_send refuses, is removed. *)
(* Wherever the code removes the record it ignores a failure to do so.     *)
ReplayNothing ==
  /\ run = "off" /\ hpc = "idle"
  /\ path = NoFile
  /\ run' = "replayed"
  /\ UNCHANGED <<fileVars, inHandler, hpc, faults, queued>>

ReplayDiscards ==
  /\ run = "off" /\ hpc = "idle"
  /\ path # NoFile
  /\ path' \in {NoFile, path}
  /\ run' = "replayed"
  /\ UNCHANGED <<tmp, data, inHandler, hpc, faults, queued>>

ReplayQueues ==
  /\ run = "off" /\ hpc = "idle"
  /\ path # NoFile
  /\ data[path] # Torn
  /\ queued' = data[path]
  /\ run' = "replayed"
  /\ UNCHANGED <<fileVars, inHandler, hpc, faults>>

Install ==
  /\ run = "replayed"
  /\ run' = "on"
  /\ UNCHANGED <<fileVars, inHandler, hpc, faults, queued>>

(* The sender delivered or spilled the marked event.                       *)
HandoffComplete ==
  /\ queued # NoReport
  /\ path' \in {NoFile, path}
  /\ queued' = NoReport
  /\ UNCHANGED <<tmp, data, run, inHandler, hpc, faults>>

(* The sender lost it: evicted from the ring, rejected, or not spilled.    *)
EventLost ==
  /\ queued # NoReport
  /\ queued' = NoReport
  /\ UNCHANGED <<fileVars, run, inHandler, hpc, faults>>

(* ph_shutdown restores the fault dispositions first, then the final drain *)
(* settles every event.                                                    *)
Uninstall ==
  /\ run = "on" /\ hpc = "idle"
  /\ run' = "stopping"
  /\ UNCHANGED <<fileVars, inHandler, hpc, faults, queued>>

Stopped ==
  /\ run = "stopping"
  /\ queued = NoReport
  /\ run' = "off"
  /\ UNCHANGED <<fileVars, inHandler, hpc, faults, queued>>

(* The process ends; what the files hold stays.                            *)
Ends ==
  /\ run' = "down"
  /\ inHandler' = FALSE
  /\ hpc' = "idle"
  /\ queued' = NoReport
  /\ UNCHANGED <<fileVars, faults>>

Killed ==
  /\ run # "down"
  /\ hpc = "unlink" /\ path = tmp => UnlinkSkipped
  /\ Ends

Fault ==
  /\ run = "on" /\ hpc = "idle"
  /\ ~inHandler
  /\ faults < MaxFaults
  /\ faults' = faults + 1
  /\ inHandler' = TRUE
  /\ hpc' = "open"
  /\ UNCHANGED <<fileVars, run, queued>>

(* A fault after a handler of the host survived the first one.             *)
FaultAgain ==
  /\ run = "on" /\ hpc = "idle"
  /\ inHandler
  /\ Ends

HandlerFrame == UNCHANGED <<path, run, inHandler, faults, queued>>

(* open with O_TRUNC: an inode tmp already names is emptied in place.      *)
Open ==
  /\ hpc = "open"
  /\ \E i \in Inodes :
       /\ IF tmp # NoFile THEN i = tmp ELSE i # path
       /\ tmp' = i
       /\ data' = [data EXCEPT ![i] = Torn]
  /\ hpc' = "write"
  /\ HandlerFrame

OpenFails ==
  /\ hpc = "open"
  /\ hpc' = "raise"
  /\ UNCHANGED <<tmp, data>>
  /\ HandlerFrame

WriteRecord ==
  /\ hpc = "write"
  /\ data' = [data EXCEPT ![tmp] = faults]
  /\ hpc' = "sync"
  /\ UNCHANGED tmp
  /\ HandlerFrame

WriteRecordFails ==
  /\ hpc = "write"
  /\ hpc' = "raise"
  /\ UNCHANGED <<tmp, data>>
  /\ HandlerFrame

Sync ==
  /\ hpc = "sync"
  /\ hpc' \in {"link", "raise"}
  /\ UNCHANGED <<tmp, data>>
  /\ HandlerFrame

LinkReplaces ==
  /\ hpc = "link"
  /\ path' = tmp
  /\ hpc' = "unlink"
  /\ UNCHANGED <<tmp, data, run, inHandler, faults, queued>>

(* link refuses to replace an existing ph-crash.bin, and may fail anyway.  *)
Link ==
  /\ hpc = "link"
  /\ \/ path = NoFile /\ path' = tmp
     \/ UNCHANGED path
  /\ hpc' = "unlink"
  /\ UNCHANGED <<tmp, data, run, inHandler, faults, queued>>

Unlink ==
  /\ hpc = "unlink"
  /\ \/ tmp' = NoFile
     \/ (path = tmp => UnlinkSkipped) /\ tmp' = tmp
  /\ hpc' = "raise"
  /\ UNCHANGED data
  /\ HandlerFrame

(* raise under the previous disposition: the process ends, or a handler of *)
(* the host survives the fault.                                            *)
Raise ==
  /\ hpc = "raise"
  /\ \/ Ends
     \/ /\ hpc' = "idle"
        /\ UNCHANGED <<tmp, data>>
        /\ HandlerFrame

Replay == ReplayNothing \/ ReplayDiscards \/ ReplayQueues

Handler ==
  \/ Fault \/ FaultAgain \/ Open \/ OpenFails \/ WriteRecord \/ WriteRecordFails
  \/ Sync \/ Link \/ Unlink \/ Raise

RecordNext ==
  \/ Start \/ Replay \/ Install \/ HandoffComplete \/ EventLost
  \/ Uninstall \/ Stopped \/ Killed
  \/ Handler

RecordSpec == RecordInit /\ [][RecordNext]_recordVars
-----------------------------------------------------------------------------
(* Every variable has its type; the sender holds a report only while the   *)
(* SDK runs (ph_shutdown joins it), and a fault is in hand only while the  *)
(* handler is armed and marked busy.                                       *)
RecordTypeOK ==
  /\ path \in Inodes \cup {NoFile}
  /\ tmp \in Inodes \cup {NoFile}
  /\ data \in [Inodes -> 0 .. faults]
  /\ run \in {"down", "off", "replayed", "on", "stopping"}
  /\ inHandler \in BOOLEAN
  /\ hpc \in {"idle", "open", "write", "sync", "link", "unlink", "raise"}
  /\ faults \in 0 .. MaxFaults
  /\ queued \in 0 .. faults
  /\ queued # NoReport => run \in {"replayed", "on", "stopping"}
  /\ hpc # "idle" => run = "on" /\ inHandler

Report == IF path = NoFile THEN NoReport ELSE data[path]

Box == INSTANCE ReportBox
         WITH Reports <- 1 .. MaxFaults, None <- NoReport,
              box <- Report, taken <- queued

(* Through every crash, restart, failed write, veto and lost event the     *)
(* record file is the box of ReportBox: a report enters only an empty box, *)
(* and leaves it only refused, or handed off by the run that offered it.   *)
RefinesReportBox == Box!Spec

(* Whatever step of the handler the process dies in, ph-crash.bin is the   *)
(* whole record of one crash: replay never discards a report as corrupt.   *)
PublishedIsWhole == path # NoFile => data[path] # Torn

(* "A second crash must not erase the first report before its durable      *)
(* handoff" (posix_handler): a published report stays what it is until the *)
(* file is removed.                                                        *)
FirstReportKept ==
  [][Report # NoReport => Report' = Report \/ path' = NoFile]_recordVars
=============================================================================
