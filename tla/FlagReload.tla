----------------------------- MODULE FlagReload -----------------------------
(***************************************************************************)
(* Feature flags of src/ph_flags.c: the cache, the contexts its values     *)
(* belong to, and the reload jobs and tickets.                             *)
(*                                                                         *)
(* A context is the identity and groups that flags are evaluated for; each *)
(* change starts the next one.  Host threads change it, and so does the    *)
(* sender when it scrubs a queued $identify or $groupidentify.  A reload   *)
(* is queued (refetch), taken by the sender (inflight), fetched and        *)
(* ingested without the lock being held in between.  Callers of            *)
(* ph_reload_feature_flags hold a ticket, the generation of the job that   *)
(* serves them, and watch its record in a small history.                   *)
(*                                                                         *)
(* Each action is one critical section of g_ph.lock, or one read made      *)
(* without it.                                                             *)
(***************************************************************************)
EXTENDS Naturals, FiniteSets

CONSTANTS Hosts,       \* threads that call ph_identify, ph_reset or ph_group
          Reloaders,   \* threads that call ph_reload_feature_flags, once each
          Readers,     \* threads that read flags
          Keys, Values,
          MaxFlags,    \* PH_MAX_FLAGS
          HistoryCap,  \* PH_FLAG_RELOAD_HISTORY_CAP
          MaxContext,  \* bound: number of the last context
          MaxTickets   \* bound: reloads asked for by callbacks end here

ASSUME FlagAssumption ==
  /\ IsFiniteSet(Keys)
  /\ MaxFlags \in Nat \ {0} /\ HistoryCap \in Nat \ {0}
  /\ MaxContext \in Nat \ {0} /\ MaxTickets \in Nat

VARIABLES context,   \* flags_context_gen
          cache,     \* the cached flags: value, context of its evaluation, and
                     \* called_sent
          lastId,    \* g_reload_request_id
          refetch,   \* the queued job, or NoJob
          inflight,  \* the job the sender has taken, or NoJob
          history,   \* flag_reload_history
          stop,      \* g_ph.stop
          running,   \* g_ph.sender_running
          spc,       \* control of the sender
          outcome,   \* what ph__flags_fetch returned
          hpc,       \* control of each host thread
          rpc, ticket, result, \* control and locals of each reload call
          exposing,  \* the exposure each reader is about to submit, or Nothing
          exposure,  \* the last $feature_flag_called submitted, or Nothing
          fetched,   \* context of the last request sent
          loaded     \* context of the last complete response ingested

jobVars == <<lastId, refetch, inflight, history>>
senderVars == <<stop, running, spc, outcome>>
reloadVars == <<rpc, ticket, result>>
readVars == <<exposing, exposure>>
dataVars == <<fetched, loaded>>
vars == <<context, cache, jobVars, senderVars, hpc, reloadVars, readVars, dataVars>>

NoJob == [gen |-> 0, ctx |-> 0]
NoRecord == [id |-> 0, ctx |-> 0, status |-> "unknown"]
Nothing == [key |-> "", from |-> 0, as |-> 0]
Statuses == {"unknown", "pending", "success", "failed", "superseded"}
Slots == 1 .. HistoryCap

Init ==
  /\ context = 1
  /\ cache = [k \in {} |-> 0]
  /\ lastId = 0
  /\ refetch = NoJob
  /\ inflight = NoJob
  /\ history = [i \in Slots |-> NoRecord]
  /\ stop = FALSE
  /\ running = TRUE
  /\ spc = "drain"
  /\ outcome = "unknown"
  /\ hpc = [h \in Hosts |-> "out"]
  /\ rpc = [r \in Reloaders |-> "out"]
  /\ ticket = [r \in Reloaders |-> 0]
  /\ result = [r \in Reloaders |-> "none"]
  /\ exposing = [t \in Readers |-> Nothing]
  /\ exposure = Nothing
  /\ fetched = 0
  /\ loaded = 0
-----------------------------------------------------------------------------
(* The helpers that run under the lock.                                    *)

(* mark_reload_locked: only a pending record changes.                      *)
Marked(h, gen, status) ==
  [i \in Slots |-> IF h[i].id = gen /\ h[i].status = "pending"
                   THEN [h[i] EXCEPT !.status = status]
                   ELSE h[i]]

(* mark_context_superseded_locked, and the loop of ph__flags_abort_pending *)
Superseded(h, ctx) ==
  [i \in Slots |-> IF h[i].status = "pending" /\ h[i].ctx # ctx
                   THEN [h[i] EXCEPT !.status = "superseded"]
                   ELSE h[i]]

Aborted(h) ==
  [i \in Slots |-> IF h[i].status = "pending"
                   THEN [h[i] EXCEPT !.status = "failed"]
                   ELSE h[i]]

(* alloc_reload_record_locked: the record of gen, else an empty slot, else *)
(* the finished record with the smallest id; 0 if all are pending.         *)
Same(h, gen) == {i \in Slots : h[i].id = gen}
Free(h) == {i \in Slots : h[i].id = 0}
Finished(h) == {i \in Slots : h[i].status # "pending"}

SlotFor(h, gen) ==
  IF Same(h, gen) # {} THEN CHOOSE i \in Same(h, gen) : TRUE
  ELSE IF Free(h) # {} THEN CHOOSE i \in Free(h) : \A j \in Free(h) : i <= j
  ELSE IF Finished(h) # {}
  THEN CHOOSE i \in Finished(h) : \A j \in Finished(h) : h[i].id <= h[j].id
  ELSE 0

Allocated(h, gen, ctx) ==
  IF Same(h, gen) # {} \/ SlotFor(h, gen) = 0 THEN h
  ELSE [h EXCEPT ![SlotFor(h, gen)] = [id |-> gen, ctx |-> ctx, status |-> "pending"]]

(* Mutant: any job will do, also one for an older context.                 *)
ServesAny(job) == job # NoJob

(* schedule_reload_locked for the present context: attach to the job that  *)
(* serves it, or replace a stale queued job by a new one.                  *)
Serves(job) == job # NoJob /\ job.ctx = context

Generation ==
  IF Serves(inflight) THEN inflight.gen
  ELSE IF Serves(refetch) THEN refetch.gen
  ELSE lastId + 1

Scheduled ==
  IF Serves(inflight) \/ Serves(refetch) \/ refetch = NoJob THEN history
  ELSE Marked(history, refetch.gen, "superseded")

Schedule ==
  IF Serves(inflight) \/ Serves(refetch)
  THEN UNCHANGED <<lastId, refetch>>
  ELSE /\ lastId' = lastId + 1
       /\ refetch' = [gen |-> lastId + 1, ctx |-> context]

(* ph__flags_context_changed_locked.                                       *)
ContextChanged ==
  /\ context < MaxContext
  /\ context' = context + 1
  /\ cache' = [k \in {} |-> 0]
  /\ history' = Superseded(history, context + 1)
  /\ refetch' = IF refetch.ctx = context + 1 THEN refetch ELSE NoJob
  /\ UNCHANGED <<lastId, inflight>>

(* ph__flags_request_auto_refresh: a job without a ticket.                 *)
AutoRefresh ==
  /\ Schedule
  /\ history' = Scheduled
  /\ UNCHANGED inflight

(* ph__flags_reload_async under the lock: a job and its record.            *)
ReloadAsync ==
  /\ Schedule
  /\ history' = Allocated(Scheduled, Generation, context)
  /\ UNCHANGED inflight
-----------------------------------------------------------------------------
(* Host threads: ph_identify, ph_reset, ph_group.                          *)

HostChanges(h) ==
  /\ hpc[h] = "out" /\ ~stop
  /\ hpc' = [hpc EXCEPT ![h] = "refresh"]
  /\ ContextChanged
  /\ UNCHANGED <<senderVars, reloadVars, readVars, dataVars>>

HostRefreshes(h) ==
  /\ hpc[h] = "refresh"
  /\ hpc' = [hpc EXCEPT ![h] = "out"]
  /\ AutoRefresh
  /\ UNCHANGED <<context, cache, senderVars, reloadVars, readVars, dataVars>>
-----------------------------------------------------------------------------
(* ph_reload_feature_flags.                                                *)

Return(r, res) ==
  /\ rpc' = [rpc EXCEPT ![r] = "done"]
  /\ result' = [result EXCEPT ![r] = res]

(* The check of sender_running, without the lock.                          *)
ReloadCheck(r) ==
  /\ rpc[r] = "out"
  /\ IF running
     THEN rpc' = [rpc EXCEPT ![r] = "submit"] /\ UNCHANGED result
     ELSE Return(r, "disabled")
  /\ UNCHANGED <<context, cache, jobVars, senderVars, hpc, ticket, readVars, dataVars>>

ReloadSubmit(r) ==
  /\ rpc[r] = "submit"
  /\ ReloadAsync
  /\ IF SlotFor(Scheduled, Generation) = 0
     THEN Return(r, "full") /\ UNCHANGED ticket
     ELSE /\ rpc' = [rpc EXCEPT ![r] = "wait"]
          /\ ticket' = [ticket EXCEPT ![r] = Generation]
          /\ UNCHANGED result
  /\ UNCHANGED <<context, cache, senderVars, hpc, readVars, dataVars>>

(* The status of a ticket; unknown once its record was reused.             *)
Status(gen) ==
  IF Same(history, gen) = {} THEN "unknown"
  ELSE history[CHOOSE i \in Same(history, gen) : TRUE].status

(* The waiter looks again, after a broadcast or 100 ms: it starts over if  *)
(* its job was superseded and gives up if the sender is gone.              *)
ReloadLook(r) ==
  LET s == Status(ticket[r])
  IN /\ rpc[r] = "wait"
     /\ s # "pending" \/ ~running
     /\ IF s = "superseded"
        THEN rpc' = [rpc EXCEPT ![r] = "out"] /\ UNCHANGED result
        ELSE Return(r, IF s = "pending" THEN "failed" ELSE s)
     /\ UNCHANGED <<context, cache, jobVars, senderVars, hpc, ticket, readVars, dataVars>>
-----------------------------------------------------------------------------
(* The sender thread.                                                      *)

Goto(from, to) == spc = from /\ spc' = to

(* drain scrubs a queued $identify or $groupidentify of the present        *)
(* identity: sync_flag_context_from_control, then the refresh.             *)
SyncContext ==
  /\ spc \in {"drain", "final"}
  /\ spc' = IF spc = "drain" THEN "sync" ELSE "finalSync"
  /\ ContextChanged
  /\ UNCHANGED <<stop, running, outcome, hpc, reloadVars, readVars, dataVars>>

SyncRefresh ==
  /\ spc \in {"sync", "finalSync"}
  /\ spc' = IF spc = "sync" THEN "drain" ELSE "final"
  /\ AutoRefresh
  /\ UNCHANGED <<context, cache, stop, running, outcome, hpc, reloadVars, readVars, dataVars>>

(* A callback on the sender thread calls ph_reload_feature_flags, which    *)
(* does not wait.                                                          *)
CallbackReload ==
  /\ spc \in {"drain", "fetch", "final"}
  /\ running
  /\ lastId < MaxTickets
  /\ ReloadAsync
  /\ UNCHANGED <<context, cache, senderVars, hpc, reloadVars, readVars, dataVars>>

(* sender_main after a drain: no fetch once the stop request is seen.      *)
DrainEnds ==
  /\ Goto("drain", IF stop THEN "final" ELSE "take")
  /\ UNCHANGED <<context, cache, jobVars, stop, running, outcome, hpc, reloadVars,
                 readVars, dataVars>>

(* ph__flags_take_fetch.                                                   *)
TakeFetch ==
  /\ Goto("take", IF refetch # NoJob /\ inflight = NoJob THEN "begin" ELSE "drain")
  /\ IF refetch # NoJob /\ inflight = NoJob
     THEN inflight' = refetch /\ refetch' = NoJob
     ELSE UNCHANGED <<refetch, inflight>>
  /\ UNCHANGED <<context, cache, lastId, history, stop, running, outcome, hpc,
                 reloadVars, readVars, dataVars>>

(* ph__flags_fetch snapshots the identity, unless it has changed already.  *)
FetchBegin ==
  /\ spc = "begin"
  /\ IF inflight.ctx = context
     THEN spc' = "fetch" /\ fetched' = context /\ UNCHANGED outcome
     ELSE spc' = "complete" /\ outcome' = "superseded" /\ UNCHANGED fetched
  /\ UNCHANGED <<context, cache, jobVars, stop, running, hpc, reloadVars, readVars,
                 loaded>>

(* No memory, no transport, not a 2xx, not the JSON expected, or the quota *)
(* notice: failure_for_context.                                            *)
FetchFails ==
  /\ Goto("fetch", "complete")
  /\ outcome' = IF inflight.ctx = context THEN "failed" ELSE "superseded"
  /\ UNCHANGED <<context, cache, jobVars, stop, running, hpc, reloadVars, readVars,
                 dataVars>>

(* Mutant: every refresh forgets the exposures.                            *)
CalledForgotten(k, v) == FALSE

(* flags_ingest_for_context under the lock, on a well-formed answer: resp  *)
(* maps some keys to values.  A complete answer replaces the cache; a      *)
(* partial one updates it as far as there is room.  An unchanged value     *)
(* keeps its called_sent.                                                  *)
Called(k, v) == k \in DOMAIN cache /\ cache[k].val = v /\ cache[k].called

Parsed(resp) ==
  [k \in DOMAIN resp |->
     [val |-> resp[k], ctx |-> inflight.ctx, called |-> Called(k, resp[k])]]

Updated(resp, added) ==
  [k \in DOMAIN cache \cup added |->
     IF k \in DOMAIN resp THEN Parsed(resp)[k] ELSE cache[k]]

(* The new keys of a partial answer that find room.                        *)
Fitting(resp) ==
  LET new == DOMAIN resp \ DOMAIN cache
      room == MaxFlags - Cardinality(DOMAIN cache)
  IN {added \in SUBSET new :
        \/ added = new /\ Cardinality(new) <= room
        \/ Cardinality(added) = room /\ Cardinality(new) > room}

(* Mutants: the context is not compared again, and a partial answer counts *)
(* as success.                                                             *)
FetchAnswersUnchecked(resp, partial) ==
  /\ Goto("fetch", "complete")
  /\ Cardinality(DOMAIN resp) <= MaxFlags
  /\ outcome' = IF partial THEN "failed" ELSE "success"
  /\ IF partial
     THEN \E added \in Fitting(resp) : cache' = Updated(resp, added)
     ELSE cache' = Parsed(resp)
  /\ loaded' = IF partial THEN loaded ELSE context
  /\ UNCHANGED <<context, jobVars, stop, running, hpc, reloadVars, readVars,
                 fetched>>

FetchAnswersLeniently(resp, partial) ==
  /\ Goto("fetch", "complete")
  /\ Cardinality(DOMAIN resp) <= MaxFlags
  /\ IF inflight.ctx # context
     THEN outcome' = "superseded" /\ UNCHANGED <<cache, loaded>>
     ELSE /\ outcome' = "success"
          /\ IF partial
             THEN \E added \in Fitting(resp) : cache' = Updated(resp, added)
             ELSE cache' = Parsed(resp)
          /\ loaded' = IF partial THEN loaded ELSE context
  /\ UNCHANGED <<context, jobVars, stop, running, hpc, reloadVars, readVars,
                 fetched>>

FetchAnswers(resp, partial) ==
  /\ Goto("fetch", "complete")
  /\ Cardinality(DOMAIN resp) <= MaxFlags
  /\ IF inflight.ctx # context
     THEN outcome' = "superseded" /\ UNCHANGED <<cache, loaded>>
     ELSE /\ outcome' = IF partial THEN "failed" ELSE "success"
          /\ IF partial
             THEN \E added \in Fitting(resp) : cache' = Updated(resp, added)
             ELSE cache' = Parsed(resp)
          /\ loaded' = IF partial THEN loaded ELSE context
  /\ UNCHANGED <<context, jobVars, stop, running, hpc, reloadVars, readVars,
                 fetched>>

(* Mutant: the outcome is not recorded.                                    *)
CompleteFetchSilently ==
  /\ Goto("complete", "drain")
  /\ inflight' = NoJob
  /\ UNCHANGED <<context, cache, lastId, refetch, history, stop, running, outcome,
                 hpc, reloadVars, readVars, dataVars>>

(* ph__flags_complete_fetch.                                               *)
CompleteFetch ==
  /\ Goto("complete", "drain")
  /\ inflight' = NoJob
  /\ history' = Marked(history, inflight.gen, outcome)
  /\ UNCHANGED <<context, cache, lastId, refetch, stop, running, outcome, hpc,
                 reloadVars, readVars, dataVars>>

(* The final drain ends, and with it the thread.                           *)
FinalEnds ==
  /\ Goto("final", "done")
  /\ UNCHANGED <<context, cache, jobVars, stop, running, outcome, hpc, reloadVars,
                 readVars, dataVars>>
-----------------------------------------------------------------------------
(* ph__sender_stop_and_join.                                               *)

StopRequest ==
  /\ ~stop
  /\ stop' = TRUE
  /\ UNCHANGED <<context, cache, jobVars, running, spc, outcome, hpc, reloadVars,
                 readVars, dataVars>>

Join ==
  /\ spc = "done" /\ running
  /\ running' = FALSE
  /\ UNCHANGED <<context, cache, jobVars, stop, spc, outcome, hpc, reloadVars,
                 readVars, dataVars>>

(* ph__flags_abort_pending.                                                *)
AbortPending ==
  /\ ~running
  /\ Goto("done", "aborted")
  /\ history' = Aborted(history)
  /\ refetch' = NoJob
  /\ inflight' = NoJob
  /\ UNCHANGED <<context, cache, lastId, stop, running, outcome, hpc, reloadVars,
                 readVars, dataVars>>
-----------------------------------------------------------------------------
(* Reading a flag: resolve under the lock, then emit_ff_called.            *)

Resolve(t, k) ==
  /\ exposing[t] = Nothing
  /\ k \in DOMAIN cache /\ ~cache[k].called
  /\ cache' = [cache EXCEPT ![k].called = TRUE]
  /\ exposing' = [exposing EXCEPT
       ![t] = [key |-> k, from |-> cache[k].ctx, as |-> 0]]
  /\ UNCHANGED <<context, jobVars, senderVars, hpc, reloadVars, exposure, dataVars>>

(* ph__submit_event stamps the identity of the moment.                     *)
EmitCalled(t) ==
  /\ exposing[t] # Nothing
  /\ exposure' = [exposing[t] EXCEPT !.as = context]
  /\ exposing' = [exposing EXCEPT ![t] = Nothing]
  /\ UNCHANGED <<context, cache, jobVars, senderVars, hpc, reloadVars, dataVars>>
-----------------------------------------------------------------------------
Answers == UNION {[ks -> Values] : ks \in SUBSET Keys}

Sender ==
  \/ SyncContext \/ SyncRefresh \/ DrainEnds \/ TakeFetch \/ FetchBegin \/ FetchFails
  \/ \E resp \in Answers, partial \in BOOLEAN : FetchAnswers(resp, partial)
  \/ CompleteFetch \/ FinalEnds

Reloader(r) == ReloadCheck(r) \/ ReloadSubmit(r) \/ ReloadLook(r)

Shutdown == Join \/ AbortPending

(* Everything has ended.                                                   *)
Terminated ==
  /\ spc = "aborted"
  /\ \A h \in Hosts : hpc[h] = "out"
  /\ \A r \in Reloaders : rpc[r] = "done"
  /\ UNCHANGED vars

Next ==
  \/ Sender \/ CallbackReload
  \/ StopRequest \/ Shutdown
  \/ \E h \in Hosts : HostChanges(h) \/ HostRefreshes(h)
  \/ \E r \in Reloaders : Reloader(r)
  \/ \E t \in Readers : EmitCalled(t) \/ \E k \in Keys : Resolve(t, k)
  \/ Terminated

Spec == Init /\ [][Next]_vars

(* The sender thread runs (a fetch has a timeout), a call that has begun   *)
(* goes on, a waiter looks every 100 ms, and a shutdown completes.         *)
Fairness ==
  /\ WF_vars(Sender)
  /\ WF_vars(Shutdown)
  /\ \A h \in Hosts : WF_vars(HostRefreshes(h))
  /\ \A r \in Reloaders : WF_vars(Reloader(r))

FairSpec == Spec /\ Fairness
-----------------------------------------------------------------------------
(* Every variable has its type: jobs, records and tickets name only ids    *)
(* that were issued and contexts that existed.                             *)
TypeOK ==
  /\ context \in 1 .. MaxContext
  /\ DOMAIN cache \subseteq Keys
  /\ \A k \in DOMAIN cache :
       cache[k] \in [val : Values, ctx : 0 .. context, called : BOOLEAN]
  /\ lastId \in Nat
  /\ refetch \in [gen : 0 .. lastId, ctx : 0 .. context]
  /\ inflight \in [gen : 0 .. lastId, ctx : 0 .. context]
  /\ history \in [Slots -> [id : 0 .. lastId, ctx : 0 .. context, status : Statuses]]
  /\ stop \in BOOLEAN /\ running \in BOOLEAN
  /\ spc \in {"drain", "sync", "take", "begin", "fetch", "complete", "final",
              "finalSync", "done", "aborted"}
  /\ outcome \in Statuses
  /\ hpc \in [Hosts -> {"out", "refresh"}]
  /\ rpc \in [Reloaders -> {"out", "submit", "wait", "done"}]
  /\ ticket \in [Reloaders -> 0 .. lastId]
  /\ result \in [Reloaders -> Statuses \cup {"none", "disabled", "full"}]
  /\ fetched \in 0 .. context /\ loaded \in 0 .. context

(* "A slower, older request must never overwrite a newer user's cache"     *)
(* (flags_ingest_for_context): every cached value was evaluated for the    *)
(* present context, and the cache never exceeds its capacity.              *)
CacheIsCurrent ==
  /\ \A k \in DOMAIN cache : cache[k].ctx = context
  /\ Cardinality(DOMAIN cache) <= MaxFlags

(* No ticket is orphaned or shared: a pending record is for the present    *)
(* context and its job is queued or in flight, no two records have the     *)
(* same id, and no caller is refused for want of a slot (the PH_ERR_FULL   *)
(* of ph__flags_reload_async).                                             *)
TicketsAreServed ==
  /\ \A i \in Slots :
       history[i].status = "pending" =>
         /\ history[i].ctx = context
         /\ history[i].id \in {refetch.gen, inflight.gen}
  /\ \A i, j \in Slots :
       history[i].id = history[j].id /\ history[i].id # 0 => i = j
  /\ \A r \in Reloaders : result[r] # "full"

(* A ticket reports success only when the answer is there: while its       *)
(* context is the present one, a complete answer for it was ingested       *)
(* (flags_ingest_for_context and ph__flags_complete_fetch take the lock    *)
(* separately).                                                            *)
SuccessIsFresh ==
  \A i \in Slots :
    history[i].status = "success" /\ history[i].ctx = context => loaded = context

(* A ticket that has reported its outcome never reports another one, until *)
(* its slot is reused (mark_reload_locked, mark_context_superseded_locked, *)
(* ph__flags_abort_pending).                                               *)
OutcomeSticks ==
  [][\A i \in Slots :
       history'[i].id = history[i].id /\ history[i].status # "pending" =>
         history'[i] = history[i]]_vars

(* An exposure is reported once per value: a refresh that leaves a flag's  *)
(* value alone leaves its called_sent latch alone.                         *)
ExposedOnce ==
  [][\A k \in DOMAIN cache \cap DOMAIN cache' :
       cache[k].called /\ cache[k].val = cache'[k].val => cache'[k].called]_vars

(* "A flag value is meaningful only for the exact identity + group context *)
(* that produced it" (ph_flags.c): an exposure is stamped with the         *)
(* identity its value was evaluated for.                                   *)
ExposureAttributed == exposure.from = exposure.as

(* "blocks until the current context succeeds or fails, retrying           *)
(* transparently if an in-flight request is superseded" (posthog.h): the   *)
(* call never returns without an outcome.                                  *)
ReloadHasOutcome == \A r \in Reloaders : result[r] # "unknown"

(* A blocking reload returns, also when the sender stops meanwhile, once   *)
(* contexts stop changing.                                                 *)
ReloadReturns == \A r \in Reloaders : rpc[r] # "out" ~> rpc[r] = "done"

(* A change of identity is followed by a refresh for the new context: no   *)
(* interleaving of hosts, sender and reloads loses it.                     *)
EveryContextIsFetched ==
  \A c \in 2 .. MaxContext :
    context = c ~> fetched = c \/ context # c \/ stop
=============================================================================
