-------------------------- MODULE FlagReloadProofs --------------------------
(***************************************************************************)
(* Proofs about FlagReload: the cache holds values of the present context  *)
(* only, every pending ticket has a job, and success means fresh values.   *)
(***************************************************************************)
EXTENDS FlagReload, FiniteSetTheorems, WellFoundedInduction, TLAPS

(* At most one job serves the present context, and a queued job always     *)
(* does.                                                                   *)
JobsOK ==
  /\ refetch # NoJob => refetch.ctx = context /\ refetch.gen # 0
  /\ inflight # NoJob => inflight.gen # 0 /\ inflight.gen # refetch.gen
  /\ inflight.ctx = context => refetch = NoJob

(* A job is in flight exactly between ph__flags_take_fetch and             *)
(* ph__flags_complete_fetch.                                               *)
PhaseOK == spc \in {"begin", "fetch", "complete"} <=> inflight # NoJob

(* The records: ids are unique, and a pending one waits for the job that   *)
(* serves the present context.                                             *)
RecordsOK ==
  /\ \A i \in Slots :
       history[i].status = "pending" =>
         /\ history[i].ctx = context
         /\ history[i].id # 0
         /\ \/ refetch # NoJob /\ history[i].id = refetch.gen
            \/ inflight.ctx = context /\ history[i].id = inflight.gen
  /\ \A i, j \in Slots :
       history[i].id = history[j].id /\ history[i].id # 0 => i = j

(* What the fetch in progress has found out.                               *)
OutcomeOK ==
  /\ outcome # "pending"
  /\ spc = "complete" /\ outcome = "success" /\ inflight.ctx = context =>
       loaded = context

NeverFull == \A r \in Reloaders : result[r] # "full"

IInv ==
  /\ TypeOK /\ JobsOK /\ PhaseOK /\ RecordsOK /\ OutcomeOK /\ NeverFull
  /\ SuccessIsFresh /\ CacheIsCurrent
-----------------------------------------------------------------------------
Records(l, c) == [id : 0 .. l, ctx : 0 .. c, status : Statuses]

(* mark_reload_locked changes the status of pending records only.          *)
LEMMA MarkedFacts ==
  ASSUME NEW l \in Nat, NEW c \in Nat, NEW h \in [Slots -> Records(l, c)],
         NEW gen, NEW s \in Statuses
  PROVE /\ Marked(h, gen, s) \in [Slots -> Records(l, c)]
        /\ \A i \in Slots :
             /\ Marked(h, gen, s)[i].id = h[i].id
             /\ Marked(h, gen, s)[i].ctx = h[i].ctx
             /\ Marked(h, gen, s)[i].status =
                  IF h[i].id = gen /\ h[i].status = "pending" THEN s ELSE h[i].status
BY DEF Marked, Records

LEMMA SupersededFacts ==
  ASSUME NEW l \in Nat, NEW c \in Nat, NEW h \in [Slots -> Records(l, c)], NEW d
  PROVE /\ Superseded(h, d) \in [Slots -> Records(l, c)]
        /\ \A i \in Slots :
             /\ Superseded(h, d)[i].id = h[i].id
             /\ Superseded(h, d)[i].ctx = h[i].ctx
             /\ Superseded(h, d)[i].status =
                  IF h[i].status = "pending" /\ h[i].ctx # d THEN "superseded"
                  ELSE h[i].status
BY DEF Superseded, Records, Statuses

LEMMA AbortedFacts ==
  ASSUME NEW l \in Nat, NEW c \in Nat, NEW h \in [Slots -> Records(l, c)]
  PROVE /\ Aborted(h) \in [Slots -> Records(l, c)]
        /\ \A i \in Slots :
             /\ Aborted(h)[i].id = h[i].id
             /\ Aborted(h)[i].ctx = h[i].ctx
             /\ Aborted(h)[i].status =
                  IF h[i].status = "pending" THEN "failed" ELSE h[i].status
BY DEF Aborted, Records, Statuses

(* A non-empty set of numbers has a least element, so the searches of      *)
(* alloc_reload_record_locked find a slot whenever there is one.           *)
LEMMA LeastElement ==
  ASSUME NEW T \in SUBSET Nat, T # {}
  PROVE  \E x \in T : \A y \in T : x <= y
<1>1. \E x \in T : \A y \in T : <<y, x>> \notin OpToRel(<, Nat)
  BY WFMin, NatLessThanWellFounded, Zenon
<1>2. \A x, y \in Nat : y < x => <<y, x>> \in OpToRel(<, Nat)
  BY Zenon DEF OpToRel
<1>3. PICK x \in T : \A y \in T : ~(y < x)
  BY <1>1, <1>2
<1> QED BY <1>3

LEMMA SlotForFacts ==
  ASSUME NEW l \in Nat, NEW c \in Nat, NEW h \in [Slots -> Records(l, c)], NEW gen
  PROVE  /\ Same(h, gen) # {} => SlotFor(h, gen) \in Same(h, gen)
         /\ Same(h, gen) = {} =>
              SlotFor(h, gen) \in Free(h) \cup Finished(h) \cup {0}
         /\ SlotFor(h, gen) = 0 => Same(h, gen) = {} /\ Finished(h) = {}
<1>1. Slots \subseteq Nat /\ 0 \notin Slots
  BY FlagAssumption DEF Slots
<1>2. \A i \in Slots : h[i].id \in Nat
  BY DEF Records
<1>3. CASE Same(h, gen) # {}
  BY <1>3, <1>1 DEF SlotFor, Same
<1>4. CASE Same(h, gen) = {} /\ Free(h) # {}
  <2>1. Free(h) \in SUBSET Nat /\ 0 \notin Free(h)
    BY <1>1 DEF Free
  <2>2. \E i \in Free(h) : \A j \in Free(h) : i <= j
    BY <1>4, <2>1, LeastElement
  <2> QED BY <1>4, <2>1, <2>2 DEF SlotFor
<1>5. CASE Same(h, gen) = {} /\ Free(h) = {} /\ Finished(h) # {}
  <2> DEFINE T == {h[i].id : i \in Finished(h)}
  <2>1. Finished(h) \subseteq Slots /\ 0 \notin Finished(h)
    BY <1>1 DEF Finished
  <2>2. T \in SUBSET Nat /\ T # {}
    BY <1>2, <1>5, <2>1
  <2>3. PICK x \in T : \A y \in T : x <= y
    <3> HIDE DEF T
    <3> QED BY <2>2, LeastElement
  <2>4. \E i \in Finished(h) : \A j \in Finished(h) : h[i].id <= h[j].id
    BY <2>3
  <2> QED BY <1>5, <2>1, <2>4 DEF SlotFor
<1>6. CASE Same(h, gen) = {} /\ Free(h) = {} /\ Finished(h) = {}
  BY <1>6 DEF SlotFor
<1> QED BY <1>3, <1>4, <1>5, <1>6
-----------------------------------------------------------------------------
(* What the critical sections leave behind.                                *)
TableType ==
  /\ lastId \in Nat
  /\ refetch \in [gen : 0 .. lastId, ctx : 0 .. context]
  /\ inflight \in [gen : 0 .. lastId, ctx : 0 .. context]
  /\ history \in [Slots -> Records(lastId, context)]

TableInv == TableType /\ JobsOK /\ RecordsOK /\ SuccessIsFresh

LEMMA TypeOKTable ==
  ASSUME TypeOK
  PROVE  /\ TableType /\ context \in Nat /\ context # 0
         /\ MaxContext \in Nat
BY FlagAssumption DEF TypeOK, TableType, Records

(* ph__flags_context_changed_locked leaves no pending ticket behind, and   *)
(* no queued job.                                                          *)
LEMMA ContextChangedInv ==
  ASSUME IInv, ContextChanged, UNCHANGED loaded
  PROVE  /\ TableInv' /\ refetch' = NoJob /\ inflight' = inflight
         /\ inflight.ctx # context'
         /\ context' \in 1 .. MaxContext /\ context' = context + 1
         /\ lastId' = lastId
         /\ cache' = [k \in {} |-> 0]
<1>1. /\ TableType /\ context \in Nat /\ context # 0
      /\ MaxContext \in Nat
  BY TypeOKTable DEF IInv
<1>2. /\ context' = context + 1 /\ context < MaxContext /\ lastId' = lastId
      /\ inflight' = inflight /\ cache' = [k \in {} |-> 0]
      /\ history' = Superseded(history, context + 1)
  BY DEF ContextChanged
<1>3. refetch' = NoJob /\ inflight.ctx # context + 1
  BY <1>1 DEF ContextChanged, IInv, JobsOK, NoJob, TableType
<1>4. history \in [Slots -> Records(lastId, context + 1)]
  BY <1>1 DEF TableType, Records
<1>5. /\ history' \in [Slots -> Records(lastId, context + 1)]
      /\ \A i \in Slots :
           /\ history'[i].id = history[i].id
           /\ history'[i].ctx = history[i].ctx
           /\ history'[i].status =
                IF history[i].status = "pending" /\ history[i].ctx # context + 1
                THEN "superseded" ELSE history[i].status
  <2>1. context + 1 \in Nat /\ lastId \in Nat
    BY <1>1 DEF TableType
  <2>2. ASSUME NEW d \in Nat, history \in [Slots -> Records(lastId, d)],
               history' = Superseded(history, d)
        PROVE  /\ history' \in [Slots -> Records(lastId, d)]
               /\ \A i \in Slots :
                    /\ history'[i].id = history[i].id
                    /\ history'[i].ctx = history[i].ctx
                    /\ history'[i].status =
                         IF history[i].status = "pending" /\ history[i].ctx # d
                         THEN "superseded" ELSE history[i].status
    BY <2>1, <2>2, SupersededFacts
  <2> QED BY <2>1, <2>2, <1>2, <1>4
<1>6. \A i \in Slots : history[i].ctx \in Nat /\ history[i].ctx <= context
  BY <1>1 DEF TableType, Records
<1>7. \A i \in Slots : history'[i].ctx # context' /\ history'[i].status # "pending"
  BY <1>1, <1>2, <1>5, <1>6
<1>8. RecordsOK' /\ SuccessIsFresh'
  BY <1>5, <1>7 DEF RecordsOK, SuccessIsFresh, IInv
<1>9. TableType' /\ JobsOK'
  BY <1>1, <1>2, <1>3, <1>5 DEF TableType, JobsOK, NoJob, IInv
<1> QED BY <1>1, <1>2, <1>3, <1>8, <1>9 DEF TableInv

(* schedule_reload_locked either attaches to the job that serves the       *)
(* present context or, when nothing is queued and nobody waits, queues the *)
(* next one.                                                               *)
LEMMA ScheduleFacts ==
  ASSUME IInv, Schedule, inflight' = inflight, context' = context
  PROVE  /\ Scheduled = history
         /\ lastId' \in Nat /\ lastId <= lastId' /\ lastId \in Nat
         /\ Generation \in 1 .. lastId'
         /\ refetch' \in [gen : 0 .. lastId', ctx : 0 .. context]
         /\ JobsOK'
         /\ \/ refetch' # NoJob /\ Generation = refetch'.gen
            \/ inflight.ctx = context /\ Generation = inflight.gen
         /\ \/ lastId' = lastId /\ refetch' = refetch
            \/ /\ lastId' = lastId + 1 /\ Generation = lastId + 1
               /\ \A i \in Slots : history[i].status # "pending"
<1>1. TableType /\ context \in Nat /\ context # 0
  BY TypeOKTable DEF IInv
<1>2. JobsOK /\ RecordsOK
  BY DEF IInv
<1>3. NoJob.ctx = 0 /\ NoJob.gen = 0
  BY DEF NoJob
<1>4. CASE Serves(inflight) \/ Serves(refetch)
  <2>1. lastId' = lastId /\ refetch' = refetch /\ Scheduled = history
    BY <1>4 DEF Schedule, Scheduled
  <2>2. \/ Serves(inflight) /\ Generation = inflight.gen
        \/ Serves(refetch) /\ Generation = refetch.gen
    BY <1>4 DEF Generation
  <2>3. /\ Generation \in 1 .. lastId
        /\ \/ refetch # NoJob /\ Generation = refetch.gen
           \/ inflight.ctx = context /\ Generation = inflight.gen
    BY <2>2, <1>1, <1>2 DEF Serves, JobsOK, TableType
  <2>4. JobsOK'
    BY <2>1, <1>2 DEF JobsOK
  <2> QED BY <1>1, <2>1, <2>3, <2>4 DEF TableType
<1>5. CASE ~(Serves(inflight) \/ Serves(refetch))
  <2>1. refetch = NoJob /\ inflight.ctx # context
    BY <1>5, <1>1, <1>2, <1>3 DEF Serves, JobsOK
  <2>2. /\ lastId' = lastId + 1 /\ refetch' = [gen |-> lastId + 1, ctx |-> context]
        /\ Generation = lastId + 1 /\ Scheduled = history
    BY <1>5, <2>1 DEF Schedule, Generation, Scheduled
  <2>3. \A i \in Slots : history[i].status # "pending"
    BY <1>2, <2>1 DEF RecordsOK
  <2>4. refetch' # NoJob /\ refetch'.gen = lastId + 1 /\ refetch'.ctx = context
    BY <1>1, <1>3, <2>2
  <2>5. JobsOK'
    BY <1>1, <1>2, <2>1, <2>4 DEF JobsOK, TableType
  <2> QED BY <1>1, <2>2, <2>3, <2>4, <2>5 DEF TableType
<1> QED BY <1>4, <1>5

LEMMA AutoRefreshInv ==
  ASSUME IInv, AutoRefresh, UNCHANGED <<context, loaded>>
  PROVE  TableInv' /\ inflight' = inflight /\ lastId' \in Nat /\ lastId <= lastId'
<1>1. TableType /\ RecordsOK /\ SuccessIsFresh /\ context \in Nat
  BY TypeOKTable DEF IInv
<1>2. Schedule /\ inflight' = inflight /\ history' = Scheduled
  BY DEF AutoRefresh
<1>3. history' = history /\ JobsOK' /\ lastId' \in Nat /\ lastId <= lastId'
  BY <1>2, ScheduleFacts
<1>4. TableType'
  BY <1>1, <1>2, <1>3, ScheduleFacts DEF TableType, Records
<1>5. RecordsOK' /\ SuccessIsFresh'
  BY <1>1, <1>2, <1>3, ScheduleFacts DEF RecordsOK, SuccessIsFresh
<1> QED BY <1>2, <1>3, <1>4, <1>5 DEF TableInv

(* ph__flags_reload_async always finds a slot, and its ticket is the       *)
(* generation of the job that serves the present context.                  *)
LEMMA ReloadAsyncInv ==
  ASSUME IInv, ReloadAsync, UNCHANGED <<context, loaded>>
  PROVE  /\ TableInv' /\ inflight' = inflight /\ lastId' \in Nat /\ lastId <= lastId'
         /\ SlotFor(Scheduled, Generation) # 0
         /\ Generation \in 0 .. lastId'
<1>1. TableType /\ RecordsOK /\ SuccessIsFresh /\ JobsOK /\ context \in Nat
  BY TypeOKTable DEF IInv
<1>2. /\ Schedule /\ inflight' = inflight
      /\ history' = Allocated(Scheduled, Generation, context)
  BY DEF ReloadAsync
<1>3. /\ Scheduled = history /\ JobsOK' /\ lastId' \in Nat /\ lastId <= lastId'
      /\ lastId \in Nat /\ Generation \in 1 .. lastId'
  BY <1>2, ScheduleFacts
<1> DEFINE g == Generation
           n == SlotFor(history, g)
<1>4. /\ Same(history, g) # {} => n \in Same(history, g)
      /\ Same(history, g) = {} => n \in Free(history) \cup Finished(history) \cup {0}
      /\ n = 0 => Same(history, g) = {} /\ Finished(history) = {}
  <2>1. history \in [Slots -> Records(lastId, context)] /\ lastId \in Nat
    BY <1>1 DEF TableType
  <2> HIDE DEF g
  <2> QED BY <1>1, <2>1, SlotForFacts
<1>5. n # 0
  <2> SUFFICES ASSUME n = 0 PROVE FALSE
    OBVIOUS
  <2>1. \A i \in Slots : history[i].status = "pending" /\ history[i].id # g
    BY <1>4 DEF Same, Finished
  <2>2. 1 \in Slots
    BY FlagAssumption DEF Slots
  <2>3. lastId' = lastId /\ refetch' = refetch
    BY <1>2, <2>1, <2>2, ScheduleFacts
  <2>4. \/ refetch # NoJob /\ g = refetch.gen
        \/ inflight.ctx = context /\ g = inflight.gen
    BY <1>2, <2>3, ScheduleFacts
  <2>5. \/ refetch # NoJob /\ history[1].id = refetch.gen
        \/ inflight.ctx = context /\ history[1].id = inflight.gen
    BY <1>1, <2>1, <2>2 DEF RecordsOK
  <2> QED BY <1>1, <2>1, <2>2, <2>4, <2>5 DEF JobsOK
<1>6. \/ history' = history
      \/ /\ n \in Slots /\ Same(history, g) = {}
         /\ history' = [history EXCEPT ![n] = [id |-> g, ctx |-> context,
                                               status |-> "pending"]]
  BY <1>2, <1>3, <1>4, <1>5 DEF Allocated, Same, Free, Finished
<1>7. CASE history' = history
  <2>1. TableType'
    BY <1>1, <1>2, <1>3, <1>7, ScheduleFacts DEF TableType, Records
  <2>2. RecordsOK' /\ SuccessIsFresh'
    BY <1>1, <1>2, <1>7, ScheduleFacts DEF RecordsOK, SuccessIsFresh
  <2> QED BY <1>2, <1>3, <1>5, <2>1, <2>2 DEF TableInv
<1>8. CASE /\ n \in Slots /\ Same(history, g) = {}
           /\ history' = [history EXCEPT ![n] = [id |-> g, ctx |-> context,
                                                 status |-> "pending"]]
  <2>1. /\ history'[n] = [id |-> g, ctx |-> context, status |-> "pending"]
        /\ \A i \in Slots \ {n} : history'[i] = history[i]
        /\ \A i \in Slots : history[i].id # g
    BY <1>1, <1>8 DEF TableType, Same
  <2>2. /\ history'[n].id = g /\ history'[n].ctx = context
        /\ history'[n].status = "pending" /\ g # 0
    BY <2>1, <1>3
  <2>3. \/ refetch' # NoJob /\ g = refetch'.gen
        \/ inflight'.ctx = context /\ g = inflight'.gen
    BY <1>2, ScheduleFacts
  <2>4. TableType'
    <3>1. [id |-> g, ctx |-> context, status |-> "pending"] \in Records(lastId', context)
      BY <1>1, <1>3 DEF Records, Statuses
    <3>2. history \in [Slots -> Records(lastId', context)]
      BY <1>1, <1>3 DEF TableType, Records
    <3>3. history' \in [Slots -> Records(lastId', context)]
      BY <1>8, <3>1, <3>2
    <3> QED BY <1>1, <1>2, <1>3, <3>3, ScheduleFacts DEF TableType
  <2>5. RecordsOK' /\ SuccessIsFresh'
    <3>1. ASSUME NEW i \in Slots, i # n, history[i].status = "pending"
          PROVE  /\ history[i].ctx = context /\ history[i].id # 0
                 /\ \/ refetch' # NoJob /\ history[i].id = refetch'.gen
                    \/ inflight'.ctx = context /\ history[i].id = inflight'.gen
      BY <1>1, <1>2, <3>1, ScheduleFacts DEF RecordsOK
    <3> QED BY <1>1, <1>3, <2>1, <2>2, <2>3, <3>1 DEF RecordsOK, SuccessIsFresh
  <2> QED BY <1>2, <1>3, <1>5, <2>4, <2>5 DEF TableInv
<1> QED BY <1>6, <1>7, <1>8
-----------------------------------------------------------------------------
(* The rest of the state, for the type invariant.                          *)
CacheType ==
  /\ DOMAIN cache \subseteq Keys
  /\ \A k \in DOMAIN cache :
       cache[k] \in [val : Values, ctx : 0 .. context, called : BOOLEAN]

ControlType ==
  /\ stop \in BOOLEAN /\ running \in BOOLEAN
  /\ spc \in {"drain", "sync", "take", "begin", "fetch", "complete", "final",
              "finalSync", "done", "aborted"}
  /\ outcome \in Statuses
  /\ hpc \in [Hosts -> {"out", "refresh"}]
  /\ rpc \in [Reloaders -> {"out", "submit", "wait", "done"}]
  /\ result \in [Reloaders -> Statuses \cup {"none", "disabled", "full"}]

TicketType == ticket \in [Reloaders -> 0 .. lastId]

DataType == context \in 1 .. MaxContext /\ fetched \in 0 .. context /\ loaded \in 0 .. context

LEMMA TypeParts ==
  TypeOK <=> TableType /\ CacheType /\ ControlType /\ TicketType /\ DataType
BY DEF TypeOK, TableType, CacheType, ControlType, TicketType, DataType, Records

(* A step that leaves the table alone keeps what holds of it.              *)
LEMMA TableUnchanged ==
  ASSUME IInv, UNCHANGED <<context, jobVars, loaded>>
  PROVE  TableInv'
BY TypeParts DEF IInv, TableInv, TableType, JobsOK, RecordsOK, SuccessIsFresh, jobVars

(* A step that changes the context empties the cache.                      *)
LEMMA EmptyCache ==
  ASSUME cache' = [k \in {} |-> 0]
  PROVE  CacheType' /\ CacheIsCurrent'
<1>1. DOMAIN cache' = {}
  OBVIOUS
<1>2. Cardinality({}) <= MaxFlags
  BY FS_EmptySet, FlagAssumption
<1> QED BY <1>1, <1>2 DEF CacheType, CacheIsCurrent

LEMMA CacheUnchanged ==
  ASSUME IInv, UNCHANGED <<context, cache>>
  PROVE  CacheType' /\ CacheIsCurrent'
BY TypeParts DEF IInv, CacheType, CacheIsCurrent

(* The data variables and the tickets, while lastId and context grow.      *)
LEMMA BoundsGrow ==
  ASSUME IInv, UNCHANGED <<fetched, loaded>>, context' \in 1 .. MaxContext,
         context <= context'
  PROVE  DataType'
BY TypeParts, FlagAssumption DEF IInv, DataType

LEMMA TicketsGrow ==
  ASSUME IInv, UNCHANGED ticket, lastId' \in Nat, lastId <= lastId'
  PROVE  TicketType'
BY TypeParts DEF IInv, TicketType, TableType

(* An answer of the server: a complete one replaces the cache, a partial   *)
(* one never overfills it.                                                 *)
LEMMA AnswerInv ==
  ASSUME IInv, NEW resp \in Answers, NEW partial \in BOOLEAN,
         FetchAnswers(resp, partial)
  PROVE  CacheType' /\ CacheIsCurrent'
<1>1. /\ CacheType /\ CacheIsCurrent /\ context \in Nat /\ TableType
      /\ MaxFlags \in Nat /\ IsFiniteSet(Keys)
  BY TypeParts, TypeOKTable, FlagAssumption DEF IInv
<1>2. DOMAIN resp \subseteq Keys /\ \A k \in DOMAIN resp : resp[k] \in Values
  BY DEF Answers
<1>3. context' = context /\ Cardinality(DOMAIN resp) <= MaxFlags
  BY DEF FetchAnswers
<1>4. CASE inflight.ctx # context
  BY <1>4, CacheUnchanged DEF FetchAnswers
<1>5. CASE inflight.ctx = context
  <2>1. /\ DOMAIN Parsed(resp) = DOMAIN resp
        /\ \A k \in DOMAIN resp :
             /\ Parsed(resp)[k] \in [val : Values, ctx : 0 .. context, called : BOOLEAN]
             /\ Parsed(resp)[k].ctx = context
    <3>1. \A k, v : Called(k, v) \in BOOLEAN
      BY <1>1 DEF Called, CacheType
    <3> QED BY <1>1, <1>2, <1>5, <3>1 DEF Parsed
  <2>2. CASE ~partial
    <3>1. cache' = Parsed(resp)
      BY <1>5, <2>2 DEF FetchAnswers
    <3> QED BY <1>2, <1>3, <2>1, <3>1 DEF CacheType, CacheIsCurrent
  <2>3. CASE partial
    <3>1. PICK added \in Fitting(resp) : cache' = Updated(resp, added)
      BY <1>5, <2>3 DEF FetchAnswers
    <3> DEFINE old == DOMAIN cache
               new == DOMAIN resp \ old
    <3>2. /\ added \subseteq new
          /\ \/ added = new /\ Cardinality(new) <= MaxFlags - Cardinality(old)
             \/ Cardinality(added) = MaxFlags - Cardinality(old)
      BY DEF Fitting
    <3>3. /\ IsFiniteSet(old) /\ IsFiniteSet(added)
          /\ Cardinality(old) \in Nat /\ Cardinality(added) \in Nat
      BY <1>1, <1>2, <3>2, FS_Subset, FS_CardinalityType DEF CacheType
    <3>4. Cardinality(old \cup added) <= MaxFlags
      <4>1. old \cap added = {} /\ Cardinality({}) = 0
        BY <3>2, FS_EmptySet
      <4> HIDE DEF old, new
      <4>2. Cardinality(old \cup added)
              = Cardinality(old) + Cardinality(added) - Cardinality(old \cap added)
        BY <3>3, FS_Union, Zenon
      <4>3. Cardinality(old \cap added) = 0
        BY <4>1
      <4>4. Cardinality(added) <= MaxFlags - Cardinality(old)
        BY <1>1, <3>2, <3>3
      <4> QED BY <1>1, <3>3, <4>2, <4>3, <4>4
    <3>5. /\ DOMAIN cache' = old \cup added
          /\ \A k \in old \cup added :
               cache'[k] = IF k \in DOMAIN resp THEN Parsed(resp)[k] ELSE cache[k]
      BY <3>1 DEF Updated
    <3>6. \A k \in old \cup added :
            /\ cache'[k] \in [val : Values, ctx : 0 .. context, called : BOOLEAN]
            /\ cache'[k].ctx = context
      BY <1>1, <2>1, <3>2, <3>5 DEF CacheType, CacheIsCurrent
    <3>7. old \cup added \subseteq Keys
      BY <1>1, <1>2, <3>2 DEF CacheType
    <3> QED BY <1>3, <3>4, <3>5, <3>6, <3>7 DEF CacheType, CacheIsCurrent
  <2> QED BY <2>2, <2>3
<1> QED BY <1>4, <1>5
-----------------------------------------------------------------------------
(* The invariant from its parts.                                           *)
LEMMA Assemble ==
  ASSUME TableInv', CacheType', CacheIsCurrent', ControlType', TicketType', DataType',
         PhaseOK', OutcomeOK', NeverFull'
  PROVE  IInv'
<1>1. TypeOK'
  BY DEF TypeOK, TableInv, TableType, CacheType, ControlType, TicketType, DataType, Records
<1> QED BY <1>1 DEF IInv, TableInv

LEMMA InitInv == Init => IInv
<1> SUFFICES ASSUME Init PROVE IInv
  OBVIOUS
<1>1. TypeOK
  <2>1. TableType
    BY DEF Init, TableType, Records, NoJob, NoRecord, Statuses
  <2>2. CacheType /\ DataType
    BY FlagAssumption DEF Init, CacheType, DataType
  <2>3. TicketType
    <3>1. 0 \in 0 .. lastId
      BY DEF Init
    <3> QED BY <3>1 DEF Init, TicketType
  <2>4. ControlType
    BY DEF Init, ControlType, Statuses
  <2> QED BY <2>1, <2>2, <2>3, <2>4, TypeParts
<1>2. JobsOK /\ PhaseOK /\ OutcomeOK /\ NeverFull
  BY DEF Init, JobsOK, PhaseOK, OutcomeOK, NeverFull, NoJob
<1>3. RecordsOK /\ SuccessIsFresh
  BY DEF Init, RecordsOK, SuccessIsFresh, NoRecord
<1>4. CacheIsCurrent
  <2>1. DOMAIN cache = {}
    BY DEF Init
  <2> QED BY <2>1, FS_EmptySet, FlagAssumption DEF CacheIsCurrent
<1> QED BY <1>1, <1>2, <1>3, <1>4 DEF IInv

(* The steps that change the context.                                      *)
LEMMA ContextStep ==
  ASSUME IInv, SyncContext \/ \E h \in Hosts : HostChanges(h)
  PROVE  IInv'
<1>1. ContextChanged /\ UNCHANGED <<reloadVars, dataVars, outcome, stop, running>>
  BY DEF SyncContext, HostChanges, senderVars
<1>2. /\ TableInv' /\ inflight' = inflight /\ context' \in 1 .. MaxContext
      /\ context' = context + 1 /\ lastId' = lastId /\ cache' = [k \in {} |-> 0]
      /\ inflight.ctx # context'
  BY <1>1, ContextChangedInv DEF dataVars
<1>3. context \in Nat /\ lastId \in Nat /\ ControlType /\ PhaseOK /\ OutcomeOK /\ NeverFull
  BY TypeOKTable, TypeParts DEF IInv, TableType
<1>4. CacheType' /\ CacheIsCurrent'
  BY <1>2, EmptyCache
<1>5. DataType' /\ TicketType'
  BY <1>1, <1>2, <1>3, BoundsGrow, TicketsGrow DEF dataVars, reloadVars
<1>6. ControlType' /\ NeverFull'
  BY <1>1, <1>3 DEF SyncContext, HostChanges, ControlType, NeverFull, senderVars, reloadVars
<1>7. PhaseOK' /\ OutcomeOK'
  BY <1>1, <1>2, <1>3 DEF SyncContext, HostChanges, PhaseOK, OutcomeOK, senderVars
<1> QED BY <1>2, <1>4, <1>5, <1>6, <1>7, Assemble

(* The steps that schedule a refresh without a ticket.                     *)
LEMMA RefreshStep ==
  ASSUME IInv, SyncRefresh \/ \E h \in Hosts : HostRefreshes(h)
  PROVE  IInv'
<1>1. /\ AutoRefresh
      /\ UNCHANGED <<context, cache, reloadVars, dataVars, outcome, stop, running>>
  BY DEF SyncRefresh, HostRefreshes, senderVars
<1>2. TableInv' /\ inflight' = inflight /\ lastId' \in Nat /\ lastId <= lastId'
  BY <1>1, AutoRefreshInv DEF dataVars
<1>3. /\ context \in Nat /\ ControlType /\ PhaseOK /\ OutcomeOK /\ NeverFull
      /\ context \in 1 .. MaxContext
  BY TypeOKTable, TypeParts DEF IInv, DataType
<1>4. CacheType' /\ CacheIsCurrent'
  BY <1>1, CacheUnchanged
<1>5. DataType' /\ TicketType'
  BY <1>1, <1>2, <1>3, BoundsGrow, TicketsGrow DEF dataVars, reloadVars
<1>6. ControlType' /\ NeverFull'
  BY <1>1, <1>3 DEF SyncRefresh, HostRefreshes, ControlType, NeverFull, senderVars, reloadVars
<1>7. PhaseOK' /\ OutcomeOK'
  BY <1>1, <1>2, <1>3 DEF SyncRefresh, HostRefreshes, PhaseOK, OutcomeOK, senderVars, dataVars
<1> QED BY <1>2, <1>4, <1>5, <1>6, <1>7, Assemble

(* The steps that hand out a ticket.                                       *)
LEMMA TicketStep ==
  ASSUME IInv, CallbackReload \/ \E r \in Reloaders : ReloadSubmit(r)
  PROVE  IInv'
<1>1. ReloadAsync /\ UNCHANGED <<context, cache, senderVars, hpc, dataVars>>
  BY DEF CallbackReload, ReloadSubmit
<1>2. /\ TableInv' /\ inflight' = inflight /\ lastId' \in Nat /\ lastId <= lastId'
      /\ SlotFor(Scheduled, Generation) # 0 /\ Generation \in 0 .. lastId'
  BY <1>1, ReloadAsyncInv DEF dataVars
<1>3. /\ context \in Nat /\ ControlType /\ TicketType /\ PhaseOK /\ OutcomeOK
      /\ context \in 1 .. MaxContext /\ lastId \in Nat /\ NeverFull
  BY TypeOKTable, TypeParts DEF IInv, DataType, TableType
<1>4. CacheType' /\ CacheIsCurrent' /\ DataType'
  BY <1>1, <1>3, CacheUnchanged, BoundsGrow DEF dataVars
<1>5. PhaseOK' /\ OutcomeOK'
  BY <1>1, <1>2, <1>3 DEF PhaseOK, OutcomeOK, senderVars, dataVars
<1>6. CASE CallbackReload
  <2>1. UNCHANGED <<reloadVars, senderVars, hpc>>
    BY <1>6 DEF CallbackReload
  <2>2. TicketType' /\ ControlType' /\ NeverFull'
    BY <1>2, <1>3, <2>1, TicketsGrow DEF ControlType, NeverFull, reloadVars, senderVars
  <2> QED BY <1>2, <1>4, <1>5, <2>2, Assemble
<1>7. CASE \E r \in Reloaders : ReloadSubmit(r)
  <2>1. PICK r \in Reloaders : ReloadSubmit(r)
    BY <1>7
  <2>2. /\ rpc' = [rpc EXCEPT ![r] = "wait"] /\ result' = result
        /\ ticket' = [ticket EXCEPT ![r] = Generation]
    BY <1>2, <2>1 DEF ReloadSubmit
  <2>3. TicketType'
    <3>1. ticket \in [Reloaders -> 0 .. lastId']
      BY <1>2, <1>3 DEF TicketType
    <3> QED BY <1>2, <2>2, <3>1 DEF TicketType
  <2>4. ControlType' /\ NeverFull'
    BY <1>1, <1>3, <2>2 DEF ControlType, NeverFull, senderVars
  <2> QED BY <1>2, <1>4, <1>5, <2>3, <2>4, Assemble
<1> QED BY <1>6, <1>7

(* ph__flags_take_fetch, ph__flags_complete_fetch, ph__flags_abort_pending *)
LEMMA JobStep ==
  ASSUME IInv, TakeFetch \/ CompleteFetch \/ AbortPending
  PROVE  IInv'
<1>1. UNCHANGED <<context, cache, lastId, stop, running, outcome, hpc, reloadVars, dataVars>>
  BY DEF TakeFetch, CompleteFetch, AbortPending
<1>2. /\ TableType /\ JobsOK /\ RecordsOK /\ SuccessIsFresh /\ ControlType /\ PhaseOK
      /\ OutcomeOK /\ NeverFull /\ context \in Nat /\ context # 0 /\ lastId \in Nat
      /\ context \in 1 .. MaxContext
  BY TypeOKTable, TypeParts DEF IInv, TableType, DataType
<1>3. /\ CacheType' /\ CacheIsCurrent' /\ DataType' /\ TicketType'
  BY <1>1, <1>2, CacheUnchanged, BoundsGrow, TicketsGrow DEF dataVars, reloadVars
<1>4. ControlType' /\ NeverFull'
  BY <1>1, <1>2 DEF TakeFetch, CompleteFetch, AbortPending, Goto, ControlType, NeverFull,
                    reloadVars
<1>5. NoJob \in [gen : 0 .. lastId, ctx : 0 .. context] /\ NoJob.ctx = 0 /\ NoJob.gen = 0
  BY <1>2 DEF NoJob
<1>6. CASE TakeFetch
  <2>1. /\ history' = history
        /\ \/ /\ inflight' = refetch /\ refetch' = NoJob /\ refetch # NoJob
              /\ inflight = NoJob /\ spc' = "begin"
           \/ inflight' = inflight /\ refetch' = refetch /\ spc = "take" /\ spc' = "drain"
    BY <1>6 DEF TakeFetch, Goto
  <2>2. TableType' /\ JobsOK'
    BY <1>1, <1>2, <1>5, <2>1 DEF TableType, JobsOK
  <2>3. RecordsOK' /\ SuccessIsFresh'
    BY <1>1, <1>2, <1>5, <2>1 DEF RecordsOK, SuccessIsFresh, JobsOK, dataVars
  <2>4. PhaseOK' /\ OutcomeOK'
    BY <1>1, <1>2, <2>1 DEF PhaseOK, OutcomeOK
  <2> QED BY <1>3, <1>4, <2>2, <2>3, <2>4, Assemble DEF TableInv
<1>7. CASE CompleteFetch
  <2>1. /\ inflight' = NoJob /\ refetch' = refetch /\ spc = "complete" /\ spc' = "drain"
        /\ history' = Marked(history, inflight.gen, outcome)
    BY <1>7, SMTT(15) DEF CompleteFetch, Goto
  <2>2. /\ history' \in [Slots -> Records(lastId, context)]
        /\ \A i \in Slots :
             /\ history'[i].id = history[i].id
             /\ history'[i].ctx = history[i].ctx
             /\ history'[i].status =
                  IF history[i].id = inflight.gen /\ history[i].status = "pending"
                  THEN outcome ELSE history[i].status
    <3>1. history \in [Slots -> Records(lastId, context)] /\ outcome \in Statuses
      BY <1>2 DEF TableType, ControlType
    <3>2. ASSUME NEW g, history' = Marked(history, g, outcome)
          PROVE  /\ history' \in [Slots -> Records(lastId, context)]
                 /\ \A i \in Slots :
                      /\ history'[i].id = history[i].id
                      /\ history'[i].ctx = history[i].ctx
                      /\ history'[i].status =
                           IF history[i].id = g /\ history[i].status = "pending"
                           THEN outcome ELSE history[i].status
      BY <1>2, <3>1, <3>2, MarkedFacts
    <3> QED BY <2>1, <3>2
  <2>3. TableType' /\ JobsOK'
    BY <1>1, <1>2, <1>5, <2>1, <2>2, SMTT(15) DEF TableType, JobsOK
  <2>4. RecordsOK'
    <3>1. ASSUME NEW i \in Slots, history'[i].status = "pending"
          PROVE  /\ history[i].status = "pending"
                 /\ refetch # NoJob /\ history[i].id = refetch.gen
      BY <1>2, <2>2, <3>1 DEF RecordsOK, OutcomeOK
    <3> QED BY <1>1, <1>2, <2>1, <2>2, <3>1, SMTT(15) DEF RecordsOK
  <2>5. SuccessIsFresh'
    <3> SUFFICES ASSUME NEW i \in Slots, history'[i].status = "success",
                        history'[i].ctx = context
                 PROVE  loaded = context
      BY <1>1 DEF SuccessIsFresh, dataVars
    <3>1. CASE history[i].status = "success"
      BY <1>2, <2>2, <3>1 DEF SuccessIsFresh
    <3>2. CASE history[i].status # "success"
      <4>1. history[i].status = "pending" /\ history[i].id = inflight.gen
            /\ outcome = "success"
        BY <2>2, <3>2
      <4>2. inflight # NoJob
        BY <1>2, <2>1 DEF PhaseOK
      <4>3. inflight.ctx = context
        BY <1>2, <4>1, <4>2 DEF RecordsOK, JobsOK
      <4> QED BY <1>2, <2>1, <4>1, <4>3 DEF OutcomeOK
    <3> QED BY <3>1, <3>2
  <2>6. PhaseOK' /\ OutcomeOK'
    BY <1>1, <1>2, <2>1 DEF PhaseOK, OutcomeOK
  <2> QED BY <1>3, <1>4, <2>3, <2>4, <2>5, <2>6, Assemble DEF TableInv
<1>8. CASE AbortPending
  <2>1. /\ inflight' = NoJob /\ refetch' = NoJob /\ spc' = "aborted"
        /\ history' = Aborted(history)
    BY <1>8 DEF AbortPending, Goto
  <2>2. /\ history' \in [Slots -> Records(lastId, context)]
        /\ \A i \in Slots :
             /\ history'[i].id = history[i].id
             /\ history'[i].ctx = history[i].ctx
             /\ history'[i].status =
                  IF history[i].status = "pending" THEN "failed" ELSE history[i].status
    <3>1. history \in [Slots -> Records(lastId, context)]
      BY <1>2 DEF TableType
    <3> QED BY <1>2, <2>1, <3>1, AbortedFacts
  <2>3. TableType' /\ JobsOK'
    BY <1>1, <1>2, <1>5, <2>1, <2>2 DEF TableType, JobsOK
  <2>4. RecordsOK' /\ SuccessIsFresh'
    BY <1>1, <1>2, <2>2 DEF RecordsOK, SuccessIsFresh, dataVars
  <2>5. PhaseOK' /\ OutcomeOK'
    BY <1>1, <1>2, <2>1 DEF PhaseOK, OutcomeOK
  <2> QED BY <1>3, <1>4, <2>3, <2>4, <2>5, Assemble DEF TableInv
<1> QED BY <1>6, <1>7, <1>8

(* The steps of the fetch itself, which hold the lock only for moments.    *)
LEMMA FetchStep ==
  ASSUME IInv,
         \/ FetchBegin \/ FetchFails
         \/ \E resp \in Answers, partial \in BOOLEAN : FetchAnswers(resp, partial)
  PROVE  IInv'
<1>1. UNCHANGED <<context, jobVars, stop, running, hpc, reloadVars>>
  BY DEF FetchBegin, FetchFails, FetchAnswers
<1>2. /\ TableType /\ JobsOK /\ RecordsOK /\ SuccessIsFresh /\ ControlType /\ PhaseOK
      /\ OutcomeOK /\ NeverFull /\ context \in Nat /\ lastId \in Nat
      /\ TicketType /\ DataType
  BY TypeOKTable, TypeParts DEF IInv, TableType
<1>3. TicketType' /\ NeverFull' /\ ControlType'
  BY <1>1, <1>2 DEF TicketType, NeverFull, ControlType, reloadVars, jobVars, FetchBegin,
                    FetchFails, FetchAnswers, Goto, Statuses
<1>4. TableType' /\ JobsOK' /\ RecordsOK'
  BY <1>1, <1>2 DEF TableType, JobsOK, RecordsOK, jobVars
<1>5. PhaseOK'
  BY <1>1, <1>2 DEF PhaseOK, jobVars, FetchBegin, FetchFails, FetchAnswers, Goto
<1>6. CASE FetchBegin \/ FetchFails
  <2>1. /\ UNCHANGED <<cache, loaded>> /\ fetched' \in {fetched, context}
        /\ \/ outcome' = outcome /\ spc' = "fetch"
           \/ outcome' \in {"failed", "superseded"}
    BY <1>6 DEF FetchBegin, FetchFails, Goto, dataVars
  <2>2. CacheType' /\ CacheIsCurrent'
    BY <1>1, <2>1, CacheUnchanged
  <2>3. DataType' /\ SuccessIsFresh' /\ OutcomeOK'
    <3>1. DataType'
      BY <1>1, <1>2, <2>1, SMTT(15) DEF DataType
    <3>2. SuccessIsFresh'
      BY <1>1, <1>2, <2>1 DEF SuccessIsFresh, jobVars, DataType
    <3>3. OutcomeOK'
      BY <1>1, <1>2, <2>1 DEF OutcomeOK, jobVars
    <3> QED BY <3>1, <3>2, <3>3
  <2> QED BY <1>3, <1>4, <1>5, <2>2, <2>3, Assemble DEF TableInv
<1>7. ASSUME NEW resp \in Answers, NEW partial \in BOOLEAN, FetchAnswers(resp, partial)
      PROVE  IInv'
  <2>1. CacheType' /\ CacheIsCurrent'
    BY <1>7, AnswerInv
  <2>2. /\ fetched' = fetched
        /\ \/ inflight.ctx # context /\ outcome' = "superseded" /\ loaded' = loaded
           \/ outcome' = "failed" /\ loaded' = loaded
           \/ outcome' = "success" /\ loaded' = context
    BY <1>7 DEF FetchAnswers
  <2>3. DataType' /\ SuccessIsFresh' /\ OutcomeOK'
    <3>1. DataType'
      BY <1>1, <1>2, <2>2 DEF DataType
    <3>2. SuccessIsFresh'
      BY <1>1, <1>2, <2>2 DEF SuccessIsFresh, jobVars, DataType
    <3>3. OutcomeOK'
      BY <1>1, <1>2, <2>2 DEF OutcomeOK, jobVars
    <3> QED BY <3>1, <3>2, <3>3
  <2> QED BY <1>3, <1>4, <1>5, <2>1, <2>3, Assemble DEF TableInv
<1> QED BY <1>6, <1>7

(* The steps that only move control, or read a flag.                       *)
LEMMA OtherStep ==
  ASSUME IInv,
         \/ DrainEnds \/ FinalEnds \/ StopRequest \/ Join \/ Terminated
         \/ \E r \in Reloaders : ReloadCheck(r) \/ ReloadLook(r)
         \/ \E t \in Readers : EmitCalled(t) \/ \E k \in Keys : Resolve(t, k)
         \/ UNCHANGED vars
  PROVE  IInv'
<1>1. UNCHANGED <<context, jobVars, dataVars, ticket, outcome, hpc>>
  BY DEF DrainEnds, FinalEnds, StopRequest, Join, Terminated, ReloadCheck, ReloadLook,
         EmitCalled, Resolve, vars, reloadVars, senderVars
<1>2. /\ ControlType /\ PhaseOK /\ OutcomeOK /\ NeverFull /\ TicketType /\ DataType
      /\ CacheType /\ CacheIsCurrent /\ TableType
  BY TypeParts DEF IInv
<1>3. TableInv' /\ TicketType' /\ DataType'
  BY <1>1, <1>2, TableUnchanged DEF dataVars, jobVars, TicketType, DataType
<1>4. \/ spc' = spc
      \/ /\ spc \notin {"begin", "fetch", "complete"}
         /\ spc' \notin {"begin", "fetch", "complete"}
  BY DEF DrainEnds, FinalEnds, StopRequest, Join, Terminated, ReloadCheck, ReloadLook,
         EmitCalled, Resolve, vars, senderVars, Goto
<1>5. PhaseOK' /\ OutcomeOK'
  BY <1>1, <1>2, <1>4 DEF PhaseOK, OutcomeOK, jobVars, dataVars
<1>6. CacheType' /\ CacheIsCurrent'
  <2>1. CASE \E t \in Readers, k \in Keys : Resolve(t, k)
    <3>1. PICK k \in DOMAIN cache : cache' = [cache EXCEPT ![k].called = TRUE]
      BY <2>1 DEF Resolve
    <3>2. /\ DOMAIN cache' = DOMAIN cache
          /\ \A j \in DOMAIN cache :
               /\ cache'[j] \in [val : Values, ctx : 0 .. context, called : BOOLEAN]
               /\ cache'[j].ctx = cache[j].ctx
      BY <1>2, <3>1 DEF CacheType
    <3> QED BY <1>1, <1>2, <3>2 DEF CacheType, CacheIsCurrent
  <2>2. CASE cache' = cache
    BY <1>1, <2>2, CacheUnchanged
  <2> QED BY <2>1, <2>2 DEF DrainEnds, FinalEnds, StopRequest, Join, Terminated,
             ReloadCheck, ReloadLook, EmitCalled, vars
<1>7. CASE UNCHANGED reloadVars
  <2>1. ControlType' /\ NeverFull'
    BY <1>1, <1>2, <1>7 DEF ControlType, NeverFull, reloadVars, DrainEnds, FinalEnds,
       StopRequest, Join, Terminated, ReloadCheck, ReloadLook, EmitCalled, Resolve, vars,
       senderVars, Goto
  <2> QED BY <1>3, <1>5, <1>6, <2>1, Assemble
<1>8. CASE \E r \in Reloaders : ReloadCheck(r) \/ ReloadLook(r)
  <2>1. PICK r \in Reloaders : ReloadCheck(r) \/ ReloadLook(r)
    BY <1>8
  <2>2. Status(ticket[r]) \in Statuses
    BY <1>2 DEF Status, Same, Statuses, TableType, Records
  <2>3. /\ UNCHANGED senderVars
        /\ \E p \in {"out", "submit", "wait", "done"} : rpc' = [rpc EXCEPT ![r] = p]
        /\ \E s \in Statuses \cup {"disabled"} :
             result' = result \/ result' = [result EXCEPT ![r] = s]
    BY <2>1, <2>2 DEF ReloadCheck, ReloadLook, Return, Statuses
  <2>4. ControlType' /\ NeverFull'
    BY <1>1, <1>2, <2>3 DEF ControlType, NeverFull, senderVars, Statuses
  <2> QED BY <1>3, <1>5, <1>6, <2>4, Assemble
<1> QED BY <1>7, <1>8 DEF DrainEnds, FinalEnds, StopRequest, Join, Terminated, EmitCalled,
           Resolve, vars
-----------------------------------------------------------------------------
(* The inductive invariant of ph_flags.c: jobs, records, cache and the     *)
(* outcome of the fetch in progress fit together in every reachable state. *)
THEOREM FlagInvariant == Spec => []IInv
<1>1. Init => IInv
  BY InitInv
<1>2. IInv /\ [Next]_vars => IInv'
  <2> SUFFICES ASSUME IInv, [Next]_vars PROVE IInv'
    OBVIOUS
  <2>1. CASE SyncContext \/ \E h \in Hosts : HostChanges(h)
    BY <2>1, ContextStep
  <2>2. CASE SyncRefresh \/ \E h \in Hosts : HostRefreshes(h)
    BY <2>2, RefreshStep
  <2>3. CASE CallbackReload \/ \E r \in Reloaders : ReloadSubmit(r)
    BY <2>3, TicketStep
  <2>4. CASE TakeFetch \/ CompleteFetch \/ AbortPending
    BY <2>4, JobStep
  <2>5. CASE \/ FetchBegin \/ FetchFails
             \/ \E resp \in Answers, partial \in BOOLEAN : FetchAnswers(resp, partial)
    BY <2>5, FetchStep
  <2>6. CASE \/ DrainEnds \/ FinalEnds \/ StopRequest \/ Join \/ Terminated
             \/ \E r \in Reloaders : ReloadCheck(r) \/ ReloadLook(r)
             \/ \E t \in Readers : EmitCalled(t) \/ \E k \in Keys : Resolve(t, k)
             \/ UNCHANGED vars
    BY <2>6, OtherStep
  <2> QED BY <2>1, <2>2, <2>3, <2>4, <2>5, <2>6 DEF Next, Sender, Reloader, Shutdown
<1> QED BY <1>1, <1>2, PTL DEF Spec

(* The type invariant of the flag state of ph_flags.c.                     *)
THEOREM TypeCorrect == Spec => []TypeOK
<1>1. IInv => TypeOK
  BY DEF IInv
<1> QED BY <1>1, FlagInvariant, PTL

(* flags_ingest_for_context never lets an older context's values into the  *)
(* cache, and never overfills it, whatever the server answers and whoever  *)
(* changes the context meanwhile.                                          *)
THEOREM CacheStaysCurrent == Spec => []CacheIsCurrent
<1>1. IInv => CacheIsCurrent
  BY DEF IInv
<1> QED BY <1>1, FlagInvariant, PTL

(* Every pending ticket of ph__flags_reload_async has its job, tickets are *)
(* never shared, and PH_ERR_FULL is never returned, for any number of      *)
(* waiters and any history capacity.                                       *)
THEOREM TicketsHaveJobs == Spec => []TicketsAreServed
<1>1. IInv => TicketsAreServed
  BY DEF IInv, TicketsAreServed, RecordsOK, NeverFull
<1> QED BY <1>1, FlagInvariant, PTL

(* A reload that reports success has loaded the answer for its context     *)
(* (ph__flags_complete_fetch after flags_ingest_for_context).              *)
THEOREM SuccessMeansFresh == Spec => []SuccessIsFresh
<1>1. IInv => SuccessIsFresh
  BY DEF IInv
<1> QED BY <1>1, FlagInvariant, PTL

(* The outcome of a ticket is final: no step changes a finished record in  *)
(* place.                                                                  *)
THEOREM OutcomesAreFinal == Spec => OutcomeSticks
<1> DEFINE A == \A i \in Slots :
                  history'[i].id = history[i].id /\ history[i].status # "pending" =>
                    history'[i] = history[i]
<1>1. IInv /\ [Next]_vars => [A]_vars
  <2> SUFFICES ASSUME IInv, Next PROVE A
    BY DEF vars
  <2>1. TableType /\ RecordsOK
    BY TypeParts DEF IInv
  <2>2. CASE history' = history
    BY <2>2
  <2>3. CASE ContextChanged \/ CompleteFetch \/ AbortPending
    BY <2>1, <2>3 DEF ContextChanged, CompleteFetch, AbortPending, Superseded, Marked, Aborted
  <2>4. CASE AutoRefresh
    BY <2>1, <2>4 DEF AutoRefresh, Scheduled, Marked
  <2>5. CASE ReloadAsync /\ context' = context
    <3>1. /\ Scheduled = history /\ history' = Allocated(history, Generation, context)
      BY <2>5, ScheduleFacts DEF ReloadAsync
    <3> DEFINE n == SlotFor(history, Generation)
    <3>2. CASE history' = history
      BY <3>2
    <3>3. CASE /\ Same(history, Generation) = {}
               /\ history' = [history EXCEPT ![n] = [id |-> Generation, ctx |-> context,
                                                     status |-> "pending"]]
      BY <2>1, <3>3 DEF Same, TableType
    <3> QED BY <3>1, <3>2, <3>3 DEF Allocated
  <2> QED BY <2>2, <2>3, <2>4, <2>5 DEF Next, Sender, Reloader, Shutdown, HostChanges,
       HostRefreshes, ReloadCheck, ReloadSubmit, ReloadLook, SyncContext, SyncRefresh,
       CallbackReload, DrainEnds, TakeFetch, FetchBegin, FetchFails, FetchAnswers, FinalEnds,
       StopRequest, Join, Resolve, EmitCalled, Terminated, vars, jobVars
<1> QED BY <1>1, FlagInvariant, PTL DEF Spec, OutcomeSticks

(* No step takes back an exposure of a value that stays: an answer that    *)
(* repeats a value keeps its latch (flags_ingest_for_context copies        *)
(* called_sent), a partial one leaves the other flags alone, and a flag    *)
(* that left the cache with its context starts anew.                       *)
THEOREM ExposuresAreKept == Spec => ExposedOnce
<1> DEFINE Kept(k) == cache[k].called /\ cache[k].val = cache'[k].val => cache'[k].called
           A == \A k \in DOMAIN cache \cap DOMAIN cache' : Kept(k)
<1>1. IInv /\ [Next]_vars => [A]_vars
  <2> SUFFICES ASSUME IInv, Next PROVE A
    BY DEF vars
  <2>1. CacheType
    BY TypeParts DEF IInv
  <2>2. CASE cache' = cache
    BY <2>2
  <2>3. CASE cache' = [k \in {} |-> 0]
    BY <2>3
  <2>4. ASSUME NEW resp \in Answers, NEW partial \in BOOLEAN, FetchAnswers(resp, partial)
        PROVE  A
    <3>1. \A k \in DOMAIN cache \cap DOMAIN resp :
            /\ Parsed(resp)[k].val = resp[k]
            /\ cache[k].called /\ cache[k].val = resp[k] => Parsed(resp)[k].called
      <4>1. ASSUME NEW k \in DOMAIN cache \cap DOMAIN resp
            PROVE  Parsed(resp)[k].val = resp[k] /\ Parsed(resp)[k].called = Called(k, resp[k])
        BY DEF Parsed
      <4>2. ASSUME NEW k \in DOMAIN cache, cache[k].called, cache[k].val = resp[k]
            PROVE  Called(k, resp[k])
        BY <4>2, Zenon DEF Called
      <4> QED BY <4>1, <4>2
    <3>2. CASE cache' = Parsed(resp)
      <4>1. DOMAIN Parsed(resp) = DOMAIN resp
        BY SMTT(15) DEF Parsed
      <4> QED BY <3>1, <3>2, <4>1
    <3>3. ASSUME NEW added \in Fitting(resp), cache' = Updated(resp, added)
          PROVE  A
      <4>1. ASSUME NEW k \in DOMAIN cache
            PROVE  cache'[k] = IF k \in DOMAIN resp THEN Parsed(resp)[k] ELSE cache[k]
        BY <3>3 DEF Updated
      <4> QED BY <3>1, <4>1
    <3> QED BY <2>2, <2>4, <3>2, <3>3 DEF FetchAnswers
  <2>5. ASSUME NEW t \in Readers, NEW k \in Keys, Resolve(t, k)
        PROVE  A
    BY <2>1, <2>5 DEF Resolve, CacheType
  <2> QED BY <2>2, <2>3, <2>4, <2>5 DEF Next, Sender, Reloader, Shutdown, HostChanges,
       HostRefreshes, ReloadCheck, ReloadSubmit, ReloadLook, SyncContext, SyncRefresh,
       CallbackReload, DrainEnds, TakeFetch, FetchBegin, FetchFails, FinalEnds,
       CompleteFetch, AbortPending, ContextChanged, StopRequest, Join, EmitCalled,
       Terminated, vars
<1> QED BY <1>1, FlagInvariant, PTL DEF Spec, ExposedOnce
=============================================================================
