----------------------------- MODULE EventShape -----------------------------
(***************************************************************************)
(* What becomes of the properties of an event, from the call that captures *)
(* it to the JSON the sender posts: the caller's list (ph_props.c), the    *)
(* super properties and groups merged in under the mutex (ph_core.c,       *)
(* ph_util.c), the packed blob of the ring slot, the scrub stage of the    *)
(* sender (scrub_events, ph_native.c), the exception path                  *)
(* (ph_exception.c) and the serializer (ph_serialize.c); and, beside it,   *)
(* what ph_wasm.c hands posthog-js for the same call.                      *)
(*                                                                         *)
(* The model follows one event at a time.  A property is its key, the      *)
(* length of its packed entry and who gave it its value.  The effect of    *)
(* ph_identify and ph_group on feature flags is in FlagReload.             *)
(***************************************************************************)
EXTENDS Integers, Sequences, Functions

CONSTANTS PropLists,   \* property lists a caller passes
          Configs,     \* configurations: deny, hook, geoip, policy
          AnonIds,     \* what the configuration gives, and gen_anon_id makes
          UserIds,     \* what a caller passes ph_identify
          GroupKeys,   \* keys of the one type of group
          ListLens,    \* packed lengths of an $exception_list
          MaxProps,    \* PH_MAX_PROPS
          MaxGroups,   \* PH_MAX_GROUPS
          DataCap,     \* PH_EVENT_DATA_CAP
          Lead,        \* of which the name and distinct id take so many
          MaxApiCalls  \* bound: calls of the API in a session

VARIABLES config,      \* the configuration of ph_init
          distinctId, identified, super, groups,   \* g_ph
          slot,        \* the event followed, in the ring or with the sender
          stage,       \* none, queued, scrubbed or sent
          wire,        \* its JSON
          asked,       \* the call that made it, and g_ph at that moment
          calls        \* calls so far

shapeVars == <<config, distinctId, identified, super, groups, slot, stage, wire, asked,
               calls>>

(* k_sdk_owned_top_level                                                   *)
Owned == {"distinct_id", "$lib", "$lib_version", "$lib_backend",
          "$process_person_profile", "$groups", "$group_set", "$group_type", "$group_key"}

(* The other names the SDK gives a property, and who can give its value.   *)
SdkNames == Owned \cup {"$os", "arch", "release", "$geoip_disable", "$set", "alias",
                        "$exception_type", "$exception_list", "g"}
Givers == {"call", "super", "hook", "sdk"}

(* An entry of a blob: PH_T_* are scalars, PH_PK_RAWJSON and PH_PK_GROUP   *)
(* the other types.  (STRING has all of the names; TLAPS must be told.)    *)
Prop == [type : {"scalar", "raw", "group"}, key : STRING \cup SdkNames \cup {"a"}, len : Nat,
         val : STRING \cup Givers]
OfType(t) == {p \in Prop : p.type = t}
OfKey(keys) == {p \in Prop : p.key \in keys}

ASSUME ShapeAssumption ==
  /\ MaxProps \in Nat \ {0} /\ MaxGroups \in Nat /\ DataCap \in Nat /\ Lead \in 0 .. DataCap
  /\ PropLists \subseteq {ps \in Seq(OfType("scalar")) : Len(ps) <= MaxProps}
  /\ Configs \subseteq [deny : SUBSET STRING, hook : {"none", "grow", "put", "veto"},
                        geoip : BOOLEAN, policy : {"always", "identified", "never"}]
  /\ GroupKeys \subseteq STRING /\ ListLens \subseteq Nat

(* A pass over a list: step[p] is what the property p does.  With a        *)
(* function for the step, and not an operator, TLAPS can reason about it.  *)
Pass(step, start, ps) ==
  LET after[n \in 0 .. Len(ps)] == IF n = 0 THEN start ELSE step[ps[n]][after[n - 1]]
  IN after[Len(ps)]

Select(ps, S) ==
  Pass([p \in Prop |-> [b \in Seq(Prop) |-> IF p \in S THEN Append(b, p) ELSE b]], <<>>, ps)

Keys(ps) == {ps[i].key : i \in DOMAIN ps}
Size(ps) == Pass([p \in Prop |-> [n \in Nat |-> n + p.len]], 0, ps)
Room == DataCap - Lead
Scalar(k, n, v) == [type |-> "scalar", key |-> k, len |-> n, val |-> v]
GivenBy(who, ps) == [i \in DOMAIN ps |-> [ps[i] EXCEPT !.val = who]]

(* next_slot: a list holds MaxProps and ignores the rest.                  *)
Capped(ps) == SubSeq(ps, 1, IF Len(ps) < MaxProps THEN Len(ps) ELSE MaxProps)

(* ph_props_remove_key, ph_apply_denylist                                  *)
Without(ps, keys) == Select(ps, Prop \ OfKey(keys))

(* ph_props_merge                                                          *)
Merge(explicit, supers) == Capped(explicit \o Without(supers, Keys(explicit)))

(* ph_pack_props, ph_pack_str_entry: an entry that does not fit is left    *)
(* out and the next is tried.                                              *)
Pack(ps, cap) ==
  Pass([p \in Prop |-> [b \in Seq(Prop) |->
          IF Size(b) + p.len <= cap THEN Append(b, p) ELSE b]], <<>>, ps)

(* ph_blob_next over a blob cut at n bytes: the entries before the cut.    *)
Cut(b, n) ==
  SubSeq(b, 1, CHOOSE i \in 0 .. Len(b) :
                 /\ Size(SubSeq(b, 1, i)) <= n
                 /\ i < Len(b) => Size(SubSeq(b, 1, i + 1)) > n)

(* ph_unpack_props                                                         *)
Scalars(b) == Capped(Select(b, OfType("scalar")))

(* What the before_send of the configuration leaves of a list it accepts.  *)
HookLeaves(ps) ==
  CASE config.hook = "grow" /\ ps # <<>> ->
         [ps EXCEPT ![1] = [ps[1] EXCEPT !.len = @ + 1, !.val = "hook"]]
    [] config.hook = "put" -> Capped(Append(ps, Scalar("a", 1, "hook")))
    [] OTHER -> ps

EmptySlot == [kind |-> "none", blob |-> <<>>, did |-> "", noProfile |-> FALSE]
NoWire == [top |-> <<>>, nested |-> <<>>, groups |-> <<>>, did |-> ""]
NoCall == [kind |-> "none", props |-> <<>>, super |-> <<>>, groups |-> <<>>,
           did |-> "", anonymous |-> FALSE, blob |-> <<>>]

ShapeInit ==
  /\ config \in Configs
  /\ distinctId \in AnonIds /\ identified = FALSE
  /\ super = <<>> /\ groups = <<>>
  /\ slot = EmptySlot /\ stage = "none" /\ wire = NoWire /\ asked = NoCall
  /\ calls = 0
-----------------------------------------------------------------------------
(* derive_no_profile: mode is derive or profile, what the callers pass.    *)
NoProfile(mode, known) ==
  \/ config.policy = "never"
  \/ mode = "derive" /\ config.policy = "identified" /\ ~known

(* ph__submit_event: the $exception_list first, then the properties, then  *)
(* the groups, each where it fits.                                         *)
Blob(props, extra, stamped) ==
  LET raw == Pack(extra, Room)
      own == raw \o Pack(IF stamped THEN Merge(props, super) ELSE props, Room - Size(raw))
  IN own \o (IF stamped THEN Pack(groups, Room - Size(own)) ELSE <<>>)

(* The event of a call made while g_ph was (known, did): it is queued.     *)
Submit(kind, did, known, props, extra, mode, stamped) ==
  LET e == [kind |-> kind, did |-> did, noProfile |-> NoProfile(mode, known),
            blob |-> Blob(props, extra, stamped)]
  IN /\ stage = "none"
     /\ slot' = e /\ stage' = "queued"
     /\ asked' = [kind |-> kind, props |-> props, super |-> super, groups |-> groups,
                  did |-> did, anonymous |-> e.noProfile, blob |-> e.blob]

NotFollowed == UNCHANGED <<slot, stage, asked>>
Called == calls < MaxApiCalls /\ calls' = calls + 1
Context == <<distinctId, identified, super, groups>>

(* ph_capture                                                              *)
Capture ==
  /\ Called
  /\ \E ps \in PropLists :
       Submit("capture", distinctId, identified, GivenBy("call", ps), <<>>, "derive", TRUE)
  /\ UNCHANGED <<config, wire, Context>>

(* ph_identify                                                             *)
Identify ==
  \E d \in UserIds, ps \in PropLists :
    /\ Called
    /\ distinctId' = d /\ identified' = TRUE
    /\ \/ Submit("identify", d, TRUE, GivenBy("call", ps), <<>>, "profile", FALSE)
       \/ NotFollowed
    /\ UNCHANGED <<config, wire, super, groups>>

(* ph_alias, for the current id.                                           *)
Alias ==
  /\ Called
  /\ Submit("alias", distinctId, identified, <<Scalar("alias", 1, "call")>>, <<>>,
            "profile", FALSE)
  /\ UNCHANGED <<config, wire, Context>>

(* ph_reset                                                                *)
Reset ==
  /\ Called
  /\ distinctId' \in AnonIds \ {distinctId}
  /\ identified' = FALSE /\ super' = <<>> /\ groups' = <<>>
  /\ UNCHANGED <<config, slot, stage, wire, asked>>

(* ph_group: the membership is remembered if there is room for its type,   *)
(* and $groupidentify carries the type, the key and the caller's list.     *)
Group ==
  \E k \in GroupKeys, ps \in PropLists :
    /\ Called
    /\ groups' = IF groups # <<>> \/ MaxGroups > 0
                 THEN <<[type |-> "group", key |-> "g", len |-> 1, val |-> k]>>
                 ELSE groups
    /\ \/ Submit("group", k, identified,
                 Capped(<<Scalar("$group_type", 1, "sdk"), Scalar("$group_key", 1, "sdk")>>
                        \o GivenBy("call", ps)),
                 <<>>, "profile", FALSE)
       \/ NotFollowed
    /\ UNCHANGED <<config, wire, distinctId, identified, super>>

\* Mutant: a key registered again takes a second place.
RegisterAppends(supers, p) == IF Len(supers) < MaxProps THEN Append(supers, p) ELSE supers

(* ph_register, one property.                                              *)
Registered(supers, p) ==
  IF p.key \in Keys(supers)
  THEN [i \in DOMAIN supers |-> IF supers[i].key = p.key THEN p ELSE supers[i]]
  ELSE IF Len(supers) < MaxProps THEN Append(supers, p) ELSE supers

Register ==
  /\ Called
  /\ \E ps \in PropLists :
       super' = Pass([p \in Prop |-> [s \in Seq(Prop) |-> Registered(s, p)]], super,
                     GivenBy("super", ps))
  /\ UNCHANGED <<config, distinctId, identified, groups, slot, stage, wire, asked>>

(* ph_unregister: the first property of that key.                          *)
Unregister ==
  /\ Called
  /\ \E i \in DOMAIN super :
       /\ \A j \in 1 .. (i - 1) : super[j].key # super[i].key
       /\ super' = SubSeq(super, 1, i - 1) \o SubSeq(super, i + 1, Len(super))
  /\ UNCHANGED <<config, distinctId, identified, groups, slot, stage, wire, asked>>
-----------------------------------------------------------------------------
(* prepare_exception_props: the hook sees the exception's own properties,  *)
(* then its type moves into the list.  ph__exception_prepare_base starts   *)
(* them with the level, the type and the message: here the type stands for *)
(* the three.                                                              *)
Redacted(ps) ==
  Without(ps, config.deny \cup (IF "type" \in config.deny THEN {"$exception_type"} ELSE {}))

(* ph__exception_take_type_message: the last type given, or "Error".       *)
TypeOf(ps) ==
  LET own == Select(ps, OfKey({"$exception_type"}))
  IN IF own = <<>> THEN "sdk" ELSE own[Len(own)].val

(* ph__capture_exception_flags, when the hook does not veto.               *)
Exception ==
  \E ps \in PropLists, n \in ListLens :
    LET base == Capped(<<Scalar("$exception_type", 1, "call")>> \o GivenBy("call", ps))
        left == HookLeaves(Redacted(base))
        list == [type |-> "raw", key |-> "$exception_list", len |-> n, val |-> TypeOf(left)]
    IN /\ Called
       /\ config.hook # "veto"
       /\ Submit("exception", distinctId, identified, Without(left, {"$exception_type"}),
                 <<list>>, "derive", TRUE)
       /\ UNCHANGED <<config, wire, Context>>
-----------------------------------------------------------------------------
\* Mutant: only the groups are set aside.
PreservedGroups(b) == Select(b, OfType("group"))

(* What scrub_one sets aside before it unpacks.                            *)
Preserved(b) == Select(b, Prop \ OfType("scalar"))

(* scrub_one, but for a veto.                                              *)
Scrubbed(b, runHook) ==
  LET clean == Without(Scalars(b), config.deny)
      packed == Pack(IF runHook THEN HookLeaves(clean) ELSE clean, DataCap)
      aside == Preserved(b)
  IN Cut(packed \o (IF Size(packed) + Size(aside) <= DataCap THEN aside ELSE <<>>), Room)

\* Mutant: an exception has been scrubbed already.
ScrubSkipsExceptions(e) ==
  IF e.kind = "exception" THEN e.blob ELSE Scrubbed(e.blob, TRUE)

(* scrub_events: exceptions ran the hook at capture, and only have the     *)
(* super properties they were given since checked against the deny list.   *)
ScrubEvent(e) ==
  IF e.kind = "exception" /\ config.deny = {} THEN e.blob
  ELSE Scrubbed(e.blob, e.kind # "exception")

(* The sender takes the event and scrubs it; before_send may drop it.      *)
Scrub ==
  /\ stage = "queued"
  /\ IF config.hook = "veto" /\ slot.kind # "exception"
     THEN stage' = "none" /\ slot' = EmptySlot /\ asked' = NoCall
     ELSE /\ stage' = "scrubbed"
          /\ slot' = IF config.hook = "none" /\ config.deny = {} THEN slot
                     ELSE [slot EXCEPT !.blob = ScrubEvent(slot)]
          /\ UNCHANGED asked
  /\ UNCHANGED <<config, wire, calls, Context>>
-----------------------------------------------------------------------------
Sdk(keys) == [i \in DOMAIN keys |-> Scalar(keys[i], 0, "sdk")]
If(condition, keys) == IF condition THEN Sdk(keys) ELSE <<>>
TopLevel(e) == e.kind \notin {"identify", "group"}

\* Mutant: the caller's own $os does not keep the SDK's away.
StampedAlways(e) ==
  Sdk(<<"distinct_id", "$lib", "$lib_version", "$lib_backend">>)
  \o Without(Sdk(<<"$os", "arch", "release">>), config.deny)
  \o If(e.noProfile, <<"$process_person_profile">>)

(* serialize_event: what every event starts with.                          *)
Stamped(e) ==
  Sdk(<<"distinct_id", "$lib", "$lib_version", "$lib_backend">>)
  \o Without(Sdk(<<"$os", "arch", "release">>),
             config.deny \cup (IF TopLevel(e) THEN Keys(Scalars(e.blob)) ELSE {}))
  \o If(e.noProfile, <<"$process_person_profile">>)

\* Mutant: $geoip_disable is skipped though the SDK does not stamp it.
EmittedWithoutGeoip(b) ==
  Without(Select(b, Prop \ OfType("group")), Owned \cup {"$geoip_disable"})

(* emit_scalar_entries for properties of the top level.                    *)
Emitted(b) ==
  Without(Select(b, Prop \ OfType("group")),
          Owned \cup (IF config.geoip THEN {"$geoip_disable"} ELSE {}))

GroupId == OfKey({"$group_type", "$group_key"})

\* Mutant: the identity of the moment, not of the capture.
IdNow(e) == distinctId

(* PH_EVF_HAS_DID, which ph__submit_event always sets.                     *)
EffectiveId(e) == e.did

(* serialize_event: emit_groups and emit_group_identify included.          *)
Serialized(e) ==
  LET members == Select(e.blob, OfType("group"))
      others == Select(e.blob, Prop \ GroupId)
      body == CASE e.kind = "identify" -> Sdk(<<"$set">>)
                [] e.kind = "group" -> Select(e.blob, GroupId)
                                       \o If(others # <<>>, <<"$group_set">>)
                [] OTHER -> Emitted(e.blob) \o If(members # <<>>, <<"$groups">>)
  IN [did |-> EffectiveId(e),
      top |-> Stamped(e) \o body \o If(config.geoip, <<"$geoip_disable">>),
      nested |-> CASE e.kind = "identify" -> Select(e.blob, Prop \ OfType("group"))
                   [] e.kind = "group" -> others
                   [] OTHER -> <<>>,
      groups |-> IF TopLevel(e) THEN members ELSE <<>>]

Serialize ==
  /\ stage = "scrubbed"
  /\ stage' = "sent" /\ wire' = Serialized(slot)
  /\ UNCHANGED <<config, slot, asked, calls, Context>>

(* The batch is posted, and the next call is followed.                     *)
Posted ==
  /\ stage = "sent"
  /\ stage' = "none" /\ slot' = EmptySlot /\ wire' = NoWire /\ asked' = NoCall
  /\ UNCHANGED <<config, calls, Context>>

(* ph_shutdown with nothing queued, and ph_init again.                     *)
Restart ==
  /\ stage = "none"
  /\ distinctId' \in AnonIds /\ identified' = FALSE
  /\ super' = <<>> /\ groups' = <<>> /\ calls' = 0
  /\ UNCHANGED <<config, slot, stage, wire, asked>>

ShapeNext ==
  \/ Capture \/ Identify \/ Alias \/ Group \/ Exception
  \/ Register \/ Unregister \/ Reset
  \/ Scrub \/ Serialize \/ Posted \/ Restart

ShapeSpec == ShapeInit /\ [][ShapeNext]_shapeVars
-----------------------------------------------------------------------------
(* What ph_wasm.c hands posthog-js: scrub_props, and for a capture         *)
(* ph__props_strip_sdk_owned_top_level.                                    *)
WasmCapture(props, supers) ==
  Without(HookLeaves(Without(Merge(props, supers), config.deny)), Owned)
WasmIdentify(props) == HookLeaves(Without(props, config.deny))

(* The type of every variable; super properties have distinct keys, as     *)
(* ph_register replaces the value of a key it holds.                       *)
ShapeTypeOK ==
  /\ distinctId \in AnonIds \cup UserIds /\ identified \in BOOLEAN
  /\ Len(super) <= MaxProps /\ \A i, j \in DOMAIN super : super[i].key = super[j].key => i = j
  /\ Len(groups) <= MaxGroups
  /\ stage \in {"none", "queued", "scrubbed", "sent"}
  /\ stage # "none" => Size(slot.blob) <= Room

Sent(kinds) == stage = "sent" /\ asked.kind \in kinds
ByCaller(ps) == Select(ps, {p \in OfType("scalar") : p.val # "sdk"})

(* No scalar property of a denied key is posted unless before_send put it  *)
(* there, super properties added to an exception after its hook ran        *)
(* included (scrub_events); nor is an automatic property, nor a denied     *)
(* exception type inside $exception_list.                                  *)
DeniedNeverSent ==
  stage = "sent" =>
    /\ \A p \in Range(ByCaller(wire.top \o wire.nested)) :
         p.key \in config.deny => p.val = "hook"
    /\ \A p \in Range(wire.top) :
         p.key \in config.deny \cap {"$os", "arch", "release"} => p.val # "sdk"
    /\ {"type", "$exception_type"} \cap config.deny # {} =>
         \A p \in Range(wire.top) : p.type = "raw" => p.val # "call"

(* $groups and $exception_list "are preserved untouched" by the scrub      *)
(* stage (scrub_one) unless before_send made the other properties so long  *)
(* that they no longer fit (each of these hooks adds at most 1).           *)
PreservedSurvive ==
  /\ Sent({"capture", "exception"})
  /\ config.hook \in {"grow", "put"} => Size(asked.blob) + 1 <= Room
  =>
    /\ wire.groups = Select(asked.blob, OfType("group"))
    /\ Select(wire.top, OfType("raw")) = Select(asked.blob, OfType("raw"))

(* A property serialize_event stamps stands once among the properties of a *)
(* capture, exception or alias, whatever the caller, the super properties  *)
(* and before_send bring.  ($exception_list is not stamped, it comes with  *)
(* the blob; a caller's own scalar of that name is posted beside it.)      *)
StampedOnce ==
  Sent({"capture", "exception", "alias"}) =>
    \A i, j \in DOMAIN wire.top :
      /\ wire.top[i].type = "scalar" /\ wire.top[i].val = "sdk"
      /\ wire.top[i].key = wire.top[j].key
      => i = j

(* An event is posted with the identity, profile policy, super properties  *)
(* and groups of the moment it was captured, whatever ph_identify,         *)
(* ph_reset, ph_register or ph_group did while it was queued.  A super     *)
(* property never stands in for one the call set, even if the call's own   *)
(* value did not fit the slot (ph_props_merge).                            *)
CapturedContext ==
  /\ stage = "sent" =>
       /\ wire.did = asked.did
       /\ asked.anonymous <=> "$process_person_profile" \in Keys(wire.top)
  /\ Sent({"capture", "exception"}) =>
       /\ Range(wire.groups) \subseteq Range(asked.groups)
       /\ \A p \in Range(wire.top) : p.val = "super" =>
            p \in Range(asked.super) /\ p.key \notin Keys(asked.props)

(* Both backends shape a property list the same way: when all of it fits   *)
(* the slot, a capture or an $identify posts the properties that ph_wasm.c *)
(* would hand posthog-js for the same call, in the same order.             *)
BackendsAgree ==
  LET geo == IF config.geoip THEN {"$geoip_disable"} ELSE {}
  IN /\ Sent({"capture"})
        /\ Size(Merge(asked.props, asked.super)) + Size(asked.groups) + 1 <= Room =>
          ByCaller(wire.top) = Without(WasmCapture(asked.props, asked.super), geo)
     /\ Sent({"identify"}) /\ Size(asked.props) + 1 <= Room =>
          ByCaller(wire.nested) = WasmIdentify(asked.props)
=============================================================================
