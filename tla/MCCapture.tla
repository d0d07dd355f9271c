------------------------------ MODULE MCCapture ------------------------------
(***************************************************************************)
(* What a call of the capture API goes through, for TLC: the rate limit    *)
(* (TokenBucket), the clock readings of its timestamp (WallEpoch), the     *)
(* shape of its properties (EventShape), and on the other backend the wasm *)
(* shim (WasmShim).  They share no state, so a behaviour is one of either. *)
(***************************************************************************)
EXTENDS TokenBucket, WallEpoch, EventShape, WasmShim

VARIABLE part  \* which of them this behaviour is about

P(k, n) == Scalar(k, n, "call")

(* Lists with a property given twice, of keys the SDK owns, stamps or      *)
(* forces, and ones that together do not fit.                              *)
Lists ==
  {<<>>, <<P("a", 1)>>, <<P("a", 2), P("$os", 1)>>, <<P("a", 1), P("a", 2)>>,
   <<P("$lib", 1), P("b", 2)>>, <<P("$geoip_disable", 1)>>}

Config(deny, before, geoip, policy) ==
  [deny |-> deny, hook |-> before, geoip |-> geoip, policy |-> policy]

Settled ==
  {Config({}, "none", FALSE, "identified"), Config({"a"}, "none", TRUE, "always"),
   Config({"a"}, "put", TRUE, "identified"), Config({"$os", "type"}, "grow", FALSE, "never"),
   Config({"b"}, "veto", FALSE, "identified"), Config({}, "grow", TRUE, "identified")}
-----------------------------------------------------------------------------
captureRunVars == <<part, vars, epochVars, shapeVars, shimVars>>

CaptureInit ==
  /\ part \in {"limit", "stamp", "shape", "wasm"}
  /\ Init /\ EpochInit /\ ShapeInit /\ ShimInit
  /\ part # "shape" => /\ config = CHOOSE c \in Settled : TRUE
                       /\ distinctId = CHOOSE d \in AnonIds : TRUE

CaptureNext ==
  \/ part = "limit" /\ Next /\ UNCHANGED <<part, epochVars, shapeVars, shimVars>>
  \/ part = "stamp" /\ EpochNext /\ UNCHANGED <<part, vars, shapeVars, shimVars>>
  \/ part = "shape" /\ ShapeNext /\ UNCHANGED <<part, vars, epochVars, shimVars>>
  \/ part = "wasm" /\ ShimNext /\ UNCHANGED <<part, vars, epochVars, shapeVars>>

CaptureSpec == CaptureInit /\ [][CaptureNext]_captureRunVars
=============================================================================
