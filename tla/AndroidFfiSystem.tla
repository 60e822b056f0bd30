--------------------------- MODULE AndroidFfiSystem ---------------------------
(***************************************************************************)
(* Packets of the Android FFI on their way: encoded from a seed as in      *)
(* check_android_ffi_mutations.py, damaged, and decoded at the other end;  *)
(* an event, a commit result or an empty payload travels in a JNI call,    *)
(* which is admitted.  The campaign flips one bit of a packet; here damage *)
(* accumulates, bytes are cut off or appended, and calls are made wrong.   *)
(***************************************************************************)
EXTENDS AndroidFfi

CONSTANTS
  Seeds,       \* [kind, value]: what is sent
  Misuses,     \* [field |-> value]: primitive values that replace a call's
  MaxDamage    \* bound: the damages of one packet and its call

ASSUME DamageAssumption == MaxDamage \in Nat

\* What _build_seed accepts as a seed, and the two calls without a payload.
Seed ==
  [kind : {"response"},
   value : [status : Range(Statuses), request_id : Int, payload_bytes : Nat, payload : Nat]]
  \cup [kind : {"event"}, value : [node_id : Int, event : DOMAIN EventCodes, sequence : Int]]
  \cup [kind : {"commit_result"},
        value : [base_revision : Int, target_revision : Int,
                 outcome : DOMAIN Outcomes, reason : DOMAIN Reasons]]
  \cup [kind : {"create", "dispose"}, value : {<<>>}]

ASSUME SeedAssumption == Seeds \subseteq Seed

CallFields ==
  {"abi_version", "operation", "request_id", "surface_id", "caller_thread", "generation"}

\* A misuse replaces one primitive.
ASSUME MisuseAssumption == \A m \in Misuses : \E f \in CallFields : DOMAIN m = {f}

VARIABLES
  sent,      \* the seed under way, an option
  packet,    \* its bytes
  call,      \* the primitives of the call that carries it
  damages,   \* how many damages it has suffered
  answer     \* what the receiver makes of it

vars == <<sent, packet, call, damages, answer>>

NoPacket == [size |-> 0]
NoCall == [operation |-> 0]
NoAnswer == [code |-> "none yet"]

Init ==
  /\ sent = <<>>
  /\ packet = NoPacket
  /\ call = NoCall
  /\ damages = 0
  /\ answer = NoAnswer

-----------------------------------------------------------------------------
(* The sender. *)

\* What is sent in a JNI call, and not in the response to one.
InCall(kind) == kind # "response"
Framed(kind) == kind \in {"response", "event", "commit_result"}

\* A well-made call: the first surface id and the last request id and generation.
WellMade(operation) ==
  [abi_version |-> Version, operation |-> operation, request_id |-> MaxTransportId,
   surface_id |-> 1, caller_thread |-> "main",
   generation |-> IF operation = Operations.CREATE_SURFACE THEN 0 ELSE MaxTransportId]

CallFor(kind) ==
  CASE kind = "create" -> WellMade(Operations.CREATE_SURFACE)
    [] kind = "dispose" -> WellMade(Operations.DISPOSE_SURFACE)
    [] kind = "response" -> NoCall
    [] OTHER -> WellMade(OperationOf(kind))

Send(seed) ==
  /\ sent = <<>>
  /\ sent' = <<seed>>
  /\ call' = CallFor(seed.kind)
  /\ LET encoded == IF Framed(seed.kind) THEN BuildSeed(seed.kind, seed.value)
                    ELSE [code |-> "none", value |-> NoPacket]
     IN IF encoded.code = "none"
        THEN packet' = encoded.value /\ UNCHANGED answer
        ELSE answer' = [code |-> encoded.code, encoder |-> TRUE] /\ UNCHANGED packet
  /\ UNCHANGED damages

-----------------------------------------------------------------------------
(* Damage. *)

UnderWay == sent # <<>> /\ answer = NoAnswer

\* Bit `k` of field `f`, which is `width` bits wide, inverted.
Inverted(f, value, width, k) ==
  LET bits == value % 2^width
      flipped == IF (bits \div 2^k) % 2 = 0 THEN bits + 2^k ELSE bits - 2^k
  IN IF f \in SignedFields /\ flipped >= 2^(width - 1) THEN flipped - 2^width ELSE flipped

\* The packets that differ from `p` in one bit of the fields of `layout`.
FlippedFields(fields, layout) ==
  UNION {{[fields EXCEPT ![f] = Inverted(f, @, layout[f], k)] : k \in 0..layout[f] - 1} :
           f \in DOMAIN layout}

BodyLayout(kind) == IF kind = "event" THEN EventLayout ELSE CommitLayout

\* The payload of a response is opaque; two of its bits stand for all of them.
OpaqueLayout(p) == [payload |-> IF p.size > ResponseHeader THEN 2 ELSE 0]

\* Bound: bits are not flipped until the operation is the one whose body is laid out differently
\* (three bits of it, and the operation of the call, for that body to be looked at).
SameBody(kind, p) ==
  p.operation \notin {OperationOf(other) : other \in {"event", "commit_result"} \ {kind}}

Flipped(kind, p) ==
  IF kind = "response" THEN FlippedFields(p, ResponseLayout) \cup FlippedFields(p, OpaqueLayout(p))
  ELSE {q \in FlippedFields(p, PayloadLayout) : SameBody(kind, q)}
       \cup {[p EXCEPT !.body = body] : body \in FlippedFields(p.body, BodyLayout(kind))}

Damage(p, c) ==
  /\ UnderWay /\ damages < MaxDamage
  /\ damages' = damages + 1
  /\ packet' = p /\ call' = c
  /\ UNCHANGED <<sent, answer>>

FlipBit ==
  UnderWay /\ Framed(sent[1].kind) /\ \E p \in Flipped(sent[1].kind, packet) : Damage(p, call)

\* Cutting off the end of a response takes its opaque payload along.
Resized(p, size) ==
  IF "payload" \in DOMAIN p /\ size <= ResponseHeader
  THEN [p EXCEPT !.size = size, !.payload = 0] ELSE [p EXCEPT !.size = size]

HeaderBytes == IF sent[1].kind = "response" THEN ResponseHeader ELSE PayloadHeader

CutOff ==
  /\ UnderWay /\ Framed(sent[1].kind)
  /\ \E size \in {packet.size - 1, HeaderBytes, HeaderBytes - 1} :
       size \in 0..packet.size - 1 /\ Damage(Resized(packet, size), call)

Append1 == UnderWay /\ Framed(sent[1].kind) /\ Damage(Resized(packet, packet.size + 1), call)

Misused(c, m) == [f \in CallFields |-> IF f \in DOMAIN m THEN m[f] ELSE c[f]]

Misuse ==
  /\ UnderWay /\ InCall(sent[1].kind)
  /\ \E m \in Misuses : Misused(call, m) # call /\ Damage(packet, Misused(call, m))

-----------------------------------------------------------------------------
(* The receiver. *)

WithPayload(c, p) ==
  [abi_version |-> c.abi_version, operation |-> c.operation, request_id |-> c.request_id,
   surface_id |-> c.surface_id, caller_thread |-> c.caller_thread,
   generation |-> c.generation, payload |-> p]

DeliverCall ==
  /\ UnderWay /\ InCall(sent[1].kind)
  /\ answer' = Admit(WithPayload(call, packet))
  /\ UNCHANGED <<sent, packet, call, damages>>

DeliverResponse ==
  /\ UnderWay /\ ~InCall(sent[1].kind)
  /\ answer' = Decode("response", packet)
  /\ UNCHANGED <<sent, packet, call, damages>>

\* The next packet.
Forget ==
  /\ answer # NoAnswer
  /\ sent' = <<>> /\ packet' = NoPacket /\ call' = NoCall
  /\ damages' = 0 /\ answer' = NoAnswer

Next ==
  \/ \E seed \in Seeds : Send(seed)
  \/ FlipBit \/ CutOff \/ Append1 \/ Misuse
  \/ DeliverCall \/ DeliverResponse \/ Forget

Spec == Init /\ [][Next]_vars

-----------------------------------------------------------------------------
(* Properties. *)

InField(f, value, width) ==
  IF f \in SignedFields THEN value \in -(2^(width - 1))..2^(width - 1) - 1
  ELSE value \in 0..2^width - 1

Fits(fields, layout) == \A f \in DOMAIN layout : InField(f, fields[f], layout[f])

Kind == sent[1].kind
Delivered == sent # <<>> /\ answer # NoAnswer /\ "encoder" \notin DOMAIN answer
Accepted == Delivered /\ answer.code \in {"none", "OK"}

\* What is under way has the contract's layout: every field fits its width, whatever was
\* encoded into it.  Receivers answer with registered codes only.
TypeOK ==
  /\ damages \in 0..MaxDamage
  /\ sent # <<>> /\ packet # NoPacket =>
       IF Kind = "response" THEN Fits(packet, ResponseLayout)
       ELSE Fits(packet, PayloadLayout) /\ Fits(packet.body, BodyLayout(Kind))
  /\ Delivered => answer.code \in IF InCall(Kind) THEN DOMAIN Statuses ELSE DecoderErrors \cup {"none"}

\* contracts/android-ffi/v1/README.md: a packet fails with a registered code or is, byte for
\* byte, the encoding of the value it is decoded to; what a call carries belongs to the
\* call's operation.  A packet that was not damaged is accepted, as what was sent, up to the
\* last identifier and revision.
AcceptedIsCanonical ==
  /\ Accepted /\ ~InCall(Kind) => Canonical(Kind, packet)
  /\ Accepted /\ InCall(Kind) =>
       IF KindOf(answer.operation) = "none" THEN packet.size = 0
       ELSE Canonical(KindOf(answer.operation), packet)
  /\ Delivered /\ damages = 0 =>
       /\ Accepted
       /\ Framed(Kind) =>
            (IF InCall(Kind) THEN answer.payload[1] ELSE answer.value) = sent[1].value

\* No single damage turns a commit result into another one that is accepted, except between
\* the two failures after mutation, which ADR-0004 treats alike; none lets a surface's call
\* pass as a create, or a create as a call of a surface.
OneDamageKeepsOutcome ==
  Accepted /\ InCall(Kind) /\ damages = 1 =>
    /\ answer.operation = "CREATE_SURFACE" <=> Kind = "create"
    /\ Kind = "commit_result" =>
         /\ answer.payload[1].base_revision = sent[1].value.base_revision
         /\ answer.payload[1].outcome = sent[1].value.outcome
=============================================================================
