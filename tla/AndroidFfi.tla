------------------------------ MODULE AndroidFfi ------------------------------
(***************************************************************************)
(* The Android FFI v1 contract: the codecs of scripts/android_ffi_frames.py *)
(* and android_ffi_bodies.py, and admit of check_android_ffi_fixtures.py.  *)
(*                                                                         *)
(* A packet is a record of its header's fields, its `size` in bytes, and   *)
(* what follows the header: a `body`, a record of the typed body's fields, *)
(* or an opaque `payload`.  Fields hold the numbers of the contract; the   *)
(* magic is 1 and the i64 and u32 fields are scaled down, with the limits  *)
(* in the same place: MaxTransportId is the largest value of its width.    *)
(*                                                                         *)
(* A decoder's checks are a sequence of <<failed, code>> in source order,  *)
(* of which the first that fails gives the code of the violation.          *)
(***************************************************************************)
EXTENDS Integers, Sequences, FiniteSetsExt, Functions

CONSTANTS
  IdBits,            \* width of the i64 fields
  MaxPayloadBytes    \* limits.max_payload_bytes

ASSUME FfiAssumption == IdBits \in Nat \ {0, 1} /\ MaxPayloadBytes \in Nat

-----------------------------------------------------------------------------
(* android_ffi_manifest.py: the registries and the layouts. *)

MaxTransportId == 2^(IdBits - 1) - 1

Operations ==
  [CREATE_SURFACE |-> 1, DISPOSE_SURFACE |-> 2, DISPATCH_EVENT |-> 3, REPORT_COMMIT_RESULT |-> 4]

Statuses ==
  [OK |-> 0, UNSUPPORTED_ABI |-> 100, UNKNOWN_OPERATION |-> 101, INVALID_ARGUMENT |-> 102,
   WRONG_THREAD |-> 103, PAYLOAD_TOO_LARGE |-> 104, INTERNAL_PANIC |-> 900]

EventCodes == [CLICK |-> 1]
Outcomes == [APPLIED |-> 1, REJECTED_BEFORE_MUTATION |-> 2, FAILED_AFTER_MUTATION |-> 3]
Reasons == [NONE |-> 0, HOST_VALIDATION |-> 1, HOST_UNAVAILABLE |-> 2, HOST_INTERNAL |-> 3]

Magic == 1
Version == 1
ResponseHeader == 32
PayloadHeader == 16
BodyBytes == 24

DecoderErrors ==
  {"TRUNCATED_HEADER", "INVALID_MAGIC", "UNSUPPORTED_ABI", "INVALID_HEADER_LENGTH",
   "UNKNOWN_STATUS", "INVALID_REQUEST_ID", "NONZERO_RESERVED", "PAYLOAD_TOO_LARGE",
   "PAYLOAD_LENGTH_MISMATCH", "TRUNCATED_PAYLOAD_HEADER", "INVALID_PAYLOAD_MAGIC",
   "UNSUPPORTED_PAYLOAD_VERSION", "PAYLOAD_OPERATION_MISMATCH", "NONZERO_PAYLOAD_RESERVED",
   "EMPTY_PAYLOAD_BODY", "INVALID_BODY_LENGTH", "INVALID_NODE_ID", "UNKNOWN_EVENT_CODE",
   "INVALID_EVENT_SEQUENCE", "NONZERO_BODY_FLAGS", "NONZERO_BODY_RESERVED",
   "INVALID_REVISION", "UNKNOWN_COMMIT_OUTCOME", "UNKNOWN_COMMIT_REASON",
   "INVALID_OUTCOME_REASON"}

\* layout: the width in bits of each field, and the fields that are signed.
ResponseLayout ==
  [magic |-> 4, abi_version |-> 4, header_bytes |-> 7, status |-> 11, payload_bytes |-> 7,
   request_id |-> IdBits, reserved |-> 4]
PayloadLayout ==
  [magic |-> 4, schema_version |-> 4, operation |-> 4, body_bytes |-> 7, reserved |-> 4]
EventLayout ==
  [node_id |-> IdBits, event_code |-> 4, flags |-> 4, sequence |-> IdBits, reserved |-> 4]
CommitLayout ==
  [base_revision |-> IdBits, target_revision |-> IdBits, outcome |-> 4, reason |-> 4, flags |-> 4]
SignedFields == {"status", "request_id", "node_id", "sequence", "base_revision", "target_revision"}

\* The limit of a payload can be written in its field.
ASSUME LimitAssumption == MaxPayloadBytes < 2^ResponseLayout.payload_bytes

-----------------------------------------------------------------------------
(* Codecs. *)

\* A code's name, "none" for an unregistered one.
NameOf(registry, code) ==
  IF code \in Range(registry) THEN CHOOSE name \in DOMAIN registry : registry[name] = code
  ELSE "none"

FirstViolation(checks) ==
  LET failed == {i \in DOMAIN checks : checks[i][1]}
  IN IF failed = {} THEN "none" ELSE checks[Min(failed)][2]

Coded(checks, value) == [code |-> FirstViolation(checks), value |-> value]

\* Mutant: bytes beyond the announced ones are accepted.
MismatchedIfShort(size, announced) == size < announced

\* The complete input is exactly what its header announces.
Mismatched(size, announced) == size # announced

ResponseEncoderChecks(status, request_id, payload_bytes) ==
  <<<<status \notin Range(Statuses), "UNKNOWN_STATUS">>,
    <<request_id \notin 0..MaxTransportId, "INVALID_REQUEST_ID">>,
    <<payload_bytes > MaxPayloadBytes, "PAYLOAD_TOO_LARGE">>>>

EncodeResponse(status, request_id, payload_bytes, payload) ==
  Coded(ResponseEncoderChecks(status, request_id, payload_bytes),
        [magic |-> Magic, abi_version |-> Version, header_bytes |-> ResponseHeader,
         status |-> status, payload_bytes |-> payload_bytes, request_id |-> request_id,
         reserved |-> 0, payload |-> payload, size |-> ResponseHeader + payload_bytes])

ResponseDecoderChecks(p) ==
  <<<<p.size < ResponseHeader, "TRUNCATED_HEADER">>,
    <<p.magic # Magic, "INVALID_MAGIC">>,
    <<p.abi_version # Version, "UNSUPPORTED_ABI">>,
    <<p.header_bytes # ResponseHeader, "INVALID_HEADER_LENGTH">>,
    <<p.status \notin Range(Statuses), "UNKNOWN_STATUS">>,
    <<p.request_id \notin 0..MaxTransportId, "INVALID_REQUEST_ID">>,
    <<p.reserved # 0, "NONZERO_RESERVED">>,
    <<p.payload_bytes > MaxPayloadBytes, "PAYLOAD_TOO_LARGE">>,
    <<Mismatched(p.size, p.header_bytes + p.payload_bytes), "PAYLOAD_LENGTH_MISMATCH">>>>

DecodeResponse(p) ==
  Coded(ResponseDecoderChecks(p),
        [status |-> p.status, request_id |-> p.request_id,
         payload_bytes |-> p.size - p.header_bytes, payload |-> p.payload])

PayloadEncoderChecks(operation) ==
  <<<<operation \notin {Operations.DISPATCH_EVENT, Operations.REPORT_COMMIT_RESULT},
      "PAYLOAD_OPERATION_MISMATCH">>,
    <<BodyBytes > MaxPayloadBytes - PayloadHeader, "PAYLOAD_TOO_LARGE">>>>

EncodeOperationPayload(operation, body) ==
  Coded(PayloadEncoderChecks(operation),
        [magic |-> Magic, schema_version |-> Version, operation |-> operation,
         body_bytes |-> BodyBytes, reserved |-> 0, body |-> body,
         size |-> PayloadHeader + BodyBytes])

PayloadDecoderChecks(expected_operation, p) ==
  <<<<p.size < PayloadHeader, "TRUNCATED_PAYLOAD_HEADER">>,
    <<p.magic # Magic, "INVALID_PAYLOAD_MAGIC">>,
    <<p.schema_version # Version, "UNSUPPORTED_PAYLOAD_VERSION">>,
    <<p.operation # expected_operation, "PAYLOAD_OPERATION_MISMATCH">>,
    <<p.reserved # 0, "NONZERO_PAYLOAD_RESERVED">>,
    <<p.body_bytes = 0, "EMPTY_PAYLOAD_BODY">>,
    <<p.body_bytes > MaxPayloadBytes - PayloadHeader, "PAYLOAD_TOO_LARGE">>,
    <<Mismatched(p.size, PayloadHeader + p.body_bytes), "PAYLOAD_LENGTH_MISMATCH">>>>

DecodeOperationPayload(expected_operation, p) ==
  Coded(PayloadDecoderChecks(expected_operation, p), p.body)

EventEncoderChecks(v) ==
  <<<<v.node_id \notin 1..MaxTransportId, "INVALID_NODE_ID">>,
    <<v.event \notin DOMAIN EventCodes, "UNKNOWN_EVENT_CODE">>,
    <<v.sequence \notin 1..MaxTransportId, "INVALID_EVENT_SEQUENCE">>>>

EncodeEvent(v) ==
  Coded(EventEncoderChecks(v),
        [node_id |-> v.node_id, event_code |-> EventCodes[v.event], flags |-> 0,
         sequence |-> v.sequence, reserved |-> 0])

EventDecoderChecks(b, bytes) ==
  <<<<bytes # BodyBytes, "INVALID_BODY_LENGTH">>,
    <<b.node_id \notin 1..MaxTransportId, "INVALID_NODE_ID">>,
    <<NameOf(EventCodes, b.event_code) = "none", "UNKNOWN_EVENT_CODE">>,
    <<b.flags # 0, "NONZERO_BODY_FLAGS">>,
    <<b.sequence \notin 1..MaxTransportId, "INVALID_EVENT_SEQUENCE">>,
    <<b.reserved # 0, "NONZERO_BODY_RESERVED">>>>

DecodeEvent(b, bytes) ==
  Coded(EventDecoderChecks(b, bytes),
        [node_id |-> b.node_id, event |-> NameOf(EventCodes, b.event_code),
         sequence |-> b.sequence])

\* Mutant: the last revision has a successor.
InvalidRevisionsPastLast(base, target) == base \notin 0..MaxTransportId \/ target # base + 1

InvalidRevisions(base, target) == base \notin 0..MaxTransportId - 1 \/ target # base + 1

\* Mutant: outcomes and reasons are checked one by one only.
AnyReason(outcome) == DOMAIN Reasons

\* ADR-0004's classification of a host's result.
AllowedReasons(outcome) ==
  CASE outcome = "APPLIED"                  -> {"NONE"}
    [] outcome = "REJECTED_BEFORE_MUTATION" -> {"HOST_VALIDATION"}
    [] outcome = "FAILED_AFTER_MUTATION"    -> {"HOST_UNAVAILABLE", "HOST_INTERNAL"}
    [] OTHER                                -> {}

CommitDecoderChecks(b, bytes) ==
  LET outcome == NameOf(Outcomes, b.outcome)
      reason == NameOf(Reasons, b.reason)
  IN <<<<bytes # BodyBytes, "INVALID_BODY_LENGTH">>,
       <<InvalidRevisions(b.base_revision, b.target_revision), "INVALID_REVISION">>,
       <<outcome = "none", "UNKNOWN_COMMIT_OUTCOME">>,
       <<reason = "none", "UNKNOWN_COMMIT_REASON">>,
       <<b.flags # 0, "NONZERO_BODY_FLAGS">>,
       <<reason \notin AllowedReasons(outcome), "INVALID_OUTCOME_REASON">>>>

DecodeCommitResult(b, bytes) ==
  Coded(CommitDecoderChecks(b, bytes),
        [base_revision |-> b.base_revision, target_revision |-> b.target_revision,
         outcome |-> NameOf(Outcomes, b.outcome), reason |-> NameOf(Reasons, b.reason)])

PackedResult(v) ==
  [base_revision |-> v.base_revision, target_revision |-> v.target_revision,
   outcome |-> Outcomes[v.outcome], reason |-> Reasons[v.reason], flags |-> 0]

\* The packed body is decoded once more, which checks the outcome's reason.
CommitEncoderChecks(v) ==
  <<<<InvalidRevisions(v.base_revision, v.target_revision), "INVALID_REVISION">>,
    <<TRUE, DecodeCommitResult(PackedResult(v), BodyBytes).code>>>>

EncodeCommitResult(v) == Coded(CommitEncoderChecks(v), PackedResult(v))

-----------------------------------------------------------------------------
(* check_android_ffi_mutations.py: seeds and canonical re-encoding. *)

OperationOf(kind) ==
  CASE kind = "event" -> Operations.DISPATCH_EVENT
    [] kind = "commit_result" -> Operations.REPORT_COMMIT_RESULT

EncodeBody(kind, v) == IF kind = "event" THEN EncodeEvent(v) ELSE EncodeCommitResult(v)
DecodeBody(kind, b, bytes) ==
  IF kind = "event" THEN DecodeEvent(b, bytes) ELSE DecodeCommitResult(b, bytes)

\* _build_seed, also used to encode a decoded value again.
BuildSeed(kind, v) ==
  IF kind = "response"
  THEN EncodeResponse(v.status, v.request_id, v.payload_bytes, v.payload)
  ELSE LET body == EncodeBody(kind, v)
       IN IF body.code # "none" THEN body
          ELSE EncodeOperationPayload(OperationOf(kind), body.value)

\* The header, then the body it frames.
Decode(kind, p) ==
  IF kind = "response" THEN DecodeResponse(p)
  ELSE LET outer == DecodeOperationPayload(OperationOf(kind), p)
       IN IF outer.code # "none" THEN outer
          ELSE DecodeBody(kind, outer.value, p.size - PayloadHeader)

\* _decode_canonical: an accepted packet is the encoding of its value, and no other.
Canonical(kind, p) ==
  LET decoded == Decode(kind, p)
  IN decoded.code = "none" => BuildSeed(kind, decoded.value) = [code |-> "none", value |-> p]

-----------------------------------------------------------------------------
(* Admission of a JNI call. *)

TransportId(id) == id \in 1..MaxTransportId

\* A create call has no handle yet; every other one names a generation.
ValidGeneration(operation, generation) ==
  IF operation = "CREATE_SURFACE" THEN generation = 0 ELSE TransportId(generation)

KindOf(operation) ==
  CASE operation = "DISPATCH_EVENT" -> "event"
    [] operation = "REPORT_COMMIT_RESULT" -> "commit_result"
    [] OTHER -> "none"

\* The payload belongs to the operation: none, or one with the operation's typed body.
ValidPayload(operation, payload) ==
  IF KindOf(operation) = "none" THEN payload.size = 0
  ELSE payload.size # 0 /\ Decode(KindOf(operation), payload).code = "none"

\* The checks of admit(call), for a call with all its fields; a rejection's code is its status's.
AdmissionChecks(call) ==
  LET operation == NameOf(Operations, call.operation)
  IN <<<<call.abi_version # Version, "UNSUPPORTED_ABI">>,
       <<call.caller_thread # "main", "WRONG_THREAD">>,
       <<operation = "none", "UNKNOWN_OPERATION">>,
       <<~TransportId(call.request_id) \/ ~TransportId(call.surface_id), "INVALID_ARGUMENT">>,
       <<~ValidGeneration(operation, call.generation), "INVALID_ARGUMENT">>,
       <<call.payload.size > MaxPayloadBytes, "PAYLOAD_TOO_LARGE">>,
       <<~ValidPayload(operation, call.payload), "INVALID_ARGUMENT">>>>

Admit(call) ==
  LET operation == NameOf(Operations, call.operation)
      code == FirstViolation(AdmissionChecks(call))
  IN IF code # "none" THEN [code |-> code]
     ELSE [code |-> "OK", operation |-> operation, request_id |-> call.request_id,
           surface_id |-> call.surface_id, payload_bytes |-> call.payload.size,
           generation |-> IF operation = "CREATE_SURFACE" THEN <<>> ELSE <<call.generation>>,
           payload |-> IF KindOf(operation) = "none" THEN <<>>
                       ELSE <<Decode(KindOf(operation), call.payload).value>>]
=============================================================================
