----------------------------- MODULE MCAndroidFfi -----------------------------
\* Bounds: identifiers of five bits, and the seeds and misuses below.
EXTENDS AndroidFfiSystem

Response(status, request_id, bytes, payload) ==
  [kind |-> "response", value |-> [status |-> Statuses[status], request_id |-> request_id,
                                   payload_bytes |-> bytes, payload |-> payload]]
Click(node_id, sequence) ==
  [kind |-> "event", value |-> [node_id |-> node_id, event |-> "CLICK", sequence |-> sequence]]
Result(base, outcome, reason) ==
  [kind |-> "commit_result", value |-> [base_revision |-> base, target_revision |-> base + 1,
                                        outcome |-> outcome, reason |-> reason]]

\* The seven packets of mutation-campaign.json, the last identifiers and revisions and
\* those beyond them, an unpaired outcome, and the two calls without a payload.
MCSeeds ==
  {Response("OK", 1, 0, 0), Response("INVALID_ARGUMENT", 9, 2, 3),
   Response("INTERNAL_PANIC", MaxTransportId, MaxPayloadBytes, 1),
   Response("OK", 0, MaxPayloadBytes + 1, 0), Response("OK", -1, 0, 0),
   Click(12, 1), Click(MaxTransportId, MaxTransportId), Click(0, 1), Click(1, 0),
   Result(4, "APPLIED", "NONE"), Result(4, "REJECTED_BEFORE_MUTATION", "HOST_VALIDATION"),
   Result(4, "FAILED_AFTER_MUTATION", "HOST_UNAVAILABLE"),
   Result(4, "FAILED_AFTER_MUTATION", "HOST_INTERNAL"),
   Result(MaxTransportId - 1, "APPLIED", "NONE"), Result(MaxTransportId, "APPLIED", "NONE"),
   Result(4, "APPLIED", "HOST_VALIDATION"),
   [kind |-> "create", value |-> <<>>], [kind |-> "dispose", value |-> <<>>]}

MCMisuses ==
  {[abi_version |-> 2], [caller_thread |-> "worker"]}
  \cup [{"operation"} -> 0..5]
  \cup UNION {[{f} -> {-1, 0, 1, MaxTransportId}] : f \in {"request_id", "surface_id", "generation"}}
=============================================================================
