--------------------------- MODULE AndroidFfiProofs ---------------------------
(***************************************************************************)
(* The Android FFI for every width of its identifiers, every payload limit *)
(* and any number of damages.  First the codecs: each decoder is the       *)
(* conjunction of its checks, so an accepted packet has no field that its  *)
(* encoding leaves open.  Then the packet on its way: FfiInv says how what *)
(* arrives relates to what was sent after no damage and after one.  Last   *)
(* its typing: InLayout, every field within its width, survives any number *)
(* of damages, which gives FfiTypeCorrect.                                 *)
(***************************************************************************)
EXTENDS AndroidFfiSystem, FiniteSetTheorems, WellFoundedInduction, TLAPS

\* Numbers are well ordered.
LEMMA MinIsLeast ==
  ASSUME NEW S \in SUBSET Nat, S # {}
  PROVE  Min(S) \in S /\ \A y \in S : Min(S) <= y
<1>1. \E x \in S : \A y \in S : x <= y
  <2>1. PICK x \in S : \A y \in S : ~(<<y, x>> \in OpToRel(<, Nat))
    BY NatLessThanWellFounded, WFMin
  <2>2. \A y \in S : ~(y < x)
    BY <2>1 DEF OpToRel
  <2>3. QED
    BY <2>2
<1>2. QED
  BY <1>1 DEF Min

\* The first check that fails, and there is one unless all pass.
LEMMA FirstOfChecks ==
  ASSUME NEW n \in Nat, NEW checks, DOMAIN checks = 1..n,
         \A i \in 1..n : checks[i][2] # "none"
  PROVE  FirstViolation(checks) = "none" <=> \A i \in 1..n : ~checks[i][1]
<1> DEFINE failed == {i \in DOMAIN checks : checks[i][1]}
<1>1. failed = {} <=> \A i \in 1..n : ~checks[i][1]
  OBVIOUS
<1>2. failed # {} => Min(failed) \in 1..n
  BY MinIsLeast
<1>3. QED
  BY <1>1, <1>2 DEF FirstViolation

\* The same, with the checks one by one, for the lengths of the contract's decoders.
LEMMA AllChecksPass ==
  ASSUME NEW checks, \A i \in DOMAIN checks : checks[i][2] # "none"
  PROVE  LET passes == FirstViolation(checks) = "none"
             ok(i) == ~checks[i][1]
         IN /\ DOMAIN checks = 1..2 => (passes <=> ok(1) /\ ok(2))
            /\ DOMAIN checks = 1..3 => (passes <=> ok(1) /\ ok(2) /\ ok(3))
            /\ DOMAIN checks = 1..6 =>
                 (passes <=> ok(1) /\ ok(2) /\ ok(3) /\ ok(4) /\ ok(5) /\ ok(6))
            /\ DOMAIN checks = 1..7 =>
                 (passes <=> ok(1) /\ ok(2) /\ ok(3) /\ ok(4) /\ ok(5) /\ ok(6) /\ ok(7))
            /\ DOMAIN checks = 1..8 =>
                 (passes <=> /\ ok(1) /\ ok(2) /\ ok(3) /\ ok(4)
                             /\ ok(5) /\ ok(6) /\ ok(7) /\ ok(8))
            /\ DOMAIN checks = 1..9 =>
                 (passes <=> /\ ok(1) /\ ok(2) /\ ok(3) /\ ok(4) /\ ok(5)
                             /\ ok(6) /\ ok(7) /\ ok(8) /\ ok(9))
<1>1. ASSUME NEW n \in Nat, DOMAIN checks = 1..n
      PROVE  FirstViolation(checks) = "none" <=> \A i \in 1..n : ~checks[i][1]
  BY <1>1, FirstOfChecks
<1>2. (\A i \in 1..2 : ~checks[i][1]) <=> (~checks[1][1] /\ ~checks[2][1])
  OBVIOUS
<1>3. (\A i \in 1..3 : ~checks[i][1]) <=> (~checks[1][1] /\ ~checks[2][1] /\ ~checks[3][1])
  OBVIOUS
<1>4. (\A i \in 1..6 : ~checks[i][1]) <=>
        /\ ~checks[1][1] /\ ~checks[2][1] /\ ~checks[3][1]
        /\ ~checks[4][1] /\ ~checks[5][1] /\ ~checks[6][1]
  OBVIOUS
<1>5. (\A i \in 1..7 : ~checks[i][1]) <=>
        /\ ~checks[1][1] /\ ~checks[2][1] /\ ~checks[3][1] /\ ~checks[4][1]
        /\ ~checks[5][1] /\ ~checks[6][1] /\ ~checks[7][1]
  OBVIOUS
<1>6. (\A i \in 1..8 : ~checks[i][1]) <=>
        /\ ~checks[1][1] /\ ~checks[2][1] /\ ~checks[3][1] /\ ~checks[4][1]
        /\ ~checks[5][1] /\ ~checks[6][1] /\ ~checks[7][1] /\ ~checks[8][1]
  OBVIOUS
<1>7. (\A i \in 1..9 : ~checks[i][1]) <=>
        /\ ~checks[1][1] /\ ~checks[2][1] /\ ~checks[3][1] /\ ~checks[4][1] /\ ~checks[5][1]
        /\ ~checks[6][1] /\ ~checks[7][1] /\ ~checks[8][1] /\ ~checks[9][1]
  OBVIOUS
<1>8. QED
  BY <1>1, <1>2, <1>3, <1>4, <1>5, <1>6, <1>7

-----------------------------------------------------------------------------
(* The codecs: what a decoder accepts. *)

LEMMA ResponseEncoded ==
  ASSUME NEW status, NEW request_id, NEW payload_bytes
  PROVE  FirstViolation(ResponseEncoderChecks(status, request_id, payload_bytes)) = "none" <=>
           /\ status \in Range(Statuses)
           /\ request_id \in 0..MaxTransportId
           /\ ~(payload_bytes > MaxPayloadBytes)
<1> DEFINE checks == ResponseEncoderChecks(status, request_id, payload_bytes)
<1>1. DOMAIN checks = 1..3 /\ \A i \in 1..3 : checks[i][2] # "none"
  BY DEF ResponseEncoderChecks
<1>2. FirstViolation(checks) = "none" <=> ~checks[1][1] /\ ~checks[2][1] /\ ~checks[3][1]
  <2> HIDE DEF checks
  <2>1. QED
    BY <1>1, AllChecksPass
<1>3. QED
  BY <1>2 DEF ResponseEncoderChecks

LEMMA ResponseDecoded ==
  ASSUME NEW p
  PROVE  FirstViolation(ResponseDecoderChecks(p)) = "none" <=>
           /\ ~(p.size < ResponseHeader)
           /\ p.magic = Magic /\ p.abi_version = Version
           /\ p.header_bytes = ResponseHeader
           /\ p.status \in Range(Statuses)
           /\ p.request_id \in 0..MaxTransportId
           /\ p.reserved = 0
           /\ ~(p.payload_bytes > MaxPayloadBytes)
           /\ p.size = p.header_bytes + p.payload_bytes
<1> DEFINE checks == ResponseDecoderChecks(p)
<1>1. DOMAIN checks = 1..9 /\ \A i \in 1..9 : checks[i][2] # "none"
  BY DEF ResponseDecoderChecks
<1>2. FirstViolation(checks) = "none" <=>
        /\ ~checks[1][1] /\ ~checks[2][1] /\ ~checks[3][1] /\ ~checks[4][1] /\ ~checks[5][1]
        /\ ~checks[6][1] /\ ~checks[7][1] /\ ~checks[8][1] /\ ~checks[9][1]
  <2> HIDE DEF checks
  <2>1. QED
    BY <1>1, AllChecksPass
<1>3. QED
  BY <1>2 DEF ResponseDecoderChecks, Mismatched

LEMMA PayloadEncoded ==
  ASSUME NEW operation
  PROVE  FirstViolation(PayloadEncoderChecks(operation)) = "none" <=>
           /\ operation \in {Operations.DISPATCH_EVENT, Operations.REPORT_COMMIT_RESULT}
           /\ ~(BodyBytes > MaxPayloadBytes - PayloadHeader)
<1> DEFINE checks == PayloadEncoderChecks(operation)
<1>1. DOMAIN checks = 1..2 /\ \A i \in 1..2 : checks[i][2] # "none"
  BY DEF PayloadEncoderChecks
<1>2. FirstViolation(checks) = "none" <=> ~checks[1][1] /\ ~checks[2][1]
  <2> HIDE DEF checks
  <2>1. QED
    BY <1>1, AllChecksPass
<1>3. QED
  BY <1>2 DEF PayloadEncoderChecks

LEMMA PayloadDecoded ==
  ASSUME NEW operation, NEW p
  PROVE  FirstViolation(PayloadDecoderChecks(operation, p)) = "none" <=>
           /\ ~(p.size < PayloadHeader)
           /\ p.magic = Magic /\ p.schema_version = Version
           /\ p.operation = operation
           /\ p.reserved = 0
           /\ p.body_bytes # 0
           /\ ~(p.body_bytes > MaxPayloadBytes - PayloadHeader)
           /\ p.size = PayloadHeader + p.body_bytes
<1> DEFINE checks == PayloadDecoderChecks(operation, p)
<1>1. DOMAIN checks = 1..8 /\ \A i \in 1..8 : checks[i][2] # "none"
  BY DEF PayloadDecoderChecks
<1>2. FirstViolation(checks) = "none" <=>
        /\ ~checks[1][1] /\ ~checks[2][1] /\ ~checks[3][1] /\ ~checks[4][1]
        /\ ~checks[5][1] /\ ~checks[6][1] /\ ~checks[7][1] /\ ~checks[8][1]
  <2> HIDE DEF checks
  <2>1. QED
    BY <1>1, AllChecksPass
<1>3. QED
  BY <1>2 DEF PayloadDecoderChecks, Mismatched

LEMMA EventEncoded ==
  ASSUME NEW v
  PROVE  FirstViolation(EventEncoderChecks(v)) = "none" <=>
           /\ v.node_id \in 1..MaxTransportId
           /\ v.event \in DOMAIN EventCodes
           /\ v.sequence \in 1..MaxTransportId
<1> DEFINE checks == EventEncoderChecks(v)
<1>1. DOMAIN checks = 1..3 /\ \A i \in 1..3 : checks[i][2] # "none"
  BY DEF EventEncoderChecks
<1>2. FirstViolation(checks) = "none" <=> ~checks[1][1] /\ ~checks[2][1] /\ ~checks[3][1]
  <2> HIDE DEF checks
  <2>1. QED
    BY <1>1, AllChecksPass
<1>3. QED
  BY <1>2 DEF EventEncoderChecks

LEMMA EventDecoded ==
  ASSUME NEW b, NEW bytes
  PROVE  FirstViolation(EventDecoderChecks(b, bytes)) = "none" <=>
           /\ bytes = BodyBytes
           /\ b.node_id \in 1..MaxTransportId
           /\ NameOf(EventCodes, b.event_code) # "none"
           /\ b.flags = 0
           /\ b.sequence \in 1..MaxTransportId
           /\ b.reserved = 0
<1> DEFINE checks == EventDecoderChecks(b, bytes)
<1>1. DOMAIN checks = 1..6 /\ \A i \in 1..6 : checks[i][2] # "none"
  BY DEF EventDecoderChecks
<1>2. FirstViolation(checks) = "none" <=>
        /\ ~checks[1][1] /\ ~checks[2][1] /\ ~checks[3][1]
        /\ ~checks[4][1] /\ ~checks[5][1] /\ ~checks[6][1]
  <2> HIDE DEF checks
  <2>1. QED
    BY <1>1, AllChecksPass
<1>3. QED
  BY <1>2 DEF EventDecoderChecks

LEMMA CommitDecoded ==
  ASSUME NEW b, NEW bytes
  PROVE  FirstViolation(CommitDecoderChecks(b, bytes)) = "none" <=>
           /\ bytes = BodyBytes
           /\ ~InvalidRevisions(b.base_revision, b.target_revision)
           /\ NameOf(Outcomes, b.outcome) # "none"
           /\ NameOf(Reasons, b.reason) # "none"
           /\ b.flags = 0
           /\ NameOf(Reasons, b.reason) \in AllowedReasons(NameOf(Outcomes, b.outcome))
<1> DEFINE checks == CommitDecoderChecks(b, bytes)
<1>1. DOMAIN checks = 1..6 /\ \A i \in 1..6 : checks[i][2] # "none"
  BY DEF CommitDecoderChecks
<1>2. FirstViolation(checks) = "none" <=>
        /\ ~checks[1][1] /\ ~checks[2][1] /\ ~checks[3][1]
        /\ ~checks[4][1] /\ ~checks[5][1] /\ ~checks[6][1]
  <2> HIDE DEF checks
  <2>1. QED
    BY <1>1, AllChecksPass
<1>3. QED
  BY <1>2 DEF CommitDecoderChecks

\* The revisions are checked once by the encoder and once more when it decodes the body.
LEMMA CommitEncoded ==
  ASSUME NEW v
  PROVE  FirstViolation(CommitEncoderChecks(v)) = "none" <=>
           DecodeCommitResult(PackedResult(v), BodyBytes).code = "none"
<1> DEFINE checks == CommitEncoderChecks(v)
           decoded == DecodeCommitResult(PackedResult(v), BodyBytes).code
           failed == {i \in DOMAIN checks : checks[i][1]}
<1>1. /\ DOMAIN checks = 1..2
      /\ checks[1][1] <=> InvalidRevisions(v.base_revision, v.target_revision)
      /\ checks[1][2] = "INVALID_REVISION" /\ checks[2][1] /\ checks[2][2] = decoded
  BY DEF CommitEncoderChecks
<1>2. InvalidRevisions(v.base_revision, v.target_revision) => decoded # "none"
  BY CommitDecoded DEF DecodeCommitResult, Coded, PackedResult
<1> HIDE DEF checks, decoded
<1>3. 2 \in failed /\ Min(failed) \in failed /\ \A i \in failed : Min(failed) <= i
  BY <1>1, MinIsLeast
<1>4. Min(failed) = IF InvalidRevisions(v.base_revision, v.target_revision) THEN 1 ELSE 2
  BY <1>1, <1>3
<1>5. FirstViolation(checks) = checks[Min(failed)][2]
  BY <1>3 DEF FirstViolation
<1>6. QED
  BY <1>1, <1>2, <1>4, <1>5 DEF checks, decoded

-----------------------------------------------------------------------------
(* Names and codes. *)

LEMMA NameOfCode ==
  ASSUME NEW registry, NEW code, NameOf(registry, code) # "none"
  PROVE  NameOf(registry, code) \in DOMAIN registry /\ registry[NameOf(registry, code)] = code
  BY DEF NameOf, Range

LEMMA CodeOfName ==
  ASSUME NEW registry, NEW name \in DOMAIN registry,
         \A other \in DOMAIN registry : registry[other] = registry[name] => other = name
  PROVE  NameOf(registry, registry[name]) = name
  BY DEF NameOf, Range

\* Every registry of the contract gives each name a code of its own, and none the name "none".
LEMMA CodesAreUnique ==
  \A registry \in {EventCodes, Outcomes, Reasons, Operations} :
    /\ "none" \notin DOMAIN registry
    /\ \A name \in DOMAIN registry : NameOf(registry, registry[name]) = name
<1>1. ASSUME NEW registry \in {EventCodes, Outcomes, Reasons, Operations},
             NEW name \in DOMAIN registry, NEW other \in DOMAIN registry,
             registry[other] = registry[name]
      PROVE  other = name
  BY <1>1 DEF EventCodes, Outcomes, Reasons, Operations
<1>2. ASSUME NEW registry \in {EventCodes, Outcomes, Reasons, Operations}
      PROVE  "none" \notin DOMAIN registry
  BY DEF EventCodes, Outcomes, Reasons, Operations
<1>3. QED
  BY <1>1, <1>2, CodeOfName

-----------------------------------------------------------------------------
(* What is accepted is canonical: the packet of a kind, whatever its fields hold. *)

ResponsePacket ==
  [magic : Int, abi_version : Int, header_bytes : Int, status : Int, payload_bytes : Int,
   request_id : Int, reserved : Int, payload : Int, size : Int]
PayloadPacket(Body) ==
  [magic : Int, schema_version : Int, operation : Int, body_bytes : Int, reserved : Int,
   body : Body, size : Int]
EventBody == [node_id : Int, event_code : Int, flags : Int, sequence : Int, reserved : Int]
CommitBody ==
  [base_revision : Int, target_revision : Int, outcome : Int, reason : Int, flags : Int]

LEMMA ResponseCanonical ==
  ASSUME NEW p \in ResponsePacket
  PROVE  Canonical("response", p)
<1> SUFFICES ASSUME DecodeResponse(p).code = "none"
             PROVE  LET v == DecodeResponse(p).value
                    IN EncodeResponse(v.status, v.request_id, v.payload_bytes, v.payload)
                         = [code |-> "none", value |-> p]
  BY DEF Canonical, Decode, BuildSeed
<1> DEFINE v == DecodeResponse(p).value
<1>1. /\ p.magic = Magic /\ p.abi_version = Version /\ p.header_bytes = ResponseHeader
      /\ p.status \in Range(Statuses) /\ p.request_id \in 0..MaxTransportId /\ p.reserved = 0
      /\ ~(p.payload_bytes > MaxPayloadBytes) /\ p.size = p.header_bytes + p.payload_bytes
  BY ResponseDecoded DEF DecodeResponse, Coded
<1>2. /\ v.status = p.status /\ v.request_id = p.request_id /\ v.payload = p.payload
      /\ v.payload_bytes = p.payload_bytes
  BY <1>1 DEF DecodeResponse, Coded, ResponsePacket
<1>3. FirstViolation(ResponseEncoderChecks(p.status, p.request_id, p.payload_bytes)) = "none"
  BY <1>1, ResponseEncoded
<1>4. p = [magic |-> Magic, abi_version |-> Version, header_bytes |-> ResponseHeader,
           status |-> p.status, payload_bytes |-> p.payload_bytes, request_id |-> p.request_id,
           reserved |-> 0, payload |-> p.payload, size |-> ResponseHeader + p.payload_bytes]
  BY <1>1 DEF ResponsePacket
<1> HIDE DEF v
<1>5. EncodeResponse(v.status, v.request_id, v.payload_bytes, v.payload)
        = [code |-> "none", value |-> p]
  BY <1>2, <1>3, <1>4 DEF EncodeResponse, Coded
<1>6. QED
  BY <1>5 DEF v

\* An accepted body is the encoding of its value.
LEMMA EventBodyCanonical ==
  ASSUME NEW b \in EventBody, NEW bytes, DecodeEvent(b, bytes).code = "none"
  PROVE  bytes = BodyBytes /\ EncodeEvent(DecodeEvent(b, bytes).value) = [code |-> "none", value |-> b]
<1> DEFINE v == DecodeEvent(b, bytes).value
<1>1. /\ bytes = BodyBytes /\ b.node_id \in 1..MaxTransportId
      /\ NameOf(EventCodes, b.event_code) # "none"
      /\ b.flags = 0 /\ b.sequence \in 1..MaxTransportId /\ b.reserved = 0
  BY EventDecoded DEF DecodeEvent, Coded
<1>2. /\ v.node_id = b.node_id /\ v.sequence = b.sequence
      /\ v.event \in DOMAIN EventCodes /\ EventCodes[v.event] = b.event_code
  BY <1>1, NameOfCode DEF DecodeEvent, Coded
<1> HIDE DEF v
<1>3. FirstViolation(EventEncoderChecks(v)) = "none"
  BY <1>1, <1>2, EventEncoded
<1>4. b = [node_id |-> v.node_id, event_code |-> EventCodes[v.event], flags |-> 0,
           sequence |-> v.sequence, reserved |-> 0]
  BY <1>1, <1>2 DEF EventBody
<1>5. EncodeEvent(v) = [code |-> "none", value |-> b]
  BY <1>3, <1>4 DEF EncodeEvent, Coded
<1>6. QED
  BY <1>1, <1>5 DEF v

LEMMA CommitBodyCanonical ==
  ASSUME NEW b \in CommitBody, NEW bytes, DecodeCommitResult(b, bytes).code = "none"
  PROVE  /\ bytes = BodyBytes
         /\ EncodeCommitResult(DecodeCommitResult(b, bytes).value) = [code |-> "none", value |-> b]
<1> DEFINE v == DecodeCommitResult(b, bytes).value
<1>1. /\ bytes = BodyBytes /\ b.flags = 0
      /\ NameOf(Outcomes, b.outcome) # "none" /\ NameOf(Reasons, b.reason) # "none"
  BY CommitDecoded DEF DecodeCommitResult, Coded
<1>2. /\ v.base_revision = b.base_revision /\ v.target_revision = b.target_revision
      /\ Outcomes[v.outcome] = b.outcome /\ Reasons[v.reason] = b.reason
  BY <1>1, NameOfCode DEF DecodeCommitResult, Coded
<1> HIDE DEF v
<1>3. PackedResult(v) = b
  BY <1>1, <1>2 DEF PackedResult, CommitBody
<1>4. FirstViolation(CommitEncoderChecks(v)) = "none"
  BY <1>1, <1>3, CommitEncoded
<1>5. EncodeCommitResult(v) = [code |-> "none", value |-> b]
  BY <1>3, <1>4 DEF EncodeCommitResult, Coded
<1>6. QED
  BY <1>1, <1>5 DEF v

LEMMA PayloadCanonical ==
  ASSUME NEW kind \in {"event", "commit_result"}, NEW Body, NEW p \in PayloadPacket(Body),
         \A bytes : DecodeBody(kind, p.body, bytes).code = "none" =>
           /\ bytes = BodyBytes
           /\ EncodeBody(kind, DecodeBody(kind, p.body, bytes).value)
                = [code |-> "none", value |-> p.body]
  PROVE  Canonical(kind, p)
<1> DEFINE bytes == p.size - PayloadHeader
           operation == OperationOf(kind)
           v == DecodeBody(kind, p.body, bytes).value
           decoded == Decode(kind, p)
<1>1. operation \in {Operations.DISPATCH_EVENT, Operations.REPORT_COMMIT_RESULT}
  BY DEF OperationOf
<1>2. DecodeOperationPayload(operation, p).value = p.body
  BY DEF DecodeOperationPayload, Coded
<1>3. decoded = IF DecodeOperationPayload(operation, p).code # "none"
                THEN DecodeOperationPayload(operation, p) ELSE DecodeBody(kind, p.body, bytes)
  BY <1>2 DEF Decode
<1> HIDE DEF decoded, operation
<1> SUFFICES ASSUME decoded.code = "none"
             PROVE  BuildSeed(kind, decoded.value) = [code |-> "none", value |-> p]
  BY DEF Canonical, decoded
<1>4. FirstViolation(PayloadDecoderChecks(operation, p)) = "none"
  BY <1>3 DEF DecodeOperationPayload, Coded
<1>5. /\ p.magic = Magic /\ p.schema_version = Version /\ p.operation = operation
      /\ p.reserved = 0 /\ ~(p.body_bytes > MaxPayloadBytes - PayloadHeader)
      /\ p.size = PayloadHeader + p.body_bytes
  BY <1>4, PayloadDecoded
<1>6. decoded = DecodeBody(kind, p.body, bytes)
  BY <1>3, <1>4 DEF DecodeOperationPayload, Coded
<1>7. bytes = BodyBytes /\ EncodeBody(kind, v) = [code |-> "none", value |-> p.body]
  BY <1>6
<1>8. p.body_bytes = BodyBytes /\ p.size = PayloadHeader + BodyBytes
  BY <1>5, <1>7 DEF PayloadPacket, PayloadHeader, BodyBytes
<1>9. FirstViolation(PayloadEncoderChecks(operation)) = "none"
  BY <1>1, <1>5, <1>8, PayloadEncoded
<1>10. p = [magic |-> Magic, schema_version |-> Version, operation |-> operation,
            body_bytes |-> BodyBytes, reserved |-> 0, body |-> p.body,
            size |-> PayloadHeader + BodyBytes]
  BY <1>5, <1>8 DEF PayloadPacket
<1>11. EncodeOperationPayload(operation, p.body) = [code |-> "none", value |-> p]
  BY <1>9, <1>10 DEF EncodeOperationPayload, Coded
<1>12. QED
  BY <1>6, <1>7, <1>11 DEF BuildSeed, operation

\* The packets of a kind of seed, with anything in their fields.
Packets(kind) ==
  CASE kind = "response" -> ResponsePacket
    [] kind = "event" -> PayloadPacket(EventBody)
    [] kind = "commit_result" -> PayloadPacket(CommitBody)
    [] OTHER -> {NoPacket}

Kinds == {"response", "event", "commit_result"}

\* A packet that is decoded at all is the encoding of the value it is decoded to, whatever
\* integers its fields hold: no second encoding of a value is accepted (_decode_canonical).
THEOREM EveryPacketIsCanonical ==
  \A kind \in Kinds : \A p \in Packets(kind) : Canonical(kind, p)
<1> SUFFICES ASSUME NEW kind \in Kinds, NEW p \in Packets(kind) PROVE Canonical(kind, p)
  OBVIOUS
<1>1. CASE kind = "response"
  BY <1>1, ResponseCanonical DEF Packets
<1>2. CASE kind = "event"
  <2>1. p \in PayloadPacket(EventBody) /\ p.body \in EventBody
    BY <1>2 DEF Packets, PayloadPacket
  <2>2. \A bytes : DecodeBody(kind, p.body, bytes).code = "none" =>
          /\ bytes = BodyBytes
          /\ EncodeBody(kind, DecodeBody(kind, p.body, bytes).value)
               = [code |-> "none", value |-> p.body]
    BY <1>2, <2>1, EventBodyCanonical DEF DecodeBody, EncodeBody
  <2>3. QED
    BY <1>2, <2>1, <2>2, PayloadCanonical
<1>3. CASE kind = "commit_result"
  <2>1. p \in PayloadPacket(CommitBody) /\ p.body \in CommitBody
    BY <1>3 DEF Packets, PayloadPacket
  <2>2. \A bytes : DecodeBody(kind, p.body, bytes).code = "none" =>
          /\ bytes = BodyBytes
          /\ EncodeBody(kind, DecodeBody(kind, p.body, bytes).value)
               = [code |-> "none", value |-> p.body]
    BY <1>3, <2>1, CommitBodyCanonical DEF DecodeBody, EncodeBody
  <2>3. QED
    BY <1>3, <2>1, <2>2, PayloadCanonical
<1>4. QED
  BY <1>1, <1>2, <1>3 DEF Kinds

-----------------------------------------------------------------------------
(* What is encoded is decoded to the same value. *)

LEMMA ResponseRoundTrip ==
  ASSUME NEW v \in [status : Range(Statuses), request_id : Int, payload_bytes : Nat, payload : Nat],
         BuildSeed("response", v).code = "none"
  PROVE  LET p == BuildSeed("response", v).value
         IN p \in ResponsePacket /\ Decode("response", p) = [code |-> "none", value |-> v]
<1> DEFINE p == BuildSeed("response", v).value
<1>1. p = [magic |-> Magic, abi_version |-> Version, header_bytes |-> ResponseHeader,
           status |-> v.status, payload_bytes |-> v.payload_bytes, request_id |-> v.request_id,
           reserved |-> 0, payload |-> v.payload, size |-> ResponseHeader + v.payload_bytes]
  BY DEF BuildSeed, EncodeResponse, Coded
<1>2. v.status \in Range(Statuses) /\ v.request_id \in 0..MaxTransportId
      /\ ~(v.payload_bytes > MaxPayloadBytes)
  BY ResponseEncoded DEF BuildSeed, EncodeResponse, Coded
<1>3. v.status \in Int
  BY <1>2 DEF Range, Statuses
<1>4. p \in ResponsePacket
  BY <1>1, <1>3 DEF ResponsePacket, Magic, Version, ResponseHeader
<1> HIDE DEF p
<1>5. FirstViolation(ResponseDecoderChecks(p)) = "none"
  BY <1>1, <1>2, ResponseDecoded DEF ResponseHeader
<1>6. v = [status |-> p.status, request_id |-> p.request_id,
           payload_bytes |-> p.size - p.header_bytes, payload |-> p.payload]
  BY <1>1 DEF ResponseHeader
<1>7. Decode("response", p) = [code |-> "none", value |-> v]
  BY <1>5, <1>6 DEF Decode, DecodeResponse, Coded
<1>8. QED
  BY <1>4, <1>7 DEF p

LEMMA EventRoundTrip ==
  ASSUME NEW v \in [node_id : Int, event : DOMAIN EventCodes, sequence : Int],
         EncodeEvent(v).code = "none"
  PROVE  LET b == EncodeEvent(v).value
         IN b \in EventBody /\ DecodeEvent(b, BodyBytes) = [code |-> "none", value |-> v]
<1> DEFINE b == EncodeEvent(v).value
<1>1. b = [node_id |-> v.node_id, event_code |-> EventCodes[v.event], flags |-> 0,
           sequence |-> v.sequence, reserved |-> 0]
  BY DEF EncodeEvent, Coded
<1>2. v.node_id \in 1..MaxTransportId /\ v.sequence \in 1..MaxTransportId
  BY EventEncoded DEF EncodeEvent, Coded
<1>3. EventCodes[v.event] \in Int
  BY DEF EventCodes
<1>4. NameOf(EventCodes, EventCodes[v.event]) = v.event /\ v.event # "none"
  BY CodesAreUnique
<1>5. b \in EventBody
  BY <1>1, <1>3 DEF EventBody
<1> HIDE DEF b
<1>6. FirstViolation(EventDecoderChecks(b, BodyBytes)) = "none"
  BY <1>1, <1>2, <1>4, EventDecoded
<1>7. v = [node_id |-> b.node_id, event |-> NameOf(EventCodes, b.event_code),
           sequence |-> b.sequence]
  BY <1>1, <1>4
<1>8. DecodeEvent(b, BodyBytes) = [code |-> "none", value |-> v]
  BY <1>6, <1>7 DEF DecodeEvent, Coded
<1>9. QED
  BY <1>5, <1>8 DEF b

LEMMA CommitRoundTrip ==
  ASSUME NEW v \in [base_revision : Int, target_revision : Int,
                    outcome : DOMAIN Outcomes, reason : DOMAIN Reasons],
         EncodeCommitResult(v).code = "none"
  PROVE  LET b == EncodeCommitResult(v).value
         IN b \in CommitBody /\ DecodeCommitResult(b, BodyBytes) = [code |-> "none", value |-> v]
<1> DEFINE b == EncodeCommitResult(v).value
<1>1. b = PackedResult(v)
  BY DEF EncodeCommitResult, Coded
<1>2. Outcomes[v.outcome] \in Int /\ Reasons[v.reason] \in Int
  BY DEF Outcomes, Reasons
<1>3. b \in CommitBody
  BY <1>1, <1>2 DEF CommitBody, PackedResult
<1>4. DecodeCommitResult(b, BodyBytes).code = "none"
  BY <1>1, CommitEncoded DEF EncodeCommitResult, Coded
<1>5. NameOf(Outcomes, Outcomes[v.outcome]) = v.outcome /\ NameOf(Reasons, Reasons[v.reason]) = v.reason
  BY CodesAreUnique
<1> HIDE DEF b
<1>6. v = [base_revision |-> b.base_revision, target_revision |-> b.target_revision,
           outcome |-> NameOf(Outcomes, b.outcome), reason |-> NameOf(Reasons, b.reason)]
  BY <1>1, <1>5 DEF PackedResult
<1>7. DecodeCommitResult(b, BodyBytes) = [code |-> "none", value |-> v]
  BY <1>4, <1>6 DEF DecodeCommitResult, Coded
<1>8. QED
  BY <1>3, <1>7 DEF b

LEMMA PayloadRoundTrip ==
  ASSUME NEW kind \in {"event", "commit_result"}, NEW v, NEW Body, BuildSeed(kind, v).code = "none",
         EncodeBody(kind, v).code = "none" =>
           LET b == EncodeBody(kind, v).value
           IN b \in Body /\ DecodeBody(kind, b, BodyBytes) = [code |-> "none", value |-> v]
  PROVE  LET p == BuildSeed(kind, v).value
         IN /\ p \in PayloadPacket(Body) /\ p.size \in 1..MaxPayloadBytes
            /\ Decode(kind, p) = [code |-> "none", value |-> v]
<1> DEFINE p == BuildSeed(kind, v).value
           operation == OperationOf(kind)
           body == EncodeBody(kind, v)
<1>1. BuildSeed(kind, v) = IF body.code # "none" THEN body
                           ELSE EncodeOperationPayload(operation, body.value)
  BY DEF BuildSeed
<1>2. operation \in {Operations.DISPATCH_EVENT, Operations.REPORT_COMMIT_RESULT} /\ operation \in Int
  BY DEF OperationOf, Operations
<1> HIDE DEF operation, body
<1>3. body.code = "none"
  BY <1>1
<1>4. p = [magic |-> Magic, schema_version |-> Version, operation |-> operation,
           body_bytes |-> BodyBytes, reserved |-> 0, body |-> body.value,
           size |-> PayloadHeader + BodyBytes]
  BY <1>1, <1>3 DEF EncodeOperationPayload, Coded
<1>5. ~(BodyBytes > MaxPayloadBytes - PayloadHeader)
  BY <1>1, <1>3, PayloadEncoded DEF EncodeOperationPayload, Coded
<1>6. body.value \in Body /\ DecodeBody(kind, body.value, BodyBytes) = [code |-> "none", value |-> v]
  BY <1>3 DEF body
<1> HIDE DEF p
<1>7. p \in PayloadPacket(Body)
  BY <1>2, <1>4, <1>6 DEF PayloadPacket, Magic, Version, BodyBytes, PayloadHeader
<1>8. p.size \in 1..MaxPayloadBytes
  BY <1>4, <1>5, FfiAssumption DEF BodyBytes, PayloadHeader
<1>9. FirstViolation(PayloadDecoderChecks(operation, p)) = "none"
  BY <1>4, <1>5, PayloadDecoded DEF BodyBytes, PayloadHeader
<1>10. DecodeOperationPayload(operation, p) = [code |-> "none", value |-> body.value]
  BY <1>4, <1>9 DEF DecodeOperationPayload, Coded
<1>11. p.size - PayloadHeader = BodyBytes
  BY <1>4 DEF BodyBytes, PayloadHeader
<1>12. Decode(kind, p) = [code |-> "none", value |-> v]
  BY <1>6, <1>10, <1>11 DEF Decode, operation
<1>13. QED
  BY <1>7, <1>8, <1>12 DEF p

-----------------------------------------------------------------------------
(* Bits. *)

\* The size of a power set, which is the only fact about exponents at hand.
LEMMA PowerOfTwo ==
  ASSUME NEW n \in Nat
  PROVE  2^n \in Nat \ {0} /\ (n # 0 => 2^n > 1)
<1>1. IsFiniteSet(1..n) /\ Cardinality(1..n) = n
  BY FS_Interval
<1>2. IsFiniteSet(SUBSET (1..n)) /\ Cardinality(SUBSET (1..n)) = 2^n
  BY <1>1, FS_SUBSET
<1>3. IsFiniteSet({{}}) /\ Cardinality({{}}) = 1
  BY FS_Singleton
<1>4. 2^n \in Nat /\ 1 <= 2^n
  BY <1>2, <1>3, FS_Subset, FS_CardinalityType
<1>5. ASSUME n # 0 PROVE 2^n # 1
  <2>1. 1..n \in SUBSET (1..n) /\ 1..n # {}
    BY <1>5
  <2>2. {{}} \subseteq SUBSET (1..n) /\ {{}} # SUBSET (1..n)
    BY <2>1
  <2>3. QED
    BY <1>2, <1>3, <2>2, FS_Subset
<1>6. QED
  BY <1>4, <1>5

LEMMA LastIdentifier == MaxTransportId \in Nat \ {0}
  BY FfiAssumption, PowerOfTwo DEF MaxTransportId

LEMMA InvertedIsInteger ==
  ASSUME NEW f, NEW value \in Int, NEW width \in Nat \ {0}, NEW k \in 0..width - 1
  PROVE  Inverted(f, value, width, k) \in Int
<1>1. 2^width \in Nat \ {0} /\ 2^k \in Nat \ {0} /\ 2^(width - 1) \in Nat \ {0}
  BY PowerOfTwo
<1>2. ASSUME NEW a \in Nat \ {0}, NEW b \in Nat \ {0}, NEW c \in Nat \ {0}
      PROVE  LET bits == value % a
                 flipped == IF (bits \div b) % 2 = 0 THEN bits + b ELSE bits - b
             IN (IF f \in SignedFields /\ flipped >= c THEN flipped - a ELSE flipped) \in Int
  OBVIOUS
<1>3. QED
  BY <1>1, <1>2 DEF Inverted

\* One field is replaced.
Replaced(fields, q, names) ==
  \E f \in names, x \in Int : q = [fields EXCEPT ![f] = x]

LEMMA FlippedIsReplaced ==
  ASSUME NEW fields, NEW layout, \A f \in DOMAIN layout : layout[f] \in Nat /\ fields[f] \in Int,
         NEW q \in FlippedFields(fields, layout)
  PROVE  Replaced(fields, q, DOMAIN layout)
<1>1. PICK f \in DOMAIN layout :
        q \in {[fields EXCEPT ![f] = Inverted(f, @, layout[f], k)] : k \in 0..layout[f] - 1}
  BY DEF FlippedFields
<1>2. PICK k \in 0..layout[f] - 1 :
        q = [fields EXCEPT ![f] = Inverted(f, fields[f], layout[f], k)]
  BY <1>1
<1>3. layout[f] \in Nat \ {0}
  BY <1>2
<1>4. Inverted(f, fields[f], layout[f], k) \in Int
  BY <1>2, <1>3, InvertedIsInteger
<1>5. QED
  BY <1>2, <1>4 DEF Replaced

LEMMA ResponseReplaced ==
  ASSUME NEW p \in ResponsePacket, NEW q,
         Replaced(p, q, DOMAIN ResponseLayout) \/ Replaced(p, q, {"payload", "size"})
  PROVE  q \in ResponsePacket
<1>1. PICK f \in {"magic", "abi_version", "header_bytes", "status", "payload_bytes", "request_id",
                  "reserved", "payload", "size"}, x \in Int : q = [p EXCEPT ![f] = x]
  BY DEF Replaced, ResponseLayout
<1>2. QED
  BY <1>1 DEF ResponsePacket

LEMMA HeaderReplaced ==
  ASSUME NEW Body, NEW p \in PayloadPacket(Body), NEW q,
         Replaced(p, q, DOMAIN PayloadLayout) \/ Replaced(p, q, {"size"})
  PROVE  q \in PayloadPacket(Body) /\ q.body = p.body
<1>1. PICK f \in {"magic", "schema_version", "operation", "body_bytes", "reserved", "size"},
           x \in Int : q = [p EXCEPT ![f] = x]
  BY DEF Replaced, PayloadLayout
<1>2. QED
  BY <1>1 DEF PayloadPacket

LEMMA EventReplaced ==
  ASSUME NEW b \in EventBody, NEW q, Replaced(b, q, DOMAIN EventLayout)
  PROVE  q \in EventBody
<1>1. PICK f \in {"node_id", "event_code", "flags", "sequence", "reserved"}, x \in Int :
        q = [b EXCEPT ![f] = x]
  BY DEF Replaced, EventLayout
<1>2. QED
  BY <1>1 DEF EventBody

LEMMA CommitReplaced ==
  ASSUME NEW b \in CommitBody, NEW q, Replaced(b, q, DOMAIN CommitLayout)
  PROVE  q \in CommitBody
<1>1. PICK f \in {"base_revision", "target_revision", "outcome", "reason", "flags"}, x \in Int :
        q = [b EXCEPT ![f] = x]
  BY DEF Replaced, CommitLayout
<1>2. QED
  BY <1>1 DEF CommitBody

-----------------------------------------------------------------------------
(* Admission. *)

LEMMA ViolationIsListed ==
  ASSUME NEW n \in Nat, NEW checks, DOMAIN checks = 1..n, FirstViolation(checks) # "none"
  PROVE  \E i \in 1..n : FirstViolation(checks) = checks[i][2]
<1> DEFINE failed == {i \in DOMAIN checks : checks[i][1]}
<1>1. FirstViolation(checks) = IF failed = {} THEN "none" ELSE checks[Min(failed)][2]
  BY DEF FirstViolation
<1>2. failed \in SUBSET Nat /\ failed \subseteq 1..n
  OBVIOUS
<1> HIDE DEF failed
<1>3. failed # {} => Min(failed) \in 1..n
  BY <1>2, MinIsLeast
<1>4. QED
  BY <1>1, <1>3

LEMMA Admission ==
  ASSUME NEW c
  PROVE  LET code == FirstViolation(AdmissionChecks(c))
             operation == NameOf(Operations, c.operation)
         IN /\ code # "OK"
            /\ code = "none" <=>
                 /\ c.abi_version = Version /\ c.caller_thread = "main" /\ operation # "none"
                 /\ TransportId(c.request_id) /\ TransportId(c.surface_id)
                 /\ ValidGeneration(operation, c.generation)
                 /\ ~(c.payload.size > MaxPayloadBytes)
                 /\ ValidPayload(operation, c.payload)
<1> DEFINE checks == AdmissionChecks(c)
<1>1. DOMAIN checks = 1..7 /\ \A i \in 1..7 : checks[i][2] \notin {"none", "OK"}
  BY DEF AdmissionChecks
<1>2. /\ FirstViolation(checks) = "none" <=>
           /\ ~checks[1][1] /\ ~checks[2][1] /\ ~checks[3][1] /\ ~checks[4][1]
           /\ ~checks[5][1] /\ ~checks[6][1] /\ ~checks[7][1]
  <2> HIDE DEF checks
  <2>1. QED
    BY <1>1, AllChecksPass
<1>3. FirstViolation(checks) # "OK"
  <2> HIDE DEF checks
  <2>1. QED
    BY <1>1, ViolationIsListed
<1>4. QED
  BY <1>2, <1>3 DEF AdmissionChecks

\* What admit() answers to a call: an error, or the values the call carries.
LEMMA Admitted ==
  ASSUME NEW c, Admit(c).code \in {"none", "OK"}
  PROVE  LET operation == NameOf(Operations, c.operation)
         IN /\ FirstViolation(AdmissionChecks(c)) = "none"
            /\ Admit(c).operation = operation
            /\ KindOf(operation) # "none" =>
                 Admit(c).payload[1] = Decode(KindOf(operation), c.payload).value
<1> DEFINE operation == NameOf(Operations, c.operation)
           code == FirstViolation(AdmissionChecks(c))
           decoded == Decode(KindOf(operation), c.payload).value
<1>1. code # "OK"
  BY Admission
<1>2. Admit(c) = IF code # "none" THEN [code |-> code]
        ELSE [code |-> "OK", operation |-> operation, request_id |-> c.request_id,
              surface_id |-> c.surface_id, payload_bytes |-> c.payload.size,
              generation |-> IF operation = "CREATE_SURFACE" THEN <<>> ELSE <<c.generation>>,
              payload |-> IF KindOf(operation) = "none" THEN <<>> ELSE <<decoded>>]
  BY DEF Admit
<1> HIDE DEF code, operation, decoded
<1>3. code = "none"
  BY <1>1, <1>2
<1>4. Admit(c).operation = operation
      /\ (KindOf(operation) # "none" => Admit(c).payload = <<decoded>>)
  BY <1>2, <1>3
<1>5. KindOf(operation) # "none" => Admit(c).payload[1] = decoded
  BY <1>4
<1>6. QED
  BY <1>3, <1>4, <1>5 DEF code, operation, decoded

-----------------------------------------------------------------------------
(* The invariant of a packet on its way. *)

Encoded(seed) ==
  IF Framed(seed.kind) THEN BuildSeed(seed.kind, seed.value)
  ELSE [code |-> "none", value |-> NoPacket]

OfKind(kind, p) ==
  p \in Packets(kind) /\ (kind \in {"event", "commit_result"} => SameBody(kind, p))

\* At most one of the fields differs.
AlmostSame(f, g, names) == \E n \in names : \A m \in names \ {n} : f[m] = g[m]

\* One damage changes the packet or the call, and one field of a body or of a call.
OneChange(seed, p, c) ==
  \/ /\ c = CallFor(seed.kind)
     /\ seed.kind = "commit_result" =>
          AlmostSame(p.body, Encoded(seed).value.body, DOMAIN CommitLayout)
  \/ p = Encoded(seed).value /\ AlmostSame(c, CallFor(seed.kind), CallFields)

Carried == sent # <<>> /\ "encoder" \notin DOMAIN answer
Received ==
  IF InCall(Kind) THEN Admit(WithPayload(call, packet)) ELSE Decode("response", packet)

\* What is on its way is a seed's encoding, of its kind, changed as often as `damages` says; an
\* answer is the receiver's for what arrived.
FfiInv ==
  /\ damages \in Nat
  /\ sent = <<>> => answer = NoAnswer /\ damages = 0
  /\ sent = <<>> \/ \E seed \in Seeds : sent = <<seed>>
  /\ Carried => /\ Encoded(sent[1]).code = "none"
                /\ OfKind(Kind, packet)
                /\ damages = 0 => packet = Encoded(sent[1]).value /\ call = CallFor(Kind)
                /\ damages = 1 => OneChange(sent[1], packet, call)
  /\ Delivered => answer = Received

LEMMA SeedKinds ==
  \A seed \in Seeds :
    /\ seed.kind \in Kinds \cup {"create", "dispose"}
    /\ seed.kind = "response" =>
         seed.value \in [status : Range(Statuses), request_id : Int, payload_bytes : Nat, payload : Nat]
    /\ seed.kind = "event" =>
         seed.value \in [node_id : Int, event : DOMAIN EventCodes, sequence : Int]
    /\ seed.kind = "commit_result" =>
         seed.value \in [base_revision : Int, target_revision : Int,
                         outcome : DOMAIN Outcomes, reason : DOMAIN Reasons]
  BY SeedAssumption DEF Seed, Kinds

\* A payload that is decoded names the operation of its body.
LEMMA DecodedOperation ==
  ASSUME NEW kind \in {"event", "commit_result"}, NEW p, Decode(kind, p).code = "none"
  PROVE  p.operation = OperationOf(kind)
<1> DEFINE outer == DecodeOperationPayload(OperationOf(kind), p)
<1>1. outer.code = "none"
  BY DEF Decode
<1>2. QED
  BY <1>1, PayloadDecoded DEF DecodeOperationPayload, Coded

\* A seed's packet has its kind, fits a call, and is decoded to the seed's value.
LEMMA EncodedFacts ==
  ASSUME NEW seed \in Seeds, Encoded(seed).code = "none"
  PROVE  LET p == Encoded(seed).value
         IN /\ OfKind(seed.kind, p)
            /\ Framed(seed.kind) => Decode(seed.kind, p) = [code |-> "none", value |-> seed.value]
            /\ Framed(seed.kind) /\ InCall(seed.kind) => p.size \in 1..MaxPayloadBytes
<1> DEFINE p == Encoded(seed).value
<1>1. CASE seed.kind = "response"
  <2>1. BuildSeed("response", seed.value).code = "none" /\ p = BuildSeed("response", seed.value).value
    BY <1>1 DEF Encoded, Framed
  <2>2. p \in ResponsePacket /\ Decode("response", p) = [code |-> "none", value |-> seed.value]
    BY <1>1, <2>1, SeedKinds, ResponseRoundTrip
  <2>3. QED
    BY <1>1, <2>2 DEF OfKind, Packets, InCall
<1>2. CASE seed.kind = "event"
  <2>1. BuildSeed("event", seed.value).code = "none" /\ p = BuildSeed("event", seed.value).value
    BY <1>2 DEF Encoded, Framed
  <2>2. EncodeBody("event", seed.value).code = "none" =>
          LET b == EncodeBody("event", seed.value).value
          IN b \in EventBody /\ DecodeBody("event", b, BodyBytes) = [code |-> "none", value |-> seed.value]
    BY <1>2, SeedKinds, EventRoundTrip DEF EncodeBody, DecodeBody
  <2>3. /\ p \in PayloadPacket(EventBody) /\ p.size \in 1..MaxPayloadBytes
        /\ Decode("event", p) = [code |-> "none", value |-> seed.value]
    BY <2>1, <2>2, PayloadRoundTrip
  <2>4. p.operation = OperationOf("event")
    BY <2>3, DecodedOperation
  <2>5. QED
    BY <1>2, <2>3, <2>4 DEF OfKind, Packets, SameBody, OperationOf, Operations
<1>3. CASE seed.kind = "commit_result"
  <2>1. /\ BuildSeed("commit_result", seed.value).code = "none"
        /\ p = BuildSeed("commit_result", seed.value).value
    BY <1>3 DEF Encoded, Framed
  <2>2. EncodeBody("commit_result", seed.value).code = "none" =>
          LET b == EncodeBody("commit_result", seed.value).value
          IN /\ b \in CommitBody
             /\ DecodeBody("commit_result", b, BodyBytes) = [code |-> "none", value |-> seed.value]
    BY <1>3, SeedKinds, CommitRoundTrip DEF EncodeBody, DecodeBody
  <2>3. /\ p \in PayloadPacket(CommitBody) /\ p.size \in 1..MaxPayloadBytes
        /\ Decode("commit_result", p) = [code |-> "none", value |-> seed.value]
    BY <2>1, <2>2, PayloadRoundTrip
  <2>4. p.operation = OperationOf("commit_result")
    BY <2>3, DecodedOperation
  <2>5. QED
    BY <1>3, <2>3, <2>4 DEF OfKind, Packets, SameBody, OperationOf, Operations
<1>4. CASE seed.kind \in {"create", "dispose"}
  BY <1>4 DEF Encoded, Framed, OfKind, Packets
<1>5. QED
  BY <1>1, <1>2, <1>3, <1>4, SeedKinds DEF Kinds

-----------------------------------------------------------------------------
(* The invariant is kept by every step. *)

LEMMA InitInv == Init => FfiInv
  BY DEF Init, FfiInv, Carried, Delivered

LEMMA SendInv ==
  ASSUME FfiInv, NEW seed \in Seeds, Send(seed)
  PROVE  FfiInv'
<1> DEFINE encoded == Encoded(seed)
<1>1. /\ sent = <<>> /\ sent' = <<seed>> /\ call' = CallFor(seed.kind) /\ damages' = damages
      /\ IF encoded.code = "none" THEN packet' = encoded.value /\ answer' = answer
         ELSE answer' = [code |-> encoded.code, encoder |-> TRUE] /\ packet' = packet
  BY DEF Send, Encoded
<1>2. answer = NoAnswer /\ damages = 0
  BY <1>1 DEF FfiInv
<1>3. sent' # <<>> /\ sent'[1] = seed /\ damages' = 0
  BY <1>1, <1>2
<1>4. encoded.code = "none" => OfKind(seed.kind, encoded.value)
  BY EncodedFacts
<1> HIDE DEF encoded
<1>5. CASE encoded.code = "none"
  <2>1. answer' = NoAnswer /\ packet' = encoded.value
    BY <1>1, <1>2, <1>5
  <2>2. Carried' => /\ Encoded(sent[1])'.code = "none" /\ OfKind(Kind, packet)'
                    /\ packet' = Encoded(sent[1])'.value /\ call' = CallFor(Kind)'
    BY <1>1, <1>3, <1>4, <1>5, <2>1 DEF encoded, Kind, OfKind, SameBody, Encoded
  <2>3. ~Delivered'
    BY <2>1 DEF Delivered
  <2>4. QED
    BY <1>1, <1>3, <2>2, <2>3 DEF FfiInv
<1>6. CASE encoded.code # "none"
  <2>1. ~Carried' /\ ~Delivered'
    BY <1>1, <1>6 DEF Carried, Delivered
  <2>2. QED
    BY <1>1, <1>3, <2>1 DEF FfiInv
<1>7. QED
  BY <1>5, <1>6

\* What is under way was encoded and is of its kind, and unchanged if undamaged.
LEMMA UnderWayFacts ==
  ASSUME FfiInv, UnderWay
  PROVE  /\ sent[1] \in Seeds /\ Kind = sent[1].kind /\ sent # <<>>
         /\ Encoded(sent[1]).code = "none" /\ OfKind(Kind, packet)
         /\ damages \in Nat
         /\ damages = 0 => packet = Encoded(sent[1]).value /\ call = CallFor(Kind)
<1>1. sent # <<>> /\ answer = NoAnswer
  BY DEF UnderWay
<1>2. Carried
  BY <1>1 DEF Carried, NoAnswer
<1>3. QED
  BY <1>1, <1>2 DEF FfiInv, Kind

LEMMA DamageInv ==
  ASSUME FfiInv, UnderWay, NEW p, NEW c, Damage(p, c),
         OfKind(Kind, p), damages = 0 => OneChange(sent[1], p, c)
  PROVE  FfiInv'
<1>1. /\ packet' = p /\ call' = c /\ sent' = sent /\ answer' = answer /\ damages' = damages + 1
  BY DEF Damage
<1>2. Kind' = Kind /\ Encoded(sent[1])' = Encoded(sent[1])
  BY <1>1 DEF Kind, Encoded
<1>3. OfKind(Kind, packet)' /\ (damages' = 1 => OneChange(sent[1], packet, call)')
  BY <1>1, <1>2, UnderWayFacts DEF OfKind, SameBody, OneChange, Encoded, Kind
<1>4. damages' \in Nat /\ damages' # 0
  BY <1>1, UnderWayFacts
<1>5. sent' # <<>> /\ ~Delivered'
  BY <1>1, UnderWayFacts DEF Delivered, UnderWay
<1>6. QED
  BY <1>1, <1>2, <1>3, <1>4, <1>5, UnderWayFacts DEF FfiInv

LEMMA FlipBitInv ==
  ASSUME FfiInv, FlipBit
  PROVE  FfiInv'
<1>1. UnderWay /\ Framed(Kind)
  BY DEF FlipBit, Kind
<1>2. PICK p \in Flipped(Kind, packet) : Damage(p, call)
  BY DEF FlipBit, Kind
<1>3. OfKind(Kind, packet) /\ Kind = sent[1].kind
  BY <1>1, UnderWayFacts
<1>4. damages = 0 => packet = Encoded(sent[1]).value /\ call = CallFor(sent[1].kind)
  BY <1>1, UnderWayFacts
<1>5. CASE Kind = "response"
  <2>1. packet \in ResponsePacket
    BY <1>3, <1>5 DEF OfKind, Packets
  <2>2. p \in FlippedFields(packet, ResponseLayout) \cup FlippedFields(packet, OpaqueLayout(packet))
    BY <1>2, <1>5 DEF Flipped
  <2>3. \A f \in DOMAIN ResponseLayout : ResponseLayout[f] \in Nat /\ packet[f] \in Int
    BY <2>1, FfiAssumption DEF ResponseLayout, ResponsePacket
  <2>4. \A f \in DOMAIN OpaqueLayout(packet) : OpaqueLayout(packet)[f] \in Nat /\ packet[f] \in Int
    BY <2>1 DEF OpaqueLayout, ResponsePacket
  <2>5. Replaced(packet, p, DOMAIN ResponseLayout) \/ Replaced(packet, p, {"payload"})
    BY <2>2, <2>3, <2>4, FlippedIsReplaced DEF OpaqueLayout
  <2>6. Replaced(packet, p, DOMAIN ResponseLayout) \/ Replaced(packet, p, {"payload", "size"})
    BY <2>5 DEF Replaced
  <2>7. p \in ResponsePacket
    BY <2>1, <2>6, ResponseReplaced
  <2>8. OfKind(Kind, p) /\ (damages = 0 => OneChange(sent[1], p, call))
    BY <1>3, <1>4, <1>5, <2>7 DEF OfKind, Packets, OneChange
  <2>9. QED
    BY <1>1, <1>2, <2>8, DamageInv
<1>6. ASSUME NEW Body, Kind \in {"event", "commit_result"}, packet \in PayloadPacket(Body),
             p \in FlippedFields(packet, PayloadLayout), SameBody(Kind, p)
      PROVE  p \in PayloadPacket(Body) /\ p.body = packet.body /\ SameBody(Kind, p)
  <2>1. \A f \in DOMAIN PayloadLayout : PayloadLayout[f] \in Nat /\ packet[f] \in Int
    BY <1>6 DEF PayloadLayout, PayloadPacket
  <2>2. QED
    BY <1>6, <2>1, FlippedIsReplaced, HeaderReplaced
<1>7. CASE Kind = "event"
  <2>1. packet \in PayloadPacket(EventBody) /\ SameBody(Kind, packet)
    BY <1>3, <1>7 DEF OfKind, Packets
  <2>2. ASSUME p \in FlippedFields(packet, PayloadLayout), SameBody(Kind, p)
        PROVE  p \in PayloadPacket(EventBody) /\ SameBody(Kind, p)
    BY <1>6, <1>7, <2>1, <2>2
  <2>3. ASSUME NEW body \in FlippedFields(packet.body, EventLayout),
               p = [packet EXCEPT !.body = body]
        PROVE  p \in PayloadPacket(EventBody) /\ SameBody(Kind, p)
    <3>1. packet.body \in EventBody
      BY <2>1 DEF PayloadPacket
    <3>2. \A f \in DOMAIN EventLayout : EventLayout[f] \in Nat /\ packet.body[f] \in Int
      BY <3>1, FfiAssumption DEF EventLayout, EventBody
    <3>3. body \in EventBody
      BY <2>3, <3>1, <3>2, FlippedIsReplaced, EventReplaced
    <3>4. p \in PayloadPacket(EventBody) /\ p.operation = packet.operation
      BY <2>1, <2>3, <3>3 DEF PayloadPacket
    <3>5. QED
      BY <2>1, <3>4 DEF SameBody
  <2>4. p \in PayloadPacket(EventBody) /\ SameBody(Kind, p)
    BY <1>2, <1>6, <1>7, <2>1, <2>2, <2>3 DEF Flipped, BodyLayout
  <2>5. OfKind(Kind, p) /\ (damages = 0 => OneChange(sent[1], p, call))
    BY <1>3, <1>4, <1>7, <2>4 DEF OfKind, Packets, OneChange
  <2>6. QED
    BY <1>1, <1>2, <2>5, DamageInv
<1>8. CASE Kind = "commit_result"
  <2> DEFINE same == AlmostSame(p.body, packet.body, DOMAIN CommitLayout)
  <2>1. packet \in PayloadPacket(CommitBody) /\ SameBody(Kind, packet)
    BY <1>3, <1>8 DEF OfKind, Packets
  <2>2. ASSUME p \in FlippedFields(packet, PayloadLayout), SameBody(Kind, p)
        PROVE  p \in PayloadPacket(CommitBody) /\ SameBody(Kind, p) /\ same
    BY <1>6, <1>8, <2>1, <2>2 DEF AlmostSame, CommitLayout
  <2>3. ASSUME NEW body \in FlippedFields(packet.body, CommitLayout),
               p = [packet EXCEPT !.body = body]
        PROVE  p \in PayloadPacket(CommitBody) /\ SameBody(Kind, p) /\ same
    <3>1. packet.body \in CommitBody
      BY <2>1 DEF PayloadPacket
    <3>2. \A f \in DOMAIN CommitLayout : CommitLayout[f] \in Nat /\ packet.body[f] \in Int
      BY <3>1, FfiAssumption DEF CommitLayout, CommitBody
    <3>3. Replaced(packet.body, body, DOMAIN CommitLayout)
      BY <2>3, <3>2, FlippedIsReplaced
    <3>4. body \in CommitBody
      BY <3>1, <3>3, CommitReplaced
    <3>5. p \in PayloadPacket(CommitBody) /\ p.operation = packet.operation /\ p.body = body
      BY <2>1, <2>3, <3>4 DEF PayloadPacket
    <3>6. same
      BY <3>1, <3>3, <3>5 DEF Replaced, AlmostSame, CommitBody, CommitLayout
    <3>7. QED
      BY <2>1, <3>5, <3>6 DEF SameBody
  <2>4. p \in PayloadPacket(CommitBody) /\ SameBody(Kind, p) /\ same
    BY <1>2, <1>8, <2>2, <2>3 DEF Flipped, BodyLayout
  <2>5. OfKind(Kind, p) /\ (damages = 0 => OneChange(sent[1], p, call))
    BY <1>3, <1>4, <1>8, <2>4 DEF OfKind, Packets, OneChange
  <2>6. QED
    BY <1>1, <1>2, <2>5, DamageInv
<1>9. QED
  BY <1>1, <1>5, <1>7, <1>8 DEF Framed

LEMMA ResizedFacts ==
  ASSUME FfiInv, UnderWay, Framed(Kind), NEW size \in Int
  PROVE  /\ OfKind(Kind, Resized(packet, size))
         /\ damages = 0 => OneChange(sent[1], Resized(packet, size), call)
<1> DEFINE p == Resized(packet, size)
<1>1. /\ OfKind(Kind, packet) /\ Kind = sent[1].kind
      /\ damages = 0 => packet = Encoded(sent[1]).value /\ call = CallFor(sent[1].kind)
  BY UnderWayFacts
<1>2. CASE Kind = "response"
  <2>1. packet \in ResponsePacket
    BY <1>1, <1>2 DEF OfKind, Packets
  <2> DEFINE q == [packet EXCEPT !.size = size]
  <2>2. p = q \/ p = [q EXCEPT !.payload = 0]
    BY DEF Resized
  <2>3. q \in ResponsePacket
    BY <2>1 DEF ResponsePacket
  <2>4. [q EXCEPT !.payload = 0] \in ResponsePacket
    <3> HIDE DEF q
    <3>1. QED
      BY <2>3 DEF ResponsePacket
  <2> HIDE DEF q, p
  <2>5. p \in ResponsePacket
    BY <2>2, <2>3, <2>4
  <2>6. QED
    BY <1>1, <1>2, <2>5 DEF OfKind, Packets, OneChange, p
<1>3. ASSUME NEW Body, packet \in PayloadPacket(Body)
      PROVE  p \in PayloadPacket(Body) /\ p.body = packet.body /\ p.operation = packet.operation
  <2>1. "payload" \notin DOMAIN packet
    BY <1>3 DEF PayloadPacket
  <2>2. p = [packet EXCEPT !.size = size]
    BY <2>1 DEF Resized
  <2>3. QED
    BY <1>3, <2>2 DEF PayloadPacket
<1> HIDE DEF p
<1>4. CASE Kind = "event"
  <2>1. packet \in PayloadPacket(EventBody) /\ SameBody(Kind, packet)
    BY <1>1, <1>4 DEF OfKind, Packets
  <2>2. p \in PayloadPacket(EventBody) /\ SameBody(Kind, p)
    BY <1>3, <2>1 DEF SameBody
  <2>3. QED
    BY <1>1, <1>4, <2>2 DEF OfKind, Packets, OneChange, p
<1>5. CASE Kind = "commit_result"
  <2>1. packet \in PayloadPacket(CommitBody) /\ SameBody(Kind, packet)
    BY <1>1, <1>5 DEF OfKind, Packets
  <2>2. p \in PayloadPacket(CommitBody) /\ SameBody(Kind, p) /\ p.body = packet.body
    BY <1>3, <2>1 DEF SameBody
  <2>3. AlmostSame(p.body, packet.body, DOMAIN CommitLayout)
    BY <2>2 DEF AlmostSame, CommitLayout
  <2>4. QED
    BY <1>1, <1>5, <2>2, <2>3 DEF OfKind, Packets, OneChange, p
<1>6. QED
  BY <1>2, <1>4, <1>5 DEF Framed

LEMMA ResizeInv ==
  ASSUME FfiInv, CutOff \/ Append1
  PROVE  FfiInv'
<1>1. UnderWay /\ Framed(Kind)
  BY DEF CutOff, Append1, Kind
<1>2. OfKind(Kind, packet)
  BY <1>1, UnderWayFacts
<1>3. packet.size \in Int
  <2>1. packet \in ResponsePacket \/ packet \in PayloadPacket(EventBody) \/ packet \in PayloadPacket(CommitBody)
    BY <1>1, <1>2 DEF OfKind, Packets, Framed
  <2>2. QED
    BY <2>1 DEF ResponsePacket, PayloadPacket
<1>4. PICK size \in Int : Damage(Resized(packet, size), call)
  <2>1. CASE CutOff
    <3>1. HeaderBytes \in Int
      BY DEF HeaderBytes, ResponseHeader, PayloadHeader
    <3>2. QED
      BY <1>3, <2>1, <3>1 DEF CutOff
  <2>2. CASE Append1
    BY <1>3, <2>2 DEF Append1
  <2>3. QED
    BY <2>1, <2>2
<1>5. QED
  BY <1>1, <1>4, ResizedFacts, DamageInv

LEMMA MisuseInv ==
  ASSUME FfiInv, Misuse
  PROVE  FfiInv'
<1>1. UnderWay
  BY DEF Misuse
<1>2. PICK m \in Misuses : Damage(packet, Misused(call, m))
  BY DEF Misuse
<1>3. PICK f \in CallFields : DOMAIN m = {f}
  BY MisuseAssumption
<1>4. AlmostSame(Misused(call, m), call, CallFields)
  BY <1>3 DEF AlmostSame, Misused
<1>5. OfKind(Kind, packet) /\ (damages = 0 => OneChange(sent[1], packet, Misused(call, m)))
  BY <1>1, <1>4, UnderWayFacts DEF OneChange
<1>6. QED
  BY <1>1, <1>2, <1>5, DamageInv

LEMMA DeliverInv ==
  ASSUME FfiInv, DeliverCall \/ DeliverResponse
  PROVE  FfiInv'
<1>1. UnderWay /\ UNCHANGED <<sent, packet, call, damages>>
  BY DEF DeliverCall, DeliverResponse
<1>2. Carried /\ sent # <<>>
  BY <1>1 DEF UnderWay, Carried, NoAnswer
<1>3. answer' = Received'
  <2>1. Received' = Received
    BY <1>1 DEF Received, Kind, Admit, AdmissionChecks, WithPayload
  <2>2. CASE DeliverCall
    BY <2>1, <2>2 DEF DeliverCall, Received, Kind
  <2>3. CASE DeliverResponse
    BY <2>1, <2>3 DEF DeliverResponse, Received, Kind
  <2>4. QED
    BY <2>2, <2>3
<1>4. /\ Encoded(sent[1])' = Encoded(sent[1]) /\ OfKind(Kind, packet)' = OfKind(Kind, packet)
      /\ OneChange(sent[1], packet, call)' = OneChange(sent[1], packet, call)
      /\ CallFor(Kind)' = CallFor(Kind)
  BY <1>1 DEF Kind
<1>5. QED
  BY <1>1, <1>2, <1>3, <1>4 DEF FfiInv

LEMMA NextInv == FfiInv /\ [Next]_vars => FfiInv'
<1> SUFFICES ASSUME FfiInv, [Next]_vars PROVE FfiInv'
  OBVIOUS
<1>1. CASE Forget
  <2>1. sent' = <<>> /\ answer' = NoAnswer /\ damages' = 0
    BY <1>1 DEF Forget
  <2>2. ~Carried' /\ ~Delivered'
    BY <2>1 DEF Carried, Delivered
  <2>3. QED
    BY <2>1, <2>2 DEF FfiInv
<1>2. CASE UNCHANGED vars
  BY <1>2 DEF vars, FfiInv, Carried, Delivered, Received, Kind
<1>3. QED
  BY <1>1, <1>2, SendInv, FlipBitInv, ResizeInv, MisuseInv, DeliverInv DEF Next

\* The inductive invariant holds in every reachable state.
THEOREM FfiInvariant == Spec => []FfiInv
  BY InitInv, NextInv, PTL DEF Spec

-----------------------------------------------------------------------------
(* What is accepted. *)

LEMMA DeliveredFacts ==
  ASSUME FfiInv, Delivered
  PROVE  /\ sent[1] \in Seeds /\ Kind = sent[1].kind /\ answer = Received
         /\ Encoded(sent[1]).code = "none" /\ OfKind(Kind, packet)
         /\ damages = 0 => packet = Encoded(sent[1]).value /\ call = CallFor(Kind)
         /\ damages = 1 => OneChange(sent[1], packet, call)
<1>1. Carried /\ sent # <<>>
  BY DEF Delivered, Carried
<1>2. QED
  BY <1>1 DEF FfiInv, Kind

\* What a call was admitted with: an operation of the contract, and its typed payload or none.
LEMMA AcceptedCall ==
  ASSUME FfiInv, Accepted, InCall(Kind)
  PROVE  LET operation == NameOf(Operations, call.operation)
             kind == KindOf(operation)
         IN /\ answer.operation = operation /\ operation \in DOMAIN Operations
            /\ Operations[operation] = call.operation
            /\ ValidGeneration(operation, call.generation)
            /\ kind = "none" => packet.size = 0
            /\ kind # "none" =>
                 /\ kind = Kind
                 /\ Decode(kind, packet).code = "none"
                 /\ answer.payload[1] = Decode(kind, packet).value
<1> DEFINE c == WithPayload(call, packet)
           operation == NameOf(Operations, call.operation)
           kind == KindOf(operation)
<1>1. /\ c.operation = call.operation /\ c.payload = packet /\ c.generation = call.generation
  BY DEF WithPayload
<1>2. answer = Admit(c) /\ Admit(c).code \in {"none", "OK"}
  BY DeliveredFacts DEF Accepted, Received
<1> HIDE DEF c
<1>3. FirstViolation(AdmissionChecks(c)) = "none" /\ answer.operation = operation
  BY <1>1, <1>2, Admitted
<1>4. kind # "none" => answer.payload[1] = Decode(kind, packet).value
  BY <1>1, <1>2, Admitted
<1>5. operation # "none" /\ ValidGeneration(operation, call.generation) /\ ValidPayload(operation, packet)
  BY <1>1, <1>3, Admission
<1>6. operation \in DOMAIN Operations /\ Operations[operation] = call.operation
  BY <1>5, NameOfCode
<1> HIDE DEF operation
<1>7. kind = "none" => packet.size = 0
  BY <1>5 DEF ValidPayload
<1>8. ASSUME kind # "none" PROVE Decode(kind, packet).code = "none" /\ kind = Kind
  <2>1. Decode(kind, packet).code = "none" /\ packet.size # 0
    BY <1>5, <1>8 DEF ValidPayload
  <2>2. kind \in {"event", "commit_result"}
    BY <1>8 DEF KindOf
  <2> HIDE DEF kind
  <2>3. packet.operation = OperationOf(kind)
    BY <2>1, <2>2, DecodedOperation
  <2>4. OfKind(Kind, packet) /\ Kind \in Kinds \cup {"create", "dispose"} /\ Kind # "response"
    BY DeliveredFacts, SeedKinds DEF InCall, Accepted
  <2>5. Kind \in {"event", "commit_result"}
    BY <2>1, <2>4 DEF OfKind, Packets, Kinds, NoPacket
  <2>6. SameBody(Kind, packet)
    BY <2>4, <2>5 DEF OfKind
  <2>7. kind = Kind
    BY <2>2, <2>3, <2>5, <2>6 DEF SameBody
  <2>8. QED
    BY <2>1, <2>7
<1>9. QED
  BY <1>3, <1>4, <1>5, <1>6, <1>7, <1>8 DEF operation

\* A well-made call names its operation, with a handle unless it creates a surface.
LEMMA WellMadeCall ==
  ASSUME NEW kind \in {"event", "commit_result", "create", "dispose"}
  PROVE  LET c == CallFor(kind)
             name == NameOf(Operations, c.operation)
         IN /\ c.abi_version = Version /\ c.caller_thread = "main" /\ name \in DOMAIN Operations
            /\ name # "none" /\ (name = "CREATE_SURFACE" <=> kind = "create")
            /\ KindOf(name) = IF kind \in {"event", "commit_result"} THEN kind ELSE "none"
            /\ TransportId(c.request_id) /\ TransportId(c.surface_id)
            /\ ValidGeneration(name, c.generation)
            /\ kind = "create" => c.generation = 0
            /\ kind # "create" => TransportId(c.generation)
<1> DEFINE c == CallFor(kind)
<1>1. PICK name \in DOMAIN Operations :
        /\ name = CASE kind = "create" -> "CREATE_SURFACE" [] kind = "dispose" -> "DISPOSE_SURFACE"
                    [] kind = "event" -> "DISPATCH_EVENT"
                    [] kind = "commit_result" -> "REPORT_COMMIT_RESULT"
  BY DEF Operations
<1>2. c = WellMade(Operations[name])
  BY <1>1 DEF CallFor, OperationOf, Operations
<1>3. c.operation = Operations[name]
  BY <1>2 DEF WellMade
<1>4. NameOf(Operations, c.operation) = name /\ name # "none"
  BY <1>3, CodesAreUnique
<1>5. Operations[name] = Operations.CREATE_SURFACE <=> kind = "create"
  BY <1>1 DEF Operations
<1>6. /\ c.abi_version = Version /\ c.caller_thread = "main"
      /\ c.request_id = MaxTransportId /\ c.surface_id = 1
      /\ c.generation = IF kind = "create" THEN 0 ELSE MaxTransportId
  BY <1>2, <1>5 DEF WellMade
<1>7. TransportId(c.request_id) /\ TransportId(c.surface_id) /\ (kind # "create" => TransportId(c.generation))
  BY <1>6, LastIdentifier DEF TransportId
<1>8. (name = "CREATE_SURFACE" <=> kind = "create")
      /\ KindOf(name) = IF kind \in {"event", "commit_result"} THEN kind ELSE "none"
  BY <1>1 DEF KindOf
<1>9. ValidGeneration(name, c.generation)
  BY <1>6, <1>7, <1>8 DEF ValidGeneration
<1> HIDE DEF c
<1>10. QED
  BY <1>4, <1>6, <1>7, <1>8, <1>9 DEF c

\* A packet that was not damaged, in a call that was not, is accepted as what was sent.
LEMMA UndamagedIsAccepted ==
  ASSUME FfiInv, Delivered, damages = 0
  PROVE  /\ Accepted
         /\ Framed(Kind) =>
              (IF InCall(Kind) THEN answer.payload[1] ELSE answer.value) = sent[1].value
<1>1. /\ sent[1] \in Seeds /\ Kind = sent[1].kind /\ answer = Received
      /\ packet = Encoded(sent[1]).value /\ call = CallFor(Kind)
  BY DeliveredFacts
<1>2. /\ Framed(Kind) => Decode(Kind, packet) = [code |-> "none", value |-> sent[1].value]
      /\ Framed(Kind) /\ InCall(Kind) => packet.size \in 1..MaxPayloadBytes
  BY <1>1, DeliveredFacts, EncodedFacts
<1>3. CASE Kind = "response"
  BY <1>1, <1>2, <1>3 DEF Received, InCall, Framed, Accepted
<1>4. CASE Kind \in {"event", "commit_result", "create", "dispose"}
  <2> DEFINE c == WithPayload(call, packet)
             name == NameOf(Operations, call.operation)
  <2>1. /\ c.abi_version = call.abi_version /\ c.operation = call.operation
        /\ c.request_id = call.request_id /\ c.surface_id = call.surface_id
        /\ c.caller_thread = call.caller_thread /\ c.generation = call.generation
        /\ c.payload = packet
    BY DEF WithPayload
  <2>2. answer = Admit(c) /\ InCall(Kind)
    BY <1>1, <1>4 DEF Received, InCall
  <2> HIDE DEF c
  <2>3. /\ call.abi_version = Version /\ call.caller_thread = "main" /\ name # "none"
        /\ TransportId(call.request_id) /\ TransportId(call.surface_id)
        /\ ValidGeneration(name, call.generation)
        /\ KindOf(name) = IF Framed(Kind) THEN Kind ELSE "none"
    BY <1>1, <1>4, WellMadeCall DEF Framed
  <2> HIDE DEF name
  <2>4. ValidPayload(name, packet) /\ ~(packet.size > MaxPayloadBytes)
    <3>1. CASE Framed(Kind)
      <4>1. KindOf(name) = Kind /\ KindOf(name) # "none"
        BY <2>3, <3>1 DEF Framed
      <4>2. packet.size \in 1..MaxPayloadBytes /\ Decode(Kind, packet).code = "none"
        BY <1>2, <2>2, <3>1
      <4>3. QED
        BY <4>1, <4>2, FfiAssumption DEF ValidPayload
    <3>2. CASE ~Framed(Kind)
      <4>1. packet = NoPacket
        BY <1>1, <3>2 DEF Encoded
      <4>2. QED
        BY <2>3, <3>2, <4>1, FfiAssumption DEF ValidPayload, NoPacket
    <3>3. QED
      BY <3>1, <3>2
  <2>5. FirstViolation(AdmissionChecks(c)) = "none"
    BY <2>1, <2>3, <2>4, Admission DEF name
  <2>6. answer.code = "OK"
    BY <2>2, <2>5 DEF Admit
  <2>7. Accepted
    BY <2>6 DEF Accepted
  <2>8. Framed(Kind) => answer.payload[1] = sent[1].value
    BY <1>2, <2>2, <2>3, <2>7, AcceptedCall DEF name, Framed
  <2>9. QED
    BY <2>2, <2>7, <2>8
<1>5. QED
  BY <1>1, <1>3, <1>4, SeedKinds DEF Kinds

\* contracts/android-ffi/v1/README.md: whatever damage a packet and its call suffer, what is
\* accepted is, byte for byte, the encoding of the value it is decoded to, and carries the
\* operation's own payload; undamaged, everything that can be encoded is accepted as sent.
THEOREM OnlyCanonicalAccepted == Spec => []AcceptedIsCanonical
<1>1. FfiInv => AcceptedIsCanonical
  <2> SUFFICES ASSUME FfiInv PROVE AcceptedIsCanonical
    OBVIOUS
  <2>1. ASSUME Accepted, ~InCall(Kind) PROVE Canonical(Kind, packet)
    <3>1. Kind \in Kinds /\ packet \in Packets(Kind)
      BY <2>1, DeliveredFacts DEF Accepted, OfKind, InCall, Kinds
    <3>2. QED
      BY <3>1, EveryPacketIsCanonical
  <2>2. ASSUME Accepted, InCall(Kind)
        PROVE  IF KindOf(answer.operation) = "none" THEN packet.size = 0
               ELSE Canonical(KindOf(answer.operation), packet)
    <3>1. CASE KindOf(answer.operation) = "none"
      BY <2>2, <3>1, AcceptedCall
    <3>2. CASE KindOf(answer.operation) # "none"
      <4>1. KindOf(answer.operation) = Kind /\ Kind \in Kinds
        BY <2>2, <3>2, AcceptedCall DEF KindOf, Kinds
      <4>2. packet \in Packets(Kind)
        BY <2>2, DeliveredFacts DEF Accepted, OfKind
      <4>3. QED
        BY <3>2, <4>1, <4>2, EveryPacketIsCanonical
    <3>3. QED
      BY <3>1, <3>2
  <2>3. QED
    BY <2>1, <2>2, UndamagedIsAccepted DEF AcceptedIsCanonical
<1>2. QED
  BY <1>1, FfiInvariant, PTL

\* Two accepted bodies that differ in one field have the same base and outcome: the revisions
\* determine each other, and no reason is allowed for two outcomes.
LEMMA OneFieldKeepsOutcome ==
  ASSUME NEW b \in CommitBody, NEW o \in CommitBody, AlmostSame(b, o, DOMAIN CommitLayout),
         DecodeCommitResult(b, BodyBytes).code = "none",
         DecodeCommitResult(o, BodyBytes).code = "none"
  PROVE  LET v == DecodeCommitResult(b, BodyBytes).value
             w == DecodeCommitResult(o, BodyBytes).value
         IN v.base_revision = w.base_revision /\ v.outcome = w.outcome
<1>1. /\ ~InvalidRevisions(b.base_revision, b.target_revision)
      /\ ~InvalidRevisions(o.base_revision, o.target_revision)
      /\ NameOf(Reasons, b.reason) \in AllowedReasons(NameOf(Outcomes, b.outcome))
      /\ NameOf(Reasons, o.reason) \in AllowedReasons(NameOf(Outcomes, o.outcome))
  BY CommitDecoded DEF DecodeCommitResult, Coded
<1>2. PICK n \in DOMAIN CommitLayout : \A m \in DOMAIN CommitLayout \ {n} : b[m] = o[m]
  BY DEF AlmostSame
<1>3. b.base_revision = o.base_revision
  <2>1. b.base_revision = o.base_revision \/ b.target_revision = o.target_revision
    BY <1>2 DEF CommitLayout
  <2>2. b.target_revision = b.base_revision + 1 /\ o.target_revision = o.base_revision + 1
    BY <1>1 DEF InvalidRevisions
  <2>3. QED
    BY <2>1, <2>2 DEF CommitBody
<1>4. ASSUME NEW x, NEW y, NEW r, r \in AllowedReasons(x), r \in AllowedReasons(y)
      PROVE  x = y
  BY <1>4 DEF AllowedReasons
<1>5. NameOf(Outcomes, b.outcome) = NameOf(Outcomes, o.outcome)
  <2>1. b.outcome = o.outcome \/ b.reason = o.reason
    BY <1>2 DEF CommitLayout
  <2>2. QED
    BY <1>1, <1>4, <2>1
<1>6. QED
  BY <1>3, <1>5 DEF DecodeCommitResult, Coded

\* What a call's payload decodes to is what its body decodes to.
LEMMA CommitOfPayload ==
  ASSUME NEW p \in PayloadPacket(CommitBody), Decode("commit_result", p).code = "none"
  PROVE  /\ DecodeCommitResult(p.body, BodyBytes).code = "none"
         /\ Decode("commit_result", p).value = DecodeCommitResult(p.body, BodyBytes).value
<1> DEFINE outer == DecodeOperationPayload(OperationOf("commit_result"), p)
           bytes == p.size - PayloadHeader
<1>1. outer.code = "none" /\ outer.value = p.body
  BY DEF Decode, DecodeOperationPayload, Coded
<1>2. Decode("commit_result", p) = DecodeCommitResult(p.body, bytes)
  BY <1>1 DEF Decode, DecodeBody
<1> HIDE DEF outer, bytes
<1>3. bytes = BodyBytes
  BY <1>2, CommitDecoded DEF DecodeCommitResult, Coded
<1>4. QED
  BY <1>2, <1>3

\* A call with one wrong primitive does not become a create, or stop being one: the
\* generation would be wrong (admit).
LEMMA OneMisuseKeepsOperation ==
  ASSUME FfiInv, Accepted, InCall(Kind), AlmostSame(call, CallFor(Kind), CallFields)
  PROVE  answer.operation = "CREATE_SURFACE" <=> Kind = "create"
<1> DEFINE made == CallFor(Kind)
           name == NameOf(Operations, made.operation)
           operation == NameOf(Operations, call.operation)
<1>1. Kind \in {"event", "commit_result", "create", "dispose"}
  BY DeliveredFacts, SeedKinds DEF Accepted, InCall, Kinds
<1>2. /\ name = "CREATE_SURFACE" <=> Kind = "create"
      /\ Kind = "create" => made.generation = 0
      /\ Kind # "create" => TransportId(made.generation)
  BY <1>1, WellMadeCall
<1>3. answer.operation = operation /\ ValidGeneration(operation, call.generation)
  BY AcceptedCall
<1>4. call.operation = made.operation \/ call.generation = made.generation
  BY DEF AlmostSame, CallFields
<1> HIDE DEF made
<1>5. CASE call.operation = made.operation
  BY <1>2, <1>3, <1>5
<1>6. CASE call.generation = made.generation
  BY <1>2, <1>3, <1>6 DEF ValidGeneration, TransportId
<1>7. QED
  BY <1>4, <1>5, <1>6

\* ADR-0004 and contracts/android-ffi/v1/README.md: one damage, to the packet or to the call,
\* does not turn a reported commit result into one of another base revision or another
\* outcome, nor the call of a surface into its creation or the other way round.
THEOREM OneDamageKeepsResult == Spec => []OneDamageKeepsOutcome
<1>1. FfiInv => OneDamageKeepsOutcome
  <2> SUFFICES ASSUME FfiInv, Accepted, InCall(Kind), damages = 1
               PROVE  /\ answer.operation = "CREATE_SURFACE" <=> Kind = "create"
                      /\ Kind = "commit_result" =>
                           /\ answer.payload[1].base_revision = sent[1].value.base_revision
                           /\ answer.payload[1].outcome = sent[1].value.outcome
    BY DEF OneDamageKeepsOutcome
  <2> DEFINE original == Encoded(sent[1]).value
  <2>1. /\ sent[1] \in Seeds /\ Kind = sent[1].kind /\ OfKind(Kind, packet)
        /\ Encoded(sent[1]).code = "none" /\ OneChange(sent[1], packet, call)
    BY DeliveredFacts DEF Accepted
  <2>2. Framed(Kind) =>
          /\ OfKind(Kind, original) /\ original.size # 0
          /\ Decode(Kind, original) = [code |-> "none", value |-> sent[1].value]
    BY <2>1, EncodedFacts
  <2>3. AlmostSame(call, CallFor(Kind), CallFields)
    BY <2>1 DEF OneChange, AlmostSame, CallFields
  <2>4. answer.operation = "CREATE_SURFACE" <=> Kind = "create"
    BY <2>3, OneMisuseKeepsOperation
  <2>5. ASSUME Kind = "commit_result"
        PROVE  /\ answer.payload[1].base_revision = sent[1].value.base_revision
               /\ answer.payload[1].outcome = sent[1].value.outcome
    <3>1. /\ packet \in PayloadPacket(CommitBody) /\ original \in PayloadPacket(CommitBody)
          /\ original.size # 0 /\ Decode("commit_result", original).code = "none"
          /\ Decode("commit_result", original).value = sent[1].value
      BY <2>1, <2>2, <2>5 DEF OfKind, Packets, Framed
    <3>2. CASE call = CallFor(Kind) /\ AlmostSame(packet.body, original.body, DOMAIN CommitLayout)
      <4>1. KindOf(NameOf(Operations, call.operation)) = "commit_result"
        BY <2>5, <3>2, WellMadeCall
      <4>2. /\ Decode("commit_result", packet).code = "none"
            /\ answer.payload[1] = Decode("commit_result", packet).value
        BY <4>1, AcceptedCall
      <4> HIDE DEF original
      <4>3. packet.body \in CommitBody /\ original.body \in CommitBody
        BY <3>1 DEF PayloadPacket
      <4>4. QED
        BY <3>1, <3>2, <4>2, <4>3, CommitOfPayload, OneFieldKeepsOutcome
    <3>3. CASE packet = original
      <4>1. KindOf(NameOf(Operations, call.operation)) # "none"
        BY <3>1, <3>3, AcceptedCall
      <4>2. answer.payload[1] = Decode("commit_result", packet).value
        BY <2>5, <4>1, AcceptedCall
      <4>3. QED
        BY <3>1, <3>3, <4>2
    <3>4. QED
      BY <2>1, <2>5, <3>2, <3>3 DEF OneChange
  <2>6. QED
    BY <2>4, <2>5
<1>2. QED
  BY <1>1, FfiInvariant, PTL

-----------------------------------------------------------------------------
(* Widths: what is encoded fits its fields, and an inverted bit leaves a value that fits. *)

LEMMA NatSetInduction ==
  ASSUME NEW S, 0 \in S, \A n \in Nat : n \in S => n + 1 \in S
  PROVE  Nat \subseteq S
<1> DEFINE T == {n \in Nat : n \notin S}
<1> SUFFICES ASSUME T # {} PROVE FALSE
  OBVIOUS
<1>1. Min(T) \in T /\ \A y \in T : Min(T) <= y
  BY MinIsLeast
<1>2. Min(T) \in Nat /\ Min(T) # 0 /\ Min(T) - 1 \in Nat /\ (Min(T) - 1) + 1 = Min(T)
  BY <1>1
<1>3. Min(T) - 1 \in S
  BY <1>1, <1>2
<1>4. QED
  BY <1>1, <1>2, <1>3

LEMMA FirstPower == 2^0 = 1
<1>1. IsFiniteSet({}) /\ Cardinality({}) = 0
  BY FS_EmptySet
<1>2. Cardinality(SUBSET {}) = 2^0
  BY <1>1, FS_SUBSET
<1>3. SUBSET {} = {{}} /\ Cardinality({{}}) = 1
  BY FS_Singleton
<1>4. QED
  BY <1>2, <1>3

\* A set with one element more has twice as many subsets.
LEMMA NextPower ==
  ASSUME NEW n \in Nat
  PROVE  2^(n + 1) = 2 * 2^n
<1> DEFINE A == SUBSET (1..n)
           More(s) == s \cup {n + 1}
           B == {More(s) : s \in A}
           f == [s \in A |-> More(s)]
<1>1. IsFiniteSet(A) /\ Cardinality(A) = 2^n
  <2>1. IsFiniteSet(1..n) /\ Cardinality(1..n) = n
    BY FS_Interval
  <2>2. QED
    BY <2>1, FS_SUBSET
<1>2. Cardinality(SUBSET (1..n + 1)) = 2^(n + 1)
  <2>1. IsFiniteSet(1..n + 1) /\ Cardinality(1..n + 1) = n + 1
    BY FS_Interval
  <2>2. QED
    BY <2>1, FS_SUBSET
<1>3. n + 1 \notin 1..n /\ 1..n + 1 = (1..n) \cup {n + 1}
  OBVIOUS
<1>4. \A s \in A : n + 1 \notin s
  BY <1>3
<1>5. SUBSET (1..n + 1) = A \cup B
  <2>1. \A s \in SUBSET (1..n + 1) : s \in A \cup B
    <3> SUFFICES ASSUME NEW s \in SUBSET (1..n + 1), n + 1 \in s
                 PROVE  s \in B
      BY <1>3
    <3>1. s \ {n + 1} \in A /\ s = More(s \ {n + 1})
      BY <1>3
    <3>2. QED
      BY <3>1
  <2>2. A \cup B \subseteq SUBSET (1..n + 1)
    BY <1>3
  <2>3. QED
    BY <2>1, <2>2
<1>6. A \cap B = {}
  BY <1>4
<1>7. \A s, t \in A : More(s) = More(t) => s = t
  BY <1>4
<1> HIDE DEF A, More
<1>8. f \in Bijection(A, B)
  <2>1. f \in Injection(A, B)
    BY <1>7 DEF Injection, IsInjective
  <2>2. f \in Surjection(A, B)
    BY DEF Surjection
  <2>3. QED
    BY <2>1, <2>2 DEF Bijection
<1>9. IsFiniteSet(B) /\ Cardinality(B) = 2^n
  <2>1. ExistsBijection(A, B)
    BY <1>8 DEF ExistsBijection
  <2>2. QED
    BY <1>1, <2>1, FS_Bijection
<1> HIDE DEF B
<1>10. 2^n \in Nat
  BY PowerOfTwo
<1>11. Cardinality(A \cup B) = 2^n + 2^n
  <2>1. Cardinality(A \cup B) = Cardinality(A) + Cardinality(B) - Cardinality(A \cap B)
    BY <1>1, <1>9, FS_Union
  <2>2. Cardinality(A \cap B) = 0
    BY <1>6, FS_EmptySet
  <2>3. QED
    BY <1>1, <1>9, <1>10, <2>1, <2>2
<1>12. Cardinality(A \cup B) = 2^(n + 1)
  BY ONLY <1>2, <1>5, Zenon
<1>13. QED
  BY ONLY <1>10, <1>11, <1>12

LEMMA PowerSum ==
  ASSUME NEW a \in Nat, NEW b \in Nat
  PROVE  2^(a + b) = 2^a * 2^b
<1> DEFINE S == {n \in Nat : 2^(a + n) = 2^a * 2^n}
<1>1. 2^0 = 1
  BY FirstPower
<1>2. 2^a \in Nat
  BY PowerOfTwo
<1>3. 0 \in S
  <2>1. a + 0 = a /\ 2^a * 1 = 2^a
    BY <1>2
  <2>2. QED
    BY <1>1, <2>1
<1>4. ASSUME NEW n \in Nat, n \in S
      PROVE  n + 1 \in S
  <2>1. 2^(n + 1) = 2 * 2^n /\ 2^((a + n) + 1) = 2 * 2^(a + n)
    BY NextPower
  <2>2. 2^(a + n) = 2^a * 2^n /\ 2^n \in Nat /\ a + (n + 1) = (a + n) + 1
    BY <1>4, PowerOfTwo
  <2>3. \A x, y \in Nat : 2 * (x * y) = x * (2 * y)
    OBVIOUS
  <2>4. QED
    BY <1>2, <2>1, <2>2, <2>3
<1>5. Nat \subseteq S
  <2> HIDE DEF S
  <2>1. QED
    BY <1>3, <1>4, NatSetInduction
<1>6. QED
  BY <1>5

\* The powers of the contract's fixed widths.
LEMMA FixedWidths == 2^3 = 8 /\ 2^4 = 16 /\ 2^7 = 128 /\ 2^10 = 1024 /\ 2^11 = 2048
<1>1. 2^0 = 1
  BY FirstPower
<1>2. \A n \in Nat : 2^(n + 1) = 2 * 2^n
  BY NextPower
<1>3. 2^1 = 2 /\ 2^2 = 4 /\ 2^3 = 8
  <2>1. 2^(0 + 1) = 2 * 2^0 /\ 2^(1 + 1) = 2 * 2^1 /\ 2^(2 + 1) = 2 * 2^2
    BY <1>2
  <2>2. 0 + 1 = 1 /\ 1 + 1 = 2 /\ 2 + 1 = 3
    OBVIOUS
  <2>3. QED
    BY <1>1, <2>1, <2>2
<1>4. 2^4 = 16 /\ 2^5 = 32 /\ 2^6 = 64 /\ 2^7 = 128
  <2>1. 2^(3 + 1) = 2 * 2^3 /\ 2^(4 + 1) = 2 * 2^4 /\ 2^(5 + 1) = 2 * 2^5 /\ 2^(6 + 1) = 2 * 2^6
    BY <1>2
  <2>2. 3 + 1 = 4 /\ 4 + 1 = 5 /\ 5 + 1 = 6 /\ 6 + 1 = 7
    OBVIOUS
  <2>3. QED
    BY <1>3, <2>1, <2>2
<1>5. 2^8 = 256 /\ 2^9 = 512 /\ 2^10 = 1024 /\ 2^11 = 2048
  <2>1. 2^(7 + 1) = 2 * 2^7 /\ 2^(8 + 1) = 2 * 2^8 /\ 2^(9 + 1) = 2 * 2^9 /\ 2^(10 + 1) = 2 * 2^10
    BY <1>2
  <2>2. 7 + 1 = 8 /\ 8 + 1 = 9 /\ 9 + 1 = 10 /\ 10 + 1 = 11
    OBVIOUS
  <2>3. QED
    BY <1>4, <2>1, <2>2
<1>6. QED
  BY <1>3, <1>4, <1>5

\* One bit of a value below 2 * a * c is inverted, that of weight a.
LEMMA BitInRange ==
  ASSUME NEW a \in Nat \ {0}, NEW c \in Nat \ {0}, NEW bits \in 0..2 * (a * c) - 1
  PROVE  LET flipped == IF (bits \div a) % 2 = 0 THEN bits + a ELSE bits - a
         IN  flipped \in 0..2 * (a * c) - 1
<1> DEFINE q == bits \div a
           r == bits % a
<1>1. q \in Nat /\ r \in 0..a - 1 /\ bits = a * q + r
  OBVIOUS
<1> HIDE DEF q, r
<1>2. a * c \in Nat
  OBVIOUS
<1>3. CASE q % 2 = 0
  <2>1. PICK t \in Nat : q = 2 * t
    BY <1>1, <1>3
  <2>2. a * q = 2 * (a * t)
    BY <2>1
  <2>3. t < c
    <3> SUFFICES ASSUME t >= c PROVE FALSE
      BY <2>1
    <3>1. a * t >= a * c
      BY <2>1
    <3>2. a * t \in Nat
      BY <2>1
    <3>3. QED
      BY <1>1, <1>2, <2>2, <3>1, <3>2
  <2>4. a * t + a <= a * c
    <3>1. a * (t + 1) <= a * c
      BY <2>1, <2>3
    <3>2. a * (t + 1) = a * t + a
      BY <2>1
    <3>3. QED
      BY <3>1, <3>2
  <2>5. a * t \in Nat
    BY <2>1
  <2>6. bits + a \in 0..2 * (a * c) - 1
    BY <1>1, <1>2, <2>2, <2>4, <2>5
  <2>7. QED
    BY <1>3, <2>6 DEF q
<1>4. CASE q % 2 # 0
  <2>1. q >= 1
    BY <1>1, <1>4
  <2>2. a * q >= a
    BY <1>1, <2>1
  <2>3. bits - a \in 0..2 * (a * c) - 1
    BY <1>1, <1>2, <2>2
  <2>4. QED
    BY <1>4, <2>3 DEF q
<1>5. QED
  BY <1>3, <1>4

LEMMA InvertedFits ==
  ASSUME NEW f, NEW value \in Int, NEW width \in Nat \ {0}, NEW k \in 0..width - 1
  PROVE  InField(f, Inverted(f, value, width, k), width)
<1> DEFINE a == 2^k
           c == 2^(width - 1 - k)
           W == 2^width
           H == 2^(width - 1)
           bits == value % W
           flipped == IF (bits \div a) % 2 = 0 THEN bits + a ELSE bits - a
<1>1. a \in Nat \ {0} /\ c \in Nat \ {0} /\ W \in Nat \ {0} /\ H \in Nat \ {0}
  BY PowerOfTwo
<1>2. H = a * c
  <2>1. k \in Nat /\ width - 1 - k \in Nat /\ k + (width - 1 - k) = width - 1
    OBVIOUS
  <2>2. 2^(k + (width - 1 - k)) = 2^k * 2^(width - 1 - k)
    BY ONLY <2>1, PowerSum
  <2>3. QED
    BY <2>1, <2>2
<1>3. W = 2 * H
  <2>1. width - 1 \in Nat /\ (width - 1) + 1 = width
    OBVIOUS
  <2>2. 2^((width - 1) + 1) = 2 * 2^(width - 1)
    BY ONLY <2>1, NextPower
  <2>3. QED
    BY <2>1, <2>2
<1>4. Inverted(f, value, width, k) =
        IF f \in SignedFields /\ flipped >= H THEN flipped - W ELSE flipped
  BY DEF Inverted
<1>5. InField(f, Inverted(f, value, width, k), width) <=>
        IF f \in SignedFields THEN Inverted(f, value, width, k) \in -H..H - 1
        ELSE Inverted(f, value, width, k) \in 0..W - 1
  BY DEF InField
<1> HIDE DEF a, c, W, H
<1>6. bits \in 0..W - 1
  BY <1>1
<1> HIDE DEF bits
<1>7. flipped \in 0..W - 1
  <2>1. bits \in 0..2 * (a * c) - 1
    BY <1>2, <1>3, <1>6
  <2>2. flipped \in 0..2 * (a * c) - 1
    BY <1>1, <2>1, BitInRange
  <2>3. QED
    BY <1>2, <1>3, <2>2
<1> HIDE DEF flipped
<1>8. QED
  BY <1>1, <1>3, <1>4, <1>5, <1>7

LEMMA FlippedFits ==
  ASSUME NEW fields, NEW layout, DOMAIN layout \subseteq DOMAIN fields,
         \A f \in DOMAIN layout : layout[f] \in Nat /\ fields[f] \in Int,
         Fits(fields, layout), NEW q \in FlippedFields(fields, layout)
  PROVE  Fits(q, layout)
<1>1. PICK f \in DOMAIN layout :
        q \in {[fields EXCEPT ![f] = Inverted(f, @, layout[f], k)] : k \in 0..layout[f] - 1}
  BY DEF FlippedFields
<1>2. PICK k \in 0..layout[f] - 1 :
        q = [fields EXCEPT ![f] = Inverted(f, fields[f], layout[f], k)]
  BY <1>1
<1>3. layout[f] \in Nat \ {0} /\ fields[f] \in Int
  BY <1>2
<1>4. InField(f, Inverted(f, fields[f], layout[f], k), layout[f])
  BY <1>2, <1>3, InvertedFits
<1>5. q[f] = Inverted(f, fields[f], layout[f], k) /\ \A g \in DOMAIN layout : g # f => q[g] = fields[g]
  BY <1>2
<1>6. QED
  BY <1>4, <1>5 DEF Fits

LEMMA SameFieldsFit ==
  ASSUME NEW fields, NEW layout, Fits(fields, layout), NEW q, \A f \in DOMAIN layout : q[f] = fields[f]
  PROVE  Fits(q, layout)
BY DEF Fits

\* A packet of a kind, in its layout.
FieldsFit(kind, p) ==
  IF kind = "response" THEN Fits(p, ResponseLayout)
  ELSE Fits(p, PayloadLayout) /\ Fits(p.body, BodyLayout(kind))

LEMMA IdentifierFits ==
  ASSUME NEW f \in {"request_id", "node_id", "sequence", "base_revision", "target_revision"},
         NEW x \in 0..MaxTransportId
  PROVE  InField(f, x, IdBits)
<1>1. IdBits - 1 \in Nat
  BY FfiAssumption
<1>2. 2^(IdBits - 1) \in Nat
  BY <1>1, PowerOfTwo
<1>3. x \in -(2^(IdBits - 1))..2^(IdBits - 1) - 1
  BY <1>2 DEF MaxTransportId
<1>4. QED
  BY <1>3 DEF InField, SignedFields

\* The limits of the two headers' lengths.
LEMMA PayloadLimit == MaxPayloadBytes \in 0..127
<1>1. MaxPayloadBytes < 2^7
  BY LimitAssumption DEF ResponseLayout
<1>2. MaxPayloadBytes \in Nat
  BY FfiAssumption
<1>3. 2^7 = 128
  BY FixedWidths
<1>4. QED
  BY <1>1, <1>2, <1>3

LEMMA HeaderFits ==
  ASSUME NEW operation \in 1..4, NEW p, FirstViolation(PayloadDecoderChecks(operation, p)) = "none",
         NEW Body, p \in PayloadPacket(Body)
  PROVE  Fits(p, PayloadLayout)
<1>1. /\ p.magic = Magic /\ p.schema_version = Version /\ p.operation = operation
      /\ p.reserved = 0 /\ ~(p.body_bytes > MaxPayloadBytes - PayloadHeader)
      /\ ~(p.size < PayloadHeader) /\ p.size = PayloadHeader + p.body_bytes
  BY PayloadDecoded
<1>2. p.body_bytes \in Int /\ p.size \in Int
  BY DEF PayloadPacket
<1>3. p.body_bytes \in 0..127
  <2>1. ~(p.body_bytes > MaxPayloadBytes - 16) /\ ~(p.size < 16) /\ p.size = 16 + p.body_bytes
    BY <1>1 DEF PayloadHeader
  <2>2. QED
    BY ONLY <1>2, <2>1, PayloadLimit
<1>4. p.magic = 1 /\ p.schema_version = 1 /\ p.operation \in 1..4 /\ p.reserved = 0
  BY <1>1 DEF Magic, Version
<1>5. 2^4 = 16 /\ 2^7 = 128
  BY FixedWidths
<1>6. /\ InField("magic", p.magic, 4) /\ InField("schema_version", p.schema_version, 4)
      /\ InField("operation", p.operation, 4) /\ InField("reserved", p.reserved, 4)
  BY ONLY <1>4, <1>5 DEF InField, SignedFields
<1>7. InField("body_bytes", p.body_bytes, 7)
  BY ONLY <1>3, <1>5 DEF InField, SignedFields
<1>8. QED
  BY ONLY <1>6, <1>7 DEF Fits, PayloadLayout

LEMMA EventFits ==
  ASSUME NEW b, NEW bytes, DecodeEvent(b, bytes).code = "none"
  PROVE  Fits(b, EventLayout)
<1>1. /\ b.node_id \in 1..MaxTransportId /\ b.sequence \in 1..MaxTransportId
      /\ NameOf(EventCodes, b.event_code) # "none" /\ b.flags = 0 /\ b.reserved = 0
  BY EventDecoded DEF DecodeEvent, Coded
<1>2. b.event_code = 1
  BY <1>1 DEF NameOf, EventCodes, Range
<1>3. InField("node_id", b.node_id, IdBits) /\ InField("sequence", b.sequence, IdBits)
  BY <1>1, IdentifierFits
<1>4. InField("event_code", b.event_code, 4) /\ InField("flags", b.flags, 4)
      /\ InField("reserved", b.reserved, 4)
  BY <1>1, <1>2, FixedWidths DEF InField, SignedFields
<1>5. QED
  BY <1>3, <1>4 DEF Fits, EventLayout

LEMMA CommitFits ==
  ASSUME NEW b, NEW bytes, DecodeCommitResult(b, bytes).code = "none"
  PROVE  Fits(b, CommitLayout)
<1>1. /\ ~InvalidRevisions(b.base_revision, b.target_revision) /\ b.flags = 0
      /\ NameOf(Outcomes, b.outcome) # "none" /\ NameOf(Reasons, b.reason) # "none"
  BY CommitDecoded DEF DecodeCommitResult, Coded
<1>2. b.outcome \in 1..3 /\ b.reason \in 0..3
  BY <1>1 DEF NameOf, Outcomes, Reasons, Range
<1>3. b.base_revision \in 0..MaxTransportId /\ b.target_revision \in 0..MaxTransportId
  BY <1>1, LastIdentifier DEF InvalidRevisions
<1>4. /\ InField("base_revision", b.base_revision, IdBits)
      /\ InField("target_revision", b.target_revision, IdBits)
  BY <1>3, IdentifierFits
<1>5. InField("outcome", b.outcome, 4) /\ InField("reason", b.reason, 4) /\ InField("flags", b.flags, 4)
  BY <1>1, <1>2, FixedWidths DEF InField, SignedFields
<1>6. QED
  BY <1>4, <1>5 DEF Fits, CommitLayout

\* What is accepted is in the layout, so what was encoded is.
LEMMA DecodedFits ==
  ASSUME NEW kind \in Kinds, NEW p \in Packets(kind), Decode(kind, p).code = "none"
  PROVE  FieldsFit(kind, p)
<1>1. CASE kind = "response"
  <2>1. p \in ResponsePacket /\ FirstViolation(ResponseDecoderChecks(p)) = "none"
    BY <1>1 DEF Packets, Decode, DecodeResponse, Coded
  <2> DEFINE passed == /\ ~(p.size < ResponseHeader) /\ p.magic = Magic /\ p.abi_version = Version
                       /\ p.header_bytes = ResponseHeader /\ p.status \in Range(Statuses)
                       /\ p.request_id \in 0..MaxTransportId /\ p.reserved = 0
                       /\ ~(p.payload_bytes > MaxPayloadBytes)
                       /\ p.size = p.header_bytes + p.payload_bytes
  <2>2. /\ p.magic = 1 /\ p.abi_version = 1 /\ p.header_bytes = 32 /\ p.reserved = 0
        /\ p.status \in Range(Statuses) /\ p.request_id \in 0..MaxTransportId
        /\ ~(p.payload_bytes > MaxPayloadBytes) /\ ~(p.size < 32)
        /\ p.size = 32 + p.payload_bytes
    <3>1. passed
      BY ONLY <2>1, ResponseDecoded
    <3>2. QED
      BY ONLY <3>1 DEF Magic, Version, ResponseHeader
  <2>3. p.payload_bytes \in 0..127
    <3>1. p.payload_bytes \in Int /\ p.size \in Int
      BY <2>1 DEF ResponsePacket
    <3>2. QED
      BY ONLY <2>2, <3>1, PayloadLimit
  <2>4. p.status \in {0, 100, 101, 102, 103, 104, 900}
    BY <2>2 DEF Statuses, Range
  <2>5. InField("request_id", p.request_id, IdBits)
    BY <2>2, IdentifierFits
  <2>6. InField("status", p.status, 11)
    BY <2>4, FixedWidths DEF InField, SignedFields
  <2>7. /\ InField("magic", p.magic, 4) /\ InField("abi_version", p.abi_version, 4)
        /\ InField("header_bytes", p.header_bytes, 7) /\ InField("reserved", p.reserved, 4)
        /\ InField("payload_bytes", p.payload_bytes, 7)
    BY <2>2, <2>3, FixedWidths DEF InField, SignedFields
  <2>8. Fits(p, ResponseLayout)
    BY <2>5, <2>6, <2>7 DEF Fits, ResponseLayout
  <2>9. QED
    BY <1>1, <2>8 DEF FieldsFit
<1>2. CASE kind \in {"event", "commit_result"}
  <2> DEFINE outer == DecodeOperationPayload(OperationOf(kind), p)
  <2>1. outer.code = "none" /\ DecodeBody(kind, p.body, p.size - PayloadHeader).code = "none"
    BY <1>2 DEF Decode, DecodeOperationPayload, Coded
  <2>2. \E Body : p \in PayloadPacket(Body)
    BY <1>2 DEF Packets
  <2>3. OperationOf(kind) \in 1..4
    BY <1>2 DEF OperationOf, Operations
  <2>4. FirstViolation(PayloadDecoderChecks(OperationOf(kind), p)) = "none"
    BY <2>1 DEF DecodeOperationPayload, Coded
  <2>5. Fits(p, PayloadLayout)
    BY <2>2, <2>3, <2>4, HeaderFits
  <2>6. CASE kind = "event"
    BY <2>1, <2>5, <2>6, EventFits DEF DecodeBody, FieldsFit, BodyLayout
  <2>7. CASE kind = "commit_result"
    BY <2>1, <2>5, <2>7, CommitFits DEF DecodeBody, FieldsFit, BodyLayout
  <2>8. QED
    BY <1>2, <2>6, <2>7
<1>3. QED
  BY <1>1, <1>2 DEF Kinds

-----------------------------------------------------------------------------
(* Every field of what is under way fits its width. *)

\* There is a packet while a framed seed is under way, in the layout of its kind.
InLayout ==
  /\ damages \in 0..MaxDamage
  /\ sent = <<>> => packet = NoPacket
  /\ sent # <<>> => packet = NoPacket \/ (Kind \in Kinds /\ FieldsFit(Kind, packet))

LEMMA UnderWayFits ==
  ASSUME FfiInv, InLayout, UnderWay, Framed(Kind)
  PROVE  Kind \in Kinds /\ packet \in Packets(Kind) /\ FieldsFit(Kind, packet)
<1>1. OfKind(Kind, packet) /\ sent # <<>>
  BY UnderWayFacts
<1>2. packet \in Packets(Kind) /\ Kind \in Kinds
  BY <1>1 DEF OfKind, Framed, Kinds
<1>3. packet # NoPacket
  <2>1. "magic" \in DOMAIN packet
    BY <1>2 DEF Packets, Kinds, ResponsePacket, PayloadPacket
  <2>2. "magic" \notin DOMAIN NoPacket
    BY DEF NoPacket
  <2>3. QED
    BY <2>1, <2>2
<1>4. QED
  BY <1>1, <1>2, <1>3 DEF InLayout

\* A seed's encoding is accepted, so it is in the layout.
LEMMA SendFits ==
  ASSUME FfiInv, InLayout, NEW seed \in Seeds, Send(seed)
  PROVE  InLayout'
<1> DEFINE encoded == Encoded(seed)
<1>1. /\ sent = <<>> /\ sent' = <<seed>> /\ damages' = damages
      /\ IF encoded.code = "none" THEN packet' = encoded.value ELSE packet' = packet
  BY DEF Send, Encoded
<1>2. packet = NoPacket /\ damages' \in 0..MaxDamage
  BY <1>1 DEF InLayout
<1>3. sent' # <<>> /\ Kind' = seed.kind
  BY <1>1 DEF Kind
<1>4. CASE encoded.code # "none"
  BY <1>1, <1>2, <1>3, <1>4 DEF InLayout
<1>5. CASE encoded.code = "none" /\ Framed(seed.kind)
  <2>1. /\ OfKind(seed.kind, encoded.value)
        /\ Decode(seed.kind, encoded.value) = [code |-> "none", value |-> seed.value]
    BY <1>5, EncodedFacts
  <2>2. seed.kind \in Kinds /\ encoded.value \in Packets(seed.kind)
    BY <1>5, <2>1 DEF OfKind, Framed, Kinds
  <2>3. Decode(seed.kind, encoded.value).code = "none"
    BY <2>1
  <2> HIDE DEF encoded
  <2>4. FieldsFit(seed.kind, encoded.value)
    BY ONLY <2>2, <2>3, DecodedFits
  <2>5. FieldsFit(Kind, packet)'
    BY <1>1, <1>3, <1>5, <2>4 DEF FieldsFit, Fits, InField, BodyLayout
  <2>6. QED
    BY <1>2, <1>3, <2>2, <2>5 DEF InLayout
<1>6. CASE encoded.code = "none" /\ ~Framed(seed.kind)
  <2>1. packet' = NoPacket
    BY <1>1, <1>6 DEF Encoded
  <2>2. QED
    BY <1>2, <1>3, <2>1 DEF InLayout
<1>7. QED
  BY <1>4, <1>5, <1>6

LEMMA DamageFits ==
  ASSUME InLayout, UnderWay, Kind \in Kinds, NEW p, NEW c, Damage(p, c), FieldsFit(Kind, p)
  PROVE  InLayout'
<1>1. packet' = p /\ sent' = sent /\ damages' = damages + 1 /\ damages < MaxDamage
  BY DEF Damage
<1>2. Kind' = Kind /\ sent' # <<>>
  BY <1>1 DEF Kind, UnderWay
<1>3. damages' \in 0..MaxDamage
  BY <1>1, DamageAssumption DEF InLayout
<1>4. FieldsFit(Kind, packet)'
  BY <1>1, <1>2 DEF FieldsFit, Fits, InField, BodyLayout
<1>5. QED
  BY <1>2, <1>3, <1>4 DEF InLayout

LEMMA FlipBitFits ==
  ASSUME FfiInv, InLayout, FlipBit
  PROVE  InLayout'
<1>1. UnderWay /\ Framed(Kind)
  BY DEF FlipBit, Kind
<1>2. PICK p \in Flipped(Kind, packet) : Damage(p, call)
  BY DEF FlipBit, Kind
<1>3. Kind \in Kinds /\ packet \in Packets(Kind) /\ FieldsFit(Kind, packet)
  BY <1>1, UnderWayFits
<1>4. CASE Kind = "response"
  <2>1. packet \in ResponsePacket /\ Fits(packet, ResponseLayout)
    BY <1>3, <1>4 DEF Packets, FieldsFit
  <2>2. /\ DOMAIN ResponseLayout \subseteq DOMAIN packet
        /\ \A f \in DOMAIN ResponseLayout : ResponseLayout[f] \in Nat /\ packet[f] \in Int
    BY <2>1, FfiAssumption DEF ResponseLayout, ResponsePacket
  <2>3. ASSUME p \in FlippedFields(packet, ResponseLayout)
        PROVE  Fits(p, ResponseLayout)
    BY <2>1, <2>2, <2>3, FlippedFits
  <2>4. ASSUME p \in FlippedFields(packet, OpaqueLayout(packet))
        PROVE  Fits(p, ResponseLayout)
    <3>1. \A f \in DOMAIN OpaqueLayout(packet) : OpaqueLayout(packet)[f] \in Nat /\ packet[f] \in Int
      BY <2>1 DEF OpaqueLayout, ResponsePacket
    <3>2. Replaced(packet, p, {"payload"})
      BY <2>4, <3>1, FlippedIsReplaced DEF OpaqueLayout
    <3>3. \A f \in DOMAIN ResponseLayout : p[f] = packet[f]
      BY <2>2, <3>2 DEF Replaced, ResponseLayout
    <3>4. QED
      BY <2>1, <3>3, SameFieldsFit
  <2>5. Fits(p, ResponseLayout)
    BY <1>2, <1>4, <2>3, <2>4 DEF Flipped
  <2>6. FieldsFit(Kind, p)
    BY <1>4, <2>5 DEF FieldsFit
  <2>7. QED
    BY <1>1, <1>2, <1>3, <2>6, DamageFits
<1>5. CASE Kind \in {"event", "commit_result"}
  <2>1. /\ Fits(packet, PayloadLayout) /\ Fits(packet.body, BodyLayout(Kind))
        /\ packet \in PayloadPacket(IF Kind = "event" THEN EventBody ELSE CommitBody)
    BY <1>3, <1>5 DEF Packets, FieldsFit
  <2>2. /\ DOMAIN PayloadLayout \subseteq DOMAIN packet
        /\ \A f \in DOMAIN PayloadLayout : PayloadLayout[f] \in Nat /\ packet[f] \in Int
    BY <2>1 DEF PayloadLayout, PayloadPacket
  <2>3. /\ DOMAIN BodyLayout(Kind) \subseteq DOMAIN packet.body
        /\ \A f \in DOMAIN BodyLayout(Kind) : BodyLayout(Kind)[f] \in Nat /\ packet.body[f] \in Int
    <3>1. packet.body \in IF Kind = "event" THEN EventBody ELSE CommitBody
      BY <2>1 DEF PayloadPacket
    <3>2. CASE Kind = "event"
      BY <3>1, <3>2, FfiAssumption DEF BodyLayout, EventLayout, EventBody
    <3>3. CASE Kind = "commit_result"
      BY <3>1, <3>3, FfiAssumption DEF BodyLayout, CommitLayout, CommitBody
    <3>4. QED
      BY <1>5, <3>2, <3>3
  <2>4. ASSUME p \in FlippedFields(packet, PayloadLayout)
        PROVE  FieldsFit(Kind, p)
    <3>1. Fits(p, PayloadLayout)
      BY <2>1, <2>2, <2>4, FlippedFits
    <3>2. p.body = packet.body
      BY <2>1, <2>2, <2>4, FlippedIsReplaced, HeaderReplaced
    <3>3. QED
      BY <1>5, <2>1, <3>1, <3>2 DEF FieldsFit
  <2>5. ASSUME NEW body \in FlippedFields(packet.body, BodyLayout(Kind)),
               p = [packet EXCEPT !.body = body]
        PROVE  FieldsFit(Kind, p)
    <3>1. Fits(body, BodyLayout(Kind))
      BY <2>1, <2>3, FlippedFits
    <3>2. p.body = body /\ \A f \in DOMAIN PayloadLayout : p[f] = packet[f]
      BY <2>1, <2>5 DEF PayloadPacket, PayloadLayout
    <3>3. Fits(p, PayloadLayout)
      BY <2>1, <3>2, SameFieldsFit
    <3>4. QED
      BY <1>5, <3>1, <3>2, <3>3 DEF FieldsFit
  <2>6. p \in FlippedFields(packet, PayloadLayout)
          \cup {[packet EXCEPT !.body = body] : body \in FlippedFields(packet.body, BodyLayout(Kind))}
    BY <1>2, <1>5 DEF Flipped
  <2>7. FieldsFit(Kind, p)
    BY <2>4, <2>5, <2>6
  <2>8. QED
    BY <1>1, <1>2, <1>3, <2>7, DamageFits
<1>6. QED
  BY <1>3, <1>4, <1>5 DEF Kinds

\* Bytes that are cut off or appended are no part of the fields.
LEMMA ResizeFits ==
  ASSUME FfiInv, InLayout, CutOff \/ Append1
  PROVE  InLayout'
<1>1. UnderWay /\ Framed(Kind)
  BY DEF CutOff, Append1, Kind
<1>2. Kind \in Kinds /\ packet \in Packets(Kind) /\ FieldsFit(Kind, packet)
  BY <1>1, UnderWayFits
<1>3. PICK size : Damage(Resized(packet, size), call)
  BY DEF CutOff, Append1
<1> DEFINE p == Resized(packet, size)
<1>4. p = [packet EXCEPT !.size = size] \/ p = [[packet EXCEPT !.size = size] EXCEPT !.payload = 0]
  BY DEF Resized
<1> HIDE DEF p
<1>5. ASSUME Kind = "response"
      PROVE  FieldsFit(Kind, p)
  <2>1. packet \in ResponsePacket /\ Fits(packet, ResponseLayout)
    BY <1>2, <1>5 DEF Packets, FieldsFit
  <2>2. \A f \in DOMAIN ResponseLayout : p[f] = packet[f]
    BY <1>4, <2>1 DEF ResponsePacket, ResponseLayout
  <2>3. QED
    BY <1>5, <2>1, <2>2, SameFieldsFit DEF FieldsFit
<1>6. ASSUME Kind \in {"event", "commit_result"}
      PROVE  FieldsFit(Kind, p)
  <2>1. /\ Fits(packet, PayloadLayout) /\ Fits(packet.body, BodyLayout(Kind))
        /\ packet \in PayloadPacket(IF Kind = "event" THEN EventBody ELSE CommitBody)
    BY <1>2, <1>6 DEF Packets, FieldsFit
  <2>2. p.body = packet.body /\ \A f \in DOMAIN PayloadLayout : p[f] = packet[f]
    BY <1>4, <2>1 DEF PayloadPacket, PayloadLayout
  <2>3. Fits(p, PayloadLayout)
    BY <2>1, <2>2, SameFieldsFit
  <2>4. QED
    BY <1>6, <2>1, <2>2, <2>3 DEF FieldsFit
<1>7. FieldsFit(Kind, p)
  BY <1>2, <1>5, <1>6 DEF Kinds
<1>8. QED
  BY <1>1, <1>2, <1>3, <1>7, DamageFits DEF p

\* A misused call carries the packet it had, or none.
LEMMA MisuseFits ==
  ASSUME FfiInv, InLayout, Misuse
  PROVE  InLayout'
<1>1. PICK c : Damage(packet, c)
  BY DEF Misuse
<1>2. /\ packet' = packet /\ sent' = sent /\ damages' = damages + 1 /\ damages < MaxDamage
  BY <1>1 DEF Damage
<1>3. damages' \in 0..MaxDamage
  BY <1>2, DamageAssumption DEF InLayout
<1>4. Kind' = Kind /\ FieldsFit(Kind, packet)' = FieldsFit(Kind, packet)
  BY <1>2 DEF Kind, FieldsFit, Fits, InField, BodyLayout
<1>5. QED
  BY <1>2, <1>3, <1>4 DEF InLayout

LEMMA NextFits == FfiInv /\ InLayout /\ [Next]_vars => InLayout'
<1> SUFFICES ASSUME FfiInv, InLayout, [Next]_vars PROVE InLayout'
  OBVIOUS
<1>1. CASE Forget
  BY <1>1, DamageAssumption DEF Forget, InLayout
<1>2. CASE UNCHANGED <<sent, packet, damages>>
  <2>1. Kind' = Kind /\ FieldsFit(Kind, packet)' = FieldsFit(Kind, packet)
    BY <1>2 DEF Kind, FieldsFit, Fits, InField, BodyLayout
  <2>2. QED
    BY <1>2, <2>1 DEF InLayout
<1>3. DeliverCall \/ DeliverResponse \/ UNCHANGED vars => UNCHANGED <<sent, packet, damages>>
  BY DEF DeliverCall, DeliverResponse, vars
<1>4. QED
  BY <1>1, <1>2, <1>3, SendFits, FlipBitFits, ResizeFits, MisuseFits DEF Next

\* Both receivers answer with what one of their checks names.
LEMMA AnswerCodes ==
  ASSUME FfiInv, Delivered
  PROVE  answer.code \in IF InCall(Kind) THEN DOMAIN Statuses ELSE DecoderErrors \cup {"none"}
<1>1. answer = Received
  BY DeliveredFacts
<1>2. CASE InCall(Kind)
  <2> DEFINE c == WithPayload(call, packet)
             checks == AdmissionChecks(c)
             code == FirstViolation(checks)
  <2>1. answer.code = IF code # "none" THEN code ELSE "OK"
    BY <1>1, <1>2 DEF Received, Admit
  <2>2. DOMAIN checks = 1..7 /\ \A i \in 1..7 : checks[i][2] \in DOMAIN Statuses
    BY DEF AdmissionChecks, Statuses
  <2> HIDE DEF checks
  <2>3. code # "none" => code \in DOMAIN Statuses
    BY <2>2, ViolationIsListed
  <2> HIDE DEF code
  <2>4. QED
    BY <1>2, <2>1, <2>3 DEF Statuses
<1>3. CASE ~InCall(Kind)
  <2> DEFINE checks == ResponseDecoderChecks(packet)
  <2>1. answer.code = FirstViolation(checks)
    BY <1>1, <1>3 DEF Received, Decode, DecodeResponse, Coded
  <2>2. DOMAIN checks = 1..9 /\ \A i \in 1..9 : checks[i][2] \in DecoderErrors
    BY DEF ResponseDecoderChecks, DecoderErrors
  <2> HIDE DEF checks
  <2>3. answer.code # "none" => answer.code \in DecoderErrors
    BY <2>1, <2>2, ViolationIsListed
  <2>4. QED
    BY <1>3, <2>3
<1>4. QED
  BY <1>2, <1>3

\* Every field of every packet on its way fits the width the contract gives it, whatever was
\* encoded and however it was damaged, and the receivers answer with registered codes only.
THEOREM FfiTypeCorrect == Spec => []TypeOK
<1>1. Init => InLayout
  BY DamageAssumption DEF Init, InLayout
<1>2. FfiInv /\ InLayout => TypeOK
  <2> SUFFICES ASSUME FfiInv, InLayout PROVE TypeOK
    OBVIOUS
  <2>1. sent # <<>> /\ packet # NoPacket => FieldsFit(Kind, packet)
    BY DEF InLayout
  <2>2. QED
    BY <2>1, AnswerCodes DEF TypeOK, InLayout, FieldsFit
<1>3. QED
  BY <1>1, <1>2, NextFits, FfiInvariant, PTL DEF Spec
=============================================================================
