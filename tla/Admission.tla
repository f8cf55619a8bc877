------------------------------ MODULE Admission ------------------------------
(***************************************************************************)
(* What happens to one OTLP export between the wire and the journal        *)
(* (internal/admission, internal/normalize): the bounds on the whole       *)
(* request, the three stages that each drop single records, and the        *)
(* decision to shed near capacity.  A request is the tree the wire holds,  *)
(* resources of scopes of records; of a value it keeps how deep it nests,  *)
(* how many nodes and bytes it has, and what the checks ask of it.         *)
(***************************************************************************)
EXTENDS Integers, Sequences, SequencesExt

CONSTANTS
    MaxCompressed, MaxUncompressed,   \* the limits of admission.Limits
    MaxRecords, MaxNodes, MaxDepth,
    MaxMaterialized, MaxNormalized,
    MaxProjected,                     \* Normalizer.maxMaterializedBytes
    Region,                           \* the region of the envelope
    AllowedServices, AllowedEnvironments,
    EnvelopeWeight,                   \* what the envelope adds to one record
    NearCapacityPercent,              \* 0 leaves the classifier out
    EligibleSources                   \* sources whose records may be shed

Absent == "absent"     \* a claim or an identifier that was not sent
Broken == "broken"     \* one that is not a string, or a claim sent twice unequal

(***************************************************************************)
(* Decode: request-wide limits, then the records that nest too deep.       *)
(***************************************************************************)
IsSequence(s) == s \in Seq(Range(s))

\* A request as the decoder builds it.
IsRequest(request) ==
    /\ IsSequence(request.resources)
    /\ \A g \in Range(request.resources) :
          IsSequence(g.scopes) /\ \A s \in Range(g.scopes) : IsSequence(s.records)

\* The records of a request in wire order, each with what it shares.
Flatten(request) ==
    FlattenSeq([g \in DOMAIN request.resources |->
        FlattenSeq([s \in DOMAIN request.resources[g].scopes |->
            LET scope == request.resources[g].scopes[s]
            IN  [k \in DOMAIN scope.records |->
                    [resource |-> request.resources[g], scope |-> scope,
                     record |-> scope.records[k]]]])])

Sum(f(_), s) == FoldSeq(LAMBDA x, total : f(x) + total, 0, s)

\* Four bytes for one of the wire and 64 for a node.
Weight(part) == 4 * part.bytes + 64 * (part.nodes + 1)

ScopeNodes(scope) ==
    2 + scope.nodes + Sum(LAMBDA r : 1 + r.nodes, scope.records)
Nodes(request) ==
    Sum(LAMBDA g : 2 + g.nodes + Sum(ScopeNodes, g.scopes), request.resources)

\* Shared values are charged once for each record below them.
Charge(v) == Weight(v.record) + Weight(v.scope) + Weight(v.resource)

Bytes(request) ==
    Sum(LAMBDA g : g.bytes + Sum(LAMBDA s : s.bytes + Sum(LAMBDA r : r.bytes, s.records),
                                 g.scopes),
        request.resources)

\* The payload is read up to a bound on what is sent (`packed`), and expanded
\* up to a bound on what it holds.
Readable(request) == request.packed <= MaxCompressed
Expands(request) == request.wellFormed /\ Bytes(request) <= MaxUncompressed

WithinLimits(request) ==
    LET flat == Flatten(request)
    IN  /\ Readable(request)
        /\ Expands(request)
        /\ Len(flat) <= MaxRecords
        /\ Nodes(request) <= MaxNodes
        /\ \A g \in Range(request.resources) :
              Weight(g) <= MaxMaterialized
              /\ \A s \in Range(g.scopes) : Weight(s) <= MaxMaterialized
        /\ Sum(Charge, flat) <= MaxMaterialized

TooDeep(v) ==
    \/ v.resource.depth > MaxDepth
    \/ v.scope.depth > MaxDepth
    \/ v.record.depth > MaxDepth

\* What is left of the request, where each record of it was on the wire, and
\* which were dropped: the first two run in step and carry no other link.
Decode(request) ==
    LET flat == Flatten(request)
        decoded[n \in 0..Len(flat)] ==
            IF n = 0
            THEN [request |-> <<>>, acceptedOriginalIndexes |-> <<>>, rejected |-> {}]
            ELSE LET before == decoded[n - 1]
                 IN  IF TooDeep(flat[n])
                     THEN [before EXCEPT !.rejected = @ \cup {n}]
                     ELSE [before EXCEPT
                             !.request = Append(@, flat[n]),
                             !.acceptedOriginalIndexes = Append(@, n)]
    IN  decoded[Len(flat)]

(***************************************************************************)
(* MappedRequest: the second projection, over what is left, and what one   *)
(* record is refused for.  Of a value it keeps its `weight` and whether it *)
(* is `bounded`, in the depth and the number of its nodes, as redact is.   *)
(***************************************************************************)
Projects(part) == part.bounded /\ part.weight <= MaxProjected

\* What nests too deep was emptied; what shares nothing is weighed all the same.
Materializable(request) ==
    LET left == Decode(request).request
        charged(v) == v.record.weight + v.scope.weight + v.resource.weight + EnvelopeWeight
    IN  /\ \A g \in Range(request.resources) :
              /\ g.depth > MaxDepth \/ Projects(g)
              /\ \A s \in Range(g.scopes) : s.depth > MaxDepth \/ Projects(s)
        /\ \A v \in Range(left) : Projects(v.record)
        /\ Sum(charged, left) <= MaxProjected

DefaultEnvironment ==
    IF \E e \in AllowedEnvironments : AllowedEnvironments = {e}
    THEN CHOOSE e \in AllowedEnvironments : TRUE
    ELSE ""

PermitsClaims(resource) ==
    /\ resource.region \in {Absent, Region}
    /\ resource.name \in {Absent} \cup AllowedServices
    /\ resource.environment \in {Absent} \cup AllowedEnvironments

\* The service a record is attributed to; without a name there is none, and
\* the record is admitted all the same.
ServiceOf(resource) ==
    [name |-> IF resource.name = Absent THEN "" ELSE resource.name,
     environment |-> IF resource.environment = Absent
                     THEN DefaultEnvironment ELSE resource.environment]

\* normalizeObservedTime and normalizeEventTime: the time a record is
\* processed at.  An event time that is missing, or outside [observed - Age,
\* observed + Future], gives way to the observed one.
MaximumAge    == 24 * 60
MaximumFuture == 5
ObservedTime(record) == IF record.observed # 0 THEN record.observed
                                               ELSE record.event
EventTime(record) ==
    LET observed == ObservedTime(record)
    IN  IF record.event \in (observed - MaximumAge)..(observed + MaximumFuture)
           /\ record.event # 0
        THEN record.event ELSE observed

\* Why a record is not normalized, in the order the checks run; "" if it is.
Refusal(v) ==
    IF ~PermitsClaims(v.resource) THEN "claim_not_permitted"
    ELSE IF v.record.uid = Broken THEN "unusable_identity"
    ELSE IF v.record.event = 0 /\ v.record.observed = 0 THEN "missing_timestamps"
    ELSE IF ~v.record.content THEN "missing_content"
    ELSE IF ~v.record.safe THEN "prohibited_content"
    ELSE ""

\* The deployment is resolved while the record is put together, before the
\* checks on its content, whatever they will say.
Consults(v) ==
    /\ Refusal(v) \notin {"claim_not_permitted", "unusable_identity",
                         "missing_timestamps"}
    /\ ServiceOf(v.resource).name # ""

\* What the occurrence is, apart from the deployment, the attempt and the
\* redaction; record.evidence stands for its body and its attributes.
Evidence(v) ==
    <<ServiceOf(v.resource), EventTime(v.record), ObservedTime(v.record),
      v.record.severity, v.record.evidence>>

\* The native identifier names the record; without one its evidence does.
RecordID(v) ==
    IF v.record.uid # Absent THEN <<"otlp:v1", v.record.uid>>
                             ELSE <<"derived:v1", Evidence(v)>>

(***************************************************************************)
(* Shedding, with the classifier the runtime compiles: no rule, so no      *)
(* record of a known kind is protected.                                    *)
(***************************************************************************)
NearCapacity(used, total) ==
    LET threshold == (total \div 100) * NearCapacityPercent
                     + ((total % 100) * NearCapacityPercent + 99) \div 100
    IN  /\ total # 0
        /\ NearCapacityPercent \in 1..100
        /\ \/ used \div total >= 1
           \/ used % total >= threshold

MayShed(record) ==
    record.severity \in {"debug", "info"} /\ "otlp" \in EligibleSources

CapacityAction(record, state) ==
    IF NearCapacityPercent = 0 THEN "admit"
    ELSE IF MayShed(record) /\ NearCapacity(state.used, state.total) THEN "shed"
    ELSE IF ~state.canPersist THEN "backpressure"
    ELSE "admit"

(***************************************************************************)
(* The reference: what one position of the wire deserves, told from that   *)
(* position alone.                                                         *)
(***************************************************************************)
Inadmissible(request) ==
    \/ ~WithinLimits(request)
    \/ ~Materializable(request)

Rejects(v) ==
    TooDeep(v) \/ Refusal(v) # "" \/ v.record.size > MaxNormalized

Sheddable(v) == ~Rejects(v) /\ MayShed(v.record)
==============================================================================
