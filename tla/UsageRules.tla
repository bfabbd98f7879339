----------------------------- MODULE UsageRules -----------------------------
(***************************************************************************)
(* What a provider call's artifacts must satisfy, as functions of their    *)
(* bytes: the normalization of a raw usage block by the adapter the        *)
(* receipt declares (harness/usage.py), the bindings between receipt,      *)
(* persisted request, normalized artifact and identity record              *)
(* (harness/usage.py, harness/identity.py), and the usage gates of         *)
(* harness/admissibility.py.  The hash of a file is its contents: a        *)
(* recorded hash is the value it was taken over.                           *)
(***************************************************************************)
EXTENDS Integers

(* A numeric field of a usage block: a natural number, or                  *)
Absent  == -1        \* not there
Invalid == -2        \* there, and no non-negative integer

NoUsage == [input |-> Absent, output |-> Absent, cached |-> Absent, total |-> Absent]
NoFile  == [file |-> "absent"]

(* The raw schemas; only the OpenAI one declares a total.                  *)
RAW_SCHEMAS == [openai |-> [total |-> TRUE], anthropic |-> [total |-> FALSE]]

Unbound == [lane |-> "none", provider |-> "none"]

(* The adapters.  A v2 adapter is bound to one lane, and to the endpoint   *)
(* and model of its provider; the historical v1 adapters are bound to none.*)
PROVIDER_NORMALIZERS ==
    [total_v1    |-> [schema |-> "openai", includesCache |-> TRUE, bound |-> Unbound],
     uncached_v1 |-> [schema |-> "openai", includesCache |-> FALSE, bound |-> Unbound],
     router9_v2  |-> [schema |-> "openai", includesCache |-> TRUE,
                      bound |-> [lane |-> "P", provider |-> "router9"]],
     kenari_v2   |-> [schema |-> "openai", includesCache |-> TRUE,
                      bound |-> [lane |-> "Q", provider |-> "kenari"]],
     opencode_v2 |-> [schema |-> "anthropic", includesCache |-> FALSE,
                      bound |-> [lane |-> "P", provider |-> "opencode"]]]

(* The runner's lanes: gateway endpoint, model and preregistered adapter.  *)
LANES == [P |-> [provider |-> "opencode", adapter |-> "opencode_v2"],
          Q |-> [provider |-> "kenari", adapter |-> "kenari_v2"]]

-----------------------------------------------------------------------------
(* verify_adapter_binding, given a receipt: it declares this adapter, and  *)
(* its endpoint and model are the bound ones (so a v1 adapter, bound to no *)
(* model, never passes for a receipt that names one).                      *)
AdapterNamed(r)       == r.adapter \in DOMAIN PROVIDER_NORMALIZERS
BoundTo(r)            == PROVIDER_NORMALIZERS[r.adapter].bound
SameProvider(r)       == r.endpoint = BoundTo(r).provider /\ r.model = BoundTo(r).provider
VerifyAdapterBinding(r, lane) ==
    AdapterNamed(r) /\ BoundTo(r).lane = lane /\ SameProvider(r)

(* normalize_usage.  A declared total must add up, and cached tokens are   *)
(* part of the input only under an adapter whose input includes the cache. *)
Normalizable(r) ==
    /\ AdapterNamed(r)
    /\ BoundTo(r) # Unbound => SameProvider(r)
    /\ r.usage # NoUsage /\ r.usageSha = r.usage
    /\ r.usage.input >= 0 /\ r.usage.output >= 0
    /\ r.usage.cached # Invalid
    /\ LET a == PROVIDER_NORMALIZERS[r.adapter] IN
       /\ RAW_SCHEMAS[a.schema].total =>
             r.usage.total \in {Absent, r.usage.input + r.usage.output}
       /\ a.includesCache => r.usage.cached <= r.usage.input

NormalizeUsage(r) ==
    LET cached   == IF r.usage.cached = Absent THEN 0 ELSE r.usage.cached
        uncached == IF PROVIDER_NORMALIZERS[r.adapter].includesCache
                    THEN r.usage.input - cached ELSE r.usage.input
    IN  [uncached |-> uncached, output |-> r.usage.output, cached |-> cached,
         work |-> uncached + r.usage.output]

-----------------------------------------------------------------------------
(* The artifacts of a call.                                                *)

Body(params, lane) == [model |-> LANES[lane].provider, params |-> params]

(* The receipt recorded_call writes: the request as persisted and sent,    *)
(* the usage block as answered.                                            *)
ReceiptOf(lane, request, usage) ==
    [file |-> "receipt", endpoint |-> LANES[lane].provider,
     model |-> LANES[lane].provider, request |-> request,
     usage |-> usage, usageSha |-> usage, adapter |-> LANES[lane].adapter]

(* write_normalized_usage: the derived metrics, bound to the whole bytes   *)
(* of the receipt and to its own (intact: the self-hash matches).          *)
NormalizedOf(r) ==
    [file |-> "normalized", adapter |-> r.adapter, metrics |-> NormalizeUsage(r),
     receipt |-> r, intact |-> TRUE]

(* record_identity, from the provider's response object and the receipt.   *)
(* The model echoed and the response id are what the provider said.        *)
IdentityOf(lane, r, response) ==
    [file |-> "identity", by |-> response.by, endpoint |-> LANES[lane].provider,
     model |-> LANES[lane].provider, request |-> r.request,
     params |-> r.request.params, echoed |-> response.echoed, id |-> response.id]

(* check_against_prereg.                                                   *)
CheckAgainstPrereg(lane, i) ==
    i.endpoint = LANES[lane].provider /\ i.model = LANES[lane].provider
        /\ i.echoed = "acceptable"

(* verify_normalized_usage: the artifact unaltered, the receipt it names   *)
(* there and unaltered, every metric derived again.                        *)
VerifyNormalizedUsage(n, r) ==
    /\ n # NoFile /\ n.intact
    /\ r # NoFile /\ n.receipt = r
    /\ Normalizable(r)
    /\ n.adapter = r.adapter /\ n.metrics = NormalizeUsage(r)

(* verify_request_binding: the persisted bytes are the recorded ones, and  *)
(* the identity record agrees with them field by field.                    *)
VerifyRequestBinding(r, q, i) ==
    /\ q # NoFile /\ q = r.request /\ q.model = r.model
    /\ i.request = q /\ i.model = q.model /\ i.endpoint = r.endpoint
    /\ i.params = q.params

(* verify_identity_binding: what the provider said only has to be there.   *)
VerifyIdentityBinding(i, r) ==
    /\ i.endpoint = r.endpoint /\ i.model = r.model /\ i.request = r.request
    /\ i.echoed # "none" /\ i.id # "none"

\* bug: a run that spent no model work is let through
GatesWithoutWork(lane, r, n, q, i) ==
    /\ i # NoFile /\ r # NoFile
    /\ VerifyNormalizedUsage(n, r) /\ VerifyAdapterBinding(r, lane)
    /\ VerifyRequestBinding(r, q, i) /\ VerifyIdentityBinding(i, r)

(* admissibility.classify_run_dir, from the identity file on: what a wired *)
(* run must show of its model call before it counts.                       *)
UsageGates(lane, r, n, q, i) ==
    /\ i # NoFile
    /\ r # NoFile
    /\ VerifyNormalizedUsage(n, r) /\ n.metrics.work > 0
    /\ VerifyAdapterBinding(r, lane)
    /\ VerifyRequestBinding(r, q, i)
    /\ VerifyIdentityBinding(i, r)

\* bug: the echo was compared with the lane's entry when it was recorded
EvidenceFromChain(lane, r, i, committed) ==
    VerifyIdentityBinding(i, r) /\ i = committed

(* promotion._identity_evidence, of a completed acquisition run: bound to  *)
(* its receipt, the bytes the chain's model-call link committed to, and    *)
(* compared with the lane's preregistered entry once more.                 *)
IdentityEvidence(lane, r, i, committed) ==
    /\ VerifyIdentityBinding(i, r)
    /\ i = committed
    /\ CheckAgainstPrereg(lane, i)
=============================================================================
