--------------------------- MODULE AttemptEvidence ---------------------------
(***************************************************************************)
(* The records of one paid attempt: what the container of                  *)
(* scripts/run_inkling_measurement_modal.py and the managers put on the    *)
(* evidence volume, and how a manager's status reads them back.  Two       *)
(* variants share the design: the BF16-then-Q3 measurement, and the BF16   *)
(* interface diagnostic, which may also adopt the attempt of a task that   *)
(* the provider restarted, up to the one load of its server.  Digests and  *)
(* paths are abstracted: a record is named by what it binds together.      *)
(***************************************************************************)
EXTENDS Naturals, FiniteSets

CONSTANTS
  Hosts,      \* machines with a checkout and its artifacts directory
  MaxStarts,  \* bound: containers the provider starts for one call
  None

ASSUME EvidenceAssumption ==
  MaxStarts \in Nat \ {0} /\ None \notin Nat /\ None \notin Hosts

Variant == {"measurement", "diagnostic"}
Tasks == 1 .. MaxStarts

Stages(v) ==
  IF v = "measurement"
  THEN << "verify_references", "verify_cuda_preflight",
          "stage_and_rehash_bf16", "measure_bf16_quality", "measure_bf16_performance", "release_bf16",
          "stage_and_rehash_q3", "measure_q3_quality", "measure_q3_performance", "release_q3",
          "compare_and_publish" >>
  ELSE << "verify_references", "verify_cuda_preflight", "stage_and_rehash_bf16",
          "bf16_interface_diagnostic", "verify_gpu_placement", "release_bf16", "publish" >>

Last(v) == IF v = "measurement" THEN 11 ELSE 7

\* The stages that end with the evidence of a subject.
Performance == [bf16 |-> 5, q3 |-> 9]
\* The stage of the diagnostic in which the server is loaded.
ServerStage == 4

(* A launch has its host's name, and so has the call it spawns: a host       *)
(* launches once.  Intents and acceptances are the managers' records.        *)
Intent(h) == [kind |-> "intent", call |-> h]
Acceptance(h) == [kind |-> "acceptance", call |-> h]
Claim(h, t) == [kind |-> "claim", call |-> h, task |-> t]
ServerLoad(h, t) == [kind |-> "load", call |-> h, task |-> t]
Supporting(h, what) == [kind |-> "supporting", call |-> h, what |-> what]

\* A terminal receipt: the stages completed, the supporting records it refers
\* to, and the task that loaded the server.
Receipt(outcome, h, done, refers, load) ==
  [kind |-> outcome, call |-> h, done |-> done, refers |-> refers, load |-> load]

Kinds == {"bf16", "q3", "comparison", "raw"}
Records ==
  {Intent(h) : h \in Hosts} \union {Acceptance(h) : h \in Hosts}
  \union {Claim(h, t) : h \in Hosts, t \in Tasks}
  \union {ServerLoad(h, t) : h \in Hosts, t \in Tasks}
  \union {Supporting(h, what) : h \in Hosts, what \in Kinds}
  \union {Receipt(o, h, n, r, l) : o \in {"success", "failure"}, h \in Hosts, n \in 0 .. 11,
                                   r \in SUBSET Kinds, l \in Tasks \union {None}}

OfKind(volume, kind) == {r \in volume : r.kind = kind}
Receipts(volume) == OfKind(volume, "success") \union OfKind(volume, "failure")

\* The subject records a failure receipt must refer to, no more and no fewer.
SubjectsDone(done) == {s \in DOMAIN Performance : done >= Performance[s]}

-----------------------------------------------------------------------------
(* Before a launch: _assert_remote_attempt_unconsumed.                       *)

\* The measurement lists the control and terminal directories, the diagnostic
\* everything.
Unconsumed(v, volume, registry) ==
  /\ registry = None
  /\ \A r \in volume : v = "measurement" /\ r.kind = "supporting"

\* Before a diagnostic container works: _require_unused_diagnostic_execution.
Unused(volume) ==
  /\ OfKind(volume, "load") = {} /\ Receipts(volume) = {}
  /\ \A r \in OfKind(volume, "supporting") : r.what # "raw"

-----------------------------------------------------------------------------
(* status: what host h makes of registry and volume.                         *)

\* _read_only_remote_file, for the intent and the acceptance.
OnlyLaunch(h, volume) ==
  OfKind(volume, "intent") = {Intent(h)} /\ OfKind(volume, "acceptance") = {Acceptance(h)}

\* _bound_attempt_claim: "none", "live" or "durable", or a refusal.
BoundClaim(h, volume, registry) ==
  LET durable == OfKind(volume, "claim")
      claims == durable \union (IF registry = None THEN {} ELSE {registry}) IN
  IF claims = {} THEN "none"
  ELSE IF Cardinality(claims) # 1 \/ \E c \in claims : c.call # h THEN "refused"
  ELSE IF durable = {} THEN "live" ELSE "durable"

\* _validate_success_scope, and for a failure the exact prefix of its model.
SupportingComplete(v, r) ==
  IF v = "diagnostic" THEN r.kind = "success" => r.refers = {"raw"} /\ r.load # None
  ELSE r.refers = (IF r.kind = "success" THEN {"bf16", "q3", "comparison"} ELSE SubjectsDone(r.done))

\* _terminal_evidence of a receipt, given the claim: everything it refers to is
\* there, and it names the one server load there is.
ReceiptBound(v, h, r, volume) ==
  /\ r.call = h
  /\ SupportingComplete(v, r)
  /\ \A what \in r.refers : Supporting(h, what) \in volume
  /\ v = "diagnostic" =>
       /\ {l.task : l \in OfKind(volume, "load")} = {r.load} \ {None}
       /\ r.refers # {} => r.load # None

TerminalEvidence(v, h, volume, claim) ==
  LET candidates == Receipts(volume) IN
  IF candidates = {} THEN "none"
  ELSE IF Cardinality(candidates) # 1 \/ claim # "durable" THEN "refused"
  ELSE LET r == CHOOSE r \in candidates : TRUE IN
       IF ReceiptBound(v, h, r, volume) THEN r.kind ELSE "refused"
=============================================================================
