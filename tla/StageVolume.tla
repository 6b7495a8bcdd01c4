----------------------------- MODULE StageVolume -----------------------------
(***************************************************************************)
(* One stage's subtree of a Modal Volume: the directories and immutable    *)
(* files that scripts/quantize_inkling_modal.py and gguf/publication.py    *)
(* keep for a stage, and their operations as functions from one subtree to *)
(* the next.  The source stage adopts an existing snapshot in place; every *)
(* other stage publishes an output.  An operation that raises is not defined: its      *)
(* precondition (Can...) is false.  A directory is identified by the       *)
(* attempt that produced it.                                               *)
(***************************************************************************)
EXTENDS Naturals, Sequences

CONSTANTS
  Stages,
  Adopting,                     \* the source stage, materialize_source
  MaxAttempts, MaxRecoveries,   \* the cost caps of each stage
  Intents,                      \* launch intents; a call has its intent's name
  None

ASSUME VolumeAssumption ==
  /\ Adopting \subseteq Stages
  /\ MaxAttempts \in [Stages -> Nat] /\ MaxRecoveries \in [Stages -> Nat]
  /\ None \notin Nat /\ None \notin Intents

Kinds == {"attempt", "recovery"}
Limit(s, kind) == IF kind = "attempt" THEN MaxAttempts[s] ELSE MaxRecoveries[s]

\* history: the calls that started, per kind.  ledger: the counter file.
\* intent, canonical, receipt: the attempt whose output is recorded, published,
\* proved published.  success: the call that wrote the success receipt.
\* creation, validated: of an adopted source, the attempt bound by the success
\* receipt and the later ones that completed a validation of it.
EmptySubtree ==
  [ history   |-> [k \in Kinds |-> << >>],
    ledger    |-> [k \in Kinds |-> 0],
    partials  |-> {},
    intent    |-> None, canonical |-> None, receipt |-> None, success |-> None,
    creation  |-> None, validated |-> {} ]

Partial(k, full) == [attempt |-> k, full |-> full]
PartialExists(v, k) == \E full \in BOOLEAN : Partial(k, full) \in v.partials

-----------------------------------------------------------------------------
\* Mutant: a pending publication is not looked for.
PlanOf_SuccessOnly(v) == IF v.success # None THEN "reverify" ELSE "attempt"

\* What an invocation finds to do, and the history it is charged to.
PlanOf(v) == CASE v.success # None -> "reverify"
               [] v.success = None /\ v.intent # None -> "recover"
               [] OTHER -> "attempt"
KindOf(s, v) == IF s \in Adopting \/ PlanOf(v) = "attempt" THEN "attempt" ELSE "recovery"

\* _begin_stage_invocation: the history is authoritative, the ledger may lag.
CanBegin(v, s) ==
  LET kind == KindOf(s, v) IN
  /\ v.ledger[kind] <= Len(v.history[kind])
  /\ Len(v.history[kind]) < Limit(s, kind)

RecordStart(v, kind, i) == [v EXCEPT !.history[kind] = Append(@, i)]
UpdateLedger(v, kind) == [v EXCEPT !.ledger[kind] = Len(v.history[kind])]

\* _clean_old_partials and mkdir, then the converter's last byte.
StartPartial(v) == [v EXCEPT !.partials = {Partial(Len(v.history["attempt"]), FALSE)}]
FillPartial(v) == [v EXCEPT !.partials = {Partial(Len(v.history["attempt"]), TRUE)}]

\* prepare_publication_intent
CanPrepare(v, k) ==
  /\ Partial(k, TRUE) \in v.partials
  /\ v.canonical = None
  /\ v.intent \in {None, k}
Prepare(v, k) == [v EXCEPT !.intent = k]

\* finalize_publication: exactly one of the two directories exists, and it
\* holds what the intent recorded; then the rename, and the receipt.
CanFinalize(v) ==
  /\ v.intent # None
  /\ PartialExists(v, v.intent) # (v.canonical # None)
  /\ PartialExists(v, v.intent) => Partial(v.intent, TRUE) \in v.partials
  /\ v.canonical # None => v.canonical = v.intent

\* Mutant: the output is copied, not renamed, to its place.
Publish_ByCopy(v) == [v EXCEPT !.canonical = v.intent]

Publish(v) ==
  IF v.canonical # None THEN v
  ELSE [v EXCEPT !.canonical = v.intent,
                 !.partials = {p \in @ : p.attempt # v.intent}]
WriteReceipt(v) == [v EXCEPT !.receipt = v.intent]

WriteSuccess(v, i) == [v EXCEPT !.success = i]

-----------------------------------------------------------------------------
(* The adopted source. *)

Latest(v) == Len(v.history["attempt"])

\* _latest_attempt_binding
LedgerCurrent(v) == Latest(v) # 0 /\ v.ledger["attempt"] = Latest(v)

\* The success receipt of an adopted source is bound to its attempt.
WriteAdoption(v, i) == [v EXCEPT !.success = i, !.creation = Latest(v)]

\* _verify_success_invocation_binding: every attempt after the one that created
\* the receipt has completed a validation, the latest excepted if its own is
\* pending.
ChainComplete(v, pending) ==
  LET due == v.creation + 1 .. Latest(v) IN
  /\ LedgerCurrent(v) /\ v.creation \in 1 .. Latest(v)
  /\ pending => Latest(v) # v.creation
  /\ v.validated = IF pending THEN due \ {Latest(v)} ELSE due

WriteValidation(v) == [v EXCEPT !.validated = @ \union {Latest(v)}]

-----------------------------------------------------------------------------
\* A recorded intent always leaves something to finish from: exactly one of
\* the two directories, with the recorded content.  finalize_publication
\* refuses every other state for good.
Recoverable(v) == v.intent # None => CanFinalize(v)

=============================================================================
