----------------------------- MODULE MatchedProofs -----------------------------
(***************************************************************************)
(* Theorems about MatchedAttempt, for any number of container starts and   *)
(* faults.  The argument, in the order of the invariants:                  *)
(*   - the call is spawned once and has one container at a time (CallInv); *)
(*   - every file of a task is the claimant's, which starts no server      *)
(*     before its claim and acknowledgement are durable (OwnerInv);        *)
(*   - where the container is tells which subjects are durable (StepInv)   *)
(*     and how far the publication is, whatever was lost (TrackerInv);     *)
(*   - hence there is one terminal receipt, with what it reports           *)
(*     (ReceiptInv).                                                       *)
(* Every action is first turned into what it does to the fields of the     *)
(* container and to the files that are known (the lemmas ...Is), and the   *)
(* invariants are shown to be kept by that (the lemmas ...Keeps).  What    *)
(* status answers then follows from what a step may bring to the volume    *)
(* (Effect), and from which sets of snapshots are a valid history (Chain). *)
(***************************************************************************)
EXTENDS MatchedAttempt, FiniteSetTheorems, TLAPS

\* TypeOK, but for the temporaries: nothing but status looks at those, so no other
\* invariant speaks of them.
Typed ==
  /\ manager \in {"intent", "spawn", "accept", "acceptance", "receipt", "cancel", "done"}
  /\ bound \in BOOLEAN
  /\ call \in [status : {"none", "queued", "running", "failed", "returned"},
               cancel : BOOLEAN, starts : 0 .. MaxStarts]
  /\ box = None \/ box \in Boxes
  /\ registry \in Tasks \union {None}
  /\ volume \subseteq Files
  /\ worked \subseteq Tasks
  /\ faults \in 0 .. MaxFaults
Places == {"own", "mounted", "committed"}
Placed == temporaries \in SUBSET Places

\* The files on the volume, and those that a commit may bring there.
Known == volume \union (IF box = None THEN {} ELSE box.disk)
Terminals == OfKind(Known, "terminal")
States == OfKind(Known, "snapshot")

CallInv ==
  /\ manager \in {"intent", "spawn"} => call.status = "none"
  /\ box # None => call.status = "running"
  /\ bound => manager = "done"

\* The steps before the claim, and those before the publication.
Early == {"load", "wait", "claim"}
Plain == {"records", "start", "probe", "persist", "verify", "failing"}
Owns == box # None /\ box.step \notin Early

OwnerInv ==
  /\ \A f \in Known : f.kind # "acceptance" => f.task = registry
  /\ worked \subseteq {registry}
  /\ \A t \in worked : {Claim(t), Acknowledgement(t)} \subseteq volume
  /\ box # None =>
       /\ box.step \in Early => /\ box.disk \subseteq volume /\ ~box.server /\ box.done = 0
                               /\ box.tracker = "not_started" /\ box.cycle = 0
       /\ box.step \notin {"load", "wait"} => Acceptance \in volume
       /\ box.step \notin Early => registry = box.task

StepInv ==
  Owns =>
    /\ \A s \in 1 .. box.done : SubjectReceipt(box.task, s) \in volume
    /\ box.step = "records" => box.done = 0
    /\ box.step \in {"start", "probe", "persist"} => box.done \in {0, 1}
    /\ box.step = "verify" => box.done = 2
    /\ box.step = "start" => {Claim(box.task), Acknowledgement(box.task)} \subseteq volume
    /\ box.step = "records" \/ (box.step = "start" /\ box.done = 0) => worked = {}
    /\ box.step \in {"probe", "persist"} \/ box.done > 0 => worked = {box.task}
    /\ box.step \in {"records", "start", "persist", "verify"} => ~box.server
    /\ box.outcome = "success" /\ box.step \notin Plain => box.done = 2

\* The files that a receipt may be confirmed with.
Basis ==
  {Claim(box.task), Acknowledgement(box.task), NotStarted, Receipt}
  \union {Installing(c) : c \in 1 .. box.cycle}
Begin == {NotStarted} \union {Installing(c) : c \in 1 .. box.cycle}

TrackerInv ==
  Owns =>
    /\ box.step \in Plain => box.tracker = "not_started"
    /\ box.step = "publish" => box.tracker \in {"not_started", "installing"}
    /\ box.step = "confirm" => box.tracker = "installing"
    /\ box.step = "unknown" => box.tracker = "unknown"
    /\ box.step = "return" => box.tracker = "confirmed"
    /\ box.tracker = "not_started" =>
         box.cycle = 0 /\ Terminals = {} /\ States \subseteq {NotStarted}
    /\ box.tracker # "not_started" =>
         /\ box.cycle \in {1, 2} /\ Terminals \subseteq {Receipt}
         /\ States \subseteq Begin \union {Confirmation, Now("unknown")}
         /\ Confirmation \in Known => Basis \subseteq volume
    /\ box.tracker = "installing" =>
         IF box.step = "publish" THEN States \subseteq Begin
         ELSE box.step = "confirm" /\ Basis \subseteq volume /\ Now("unknown") \notin Known
    /\ box.tracker = "confirmed" =>
         /\ box.step \in {"return", "raise"}
         /\ Confirmation \in volume /\ Now("unknown") \notin Known
    /\ box.tracker = "unknown" => box.step \in {"unknown", "raise"}

\* One receipt, with the receipts of the subjects that it reports.
ReceiptInv ==
  \A r \in Terminals :
    /\ \A q \in Terminals : q = r
    /\ \A s \in 1 .. r.done : SubjectReceipt(r.task, s) \in volume
    /\ r.outcome = "success" => r.done = 2 /\ worked # {}

MatchedInv == Typed /\ CallInv /\ OwnerInv /\ StepInv /\ TrackerInv /\ ReceiptInv

-----------------------------------------------------------------------------
(* The files. *)

Statuses == {"not_started", "installing", "confirmed", "unknown"}

\* What the files that a task writes are, and whose.
LEMMA MadeFiles ==
  ASSUME NEW t \in Tasks
  PROVE  /\ Acceptance \in Files /\ Acceptance.kind = "acceptance"
         /\ Claim(t) \in Files /\ Claim(t).kind = "claim" /\ Claim(t).task = t
         /\ Acknowledgement(t) \in Files /\ Acknowledgement(t).kind = "acknowledgement"
         /\ Acknowledgement(t).task = t
         /\ \A s \in Subjects :
              /\ SubjectReceipt(t, s) \in Files /\ SubjectReceipt(t, s).kind = "subject"
              /\ SubjectReceipt(t, s).task = t
  BY DEF Files, Acceptance, Claim, Acknowledgement, SubjectReceipt

LEMMA MadeReceipts ==
  ASSUME NEW t \in Tasks, NEW o \in {"success", "failure"}, NEW n \in 0 .. 2
  PROVE  LET r == Terminal(t, o, n)
         IN  /\ r \in Receipts /\ r \in Files /\ r.kind = "terminal" /\ r.task = t
             /\ r.outcome = o /\ r.done = n
  <1>1. Terminal(t, o, n) \in Receipts
    BY DEF Receipts
  <1>2. Terminal(t, o, n) \in Files
    BY <1>1 DEF Files
  <1>3. QED
    BY <1>1, <1>2 DEF Terminal

LEMMA MadeSnapshots ==
  ASSUME NEW t \in Tasks, NEW s \in Statuses, NEW c \in 0 .. 2, NEW r \in Receipts \union {None}
  PROVE  LET f == Snapshot(t, s, c, r)
         IN  /\ f \in Files /\ f.kind = "snapshot" /\ f.task = t
             /\ f.status = s /\ f.cycle = c /\ f.receipt = r
  <1>1. Snapshot(t, s, c, r) \in Files
    BY DEF Files, Statuses
  <1>2. QED
    BY <1>1 DEF Snapshot

\* Every file but the acceptance is some task's; receipts say what they report.
LEMMA FilesHaveTasks ==
  ASSUME NEW f \in Files
  PROVE  /\ f.kind # "acceptance" => f.task \in Tasks
         /\ f.kind = "acceptance" => f = Acceptance
         /\ f.kind = "claim" => f = Claim(f.task)
         /\ f.kind = "terminal" => f = Terminal(f.task, f.outcome, f.done)
                                    /\ f.outcome \in {"success", "failure"} /\ f.done \in 0 .. 2
  BY DEF Files, Receipts, Acceptance, Claim, Acknowledgement, SubjectReceipt, Terminal, Snapshot

-----------------------------------------------------------------------------
(* The container. *)

With(b, step, done, server, disk, outcome, tracker, cycle) ==
  [task |-> b.task, step |-> step, done |-> done, server |-> server, disk |-> disk,
   outcome |-> outcome, tracker |-> tracker, cycle |-> cycle]

LEMMA BoxFields ==
  ASSUME NEW b \in Boxes
  PROVE  /\ b.task \in Tasks /\ b.step \in Steps /\ b.done \in 0 .. 2 /\ b.server \in BOOLEAN
         /\ b.disk \in SUBSET Files /\ b.outcome \in {"success", "failure"}
         /\ b.tracker \in Statuses /\ b.cycle \in 0 .. 2
  BY DEF Boxes, Statuses

LEMMA Updates ==
  ASSUME NEW b \in Boxes
  PROVE  /\ \A x : [b EXCEPT !.step = x]
                    = With(b, x, b.done, b.server, b.disk, b.outcome, b.tracker, b.cycle)
         /\ \A x : [b EXCEPT !.done = x]
                    = With(b, b.step, x, b.server, b.disk, b.outcome, b.tracker, b.cycle)
         /\ \A x : [b EXCEPT !.server = x]
                    = With(b, b.step, b.done, x, b.disk, b.outcome, b.tracker, b.cycle)
         /\ \A x : [b EXCEPT !.disk = x]
                    = With(b, b.step, b.done, b.server, x, b.outcome, b.tracker, b.cycle)
         /\ \A x : [b EXCEPT !.outcome = x]
                    = With(b, b.step, b.done, b.server, b.disk, x, b.tracker, b.cycle)
         /\ \A x : [b EXCEPT !.tracker = x]
                    = With(b, b.step, b.done, b.server, b.disk, b.outcome, x, b.cycle)
         /\ \A x : [b EXCEPT !.cycle = x]
                    = With(b, b.step, b.done, b.server, b.disk, b.outcome, b.tracker, x)
         /\ \A x, y : [b EXCEPT !.step = x, !.server = y]
                    = With(b, x, b.done, y, b.disk, b.outcome, b.tracker, b.cycle)
         /\ \A x, y : [b EXCEPT !.done = x, !.step = y]
                    = With(b, y, x, b.server, b.disk, b.outcome, b.tracker, b.cycle)
         /\ \A x, y : [b EXCEPT !.step = x, !.outcome = y]
                    = With(b, x, b.done, b.server, b.disk, y, b.tracker, b.cycle)
         /\ \A x, y : [b EXCEPT !.step = x, !.tracker = y]
                    = With(b, x, b.done, b.server, b.disk, b.outcome, y, b.cycle)
         /\ \A x, y : [b EXCEPT !.tracker = x, !.step = y]
                    = With(b, y, b.done, b.server, b.disk, b.outcome, x, b.cycle)
         /\ \A x, y : [b EXCEPT !.tracker = x, !.cycle = y]
                    = With(b, b.step, b.done, b.server, b.disk, b.outcome, x, y)
  <1>1. b = With(b, b.step, b.done, b.server, b.disk, b.outcome, b.tracker, b.cycle)
    BY DEF Boxes, With
  <1>2. \A x : [b EXCEPT !.step = x] = With(b, x, b.done, b.server, b.disk, b.outcome, b.tracker, b.cycle)
    BY <1>1 DEF With
  <1>3. \A x : [b EXCEPT !.done = x] = With(b, b.step, x, b.server, b.disk, b.outcome, b.tracker, b.cycle)
    BY <1>1 DEF With
  <1>4. \A x : [b EXCEPT !.server = x] = With(b, b.step, b.done, x, b.disk, b.outcome, b.tracker, b.cycle)
    BY <1>1 DEF With
  <1>5. \A x : [b EXCEPT !.disk = x] = With(b, b.step, b.done, b.server, x, b.outcome, b.tracker, b.cycle)
    BY <1>1 DEF With
  <1>6. \A x : [b EXCEPT !.outcome = x] = With(b, b.step, b.done, b.server, b.disk, x, b.tracker, b.cycle)
    BY <1>1 DEF With
  <1>7. \A x : [b EXCEPT !.tracker = x] = With(b, b.step, b.done, b.server, b.disk, b.outcome, x, b.cycle)
    BY <1>1 DEF With
  <1>8. \A x : [b EXCEPT !.cycle = x] = With(b, b.step, b.done, b.server, b.disk, b.outcome, b.tracker, x)
    BY <1>1 DEF With
  <1>9. \A x, y : [b EXCEPT !.step = x, !.server = y]
                  = With(b, x, b.done, y, b.disk, b.outcome, b.tracker, b.cycle)
    <2> TAKE x, y
    <2>1. [With(b, x, b.done, b.server, b.disk, b.outcome, b.tracker, b.cycle) EXCEPT !.server = y]
            = With(b, x, b.done, y, b.disk, b.outcome, b.tracker, b.cycle)
      BY DEF With
    <2> QED
      BY <1>2, <2>1, Zenon
  <1>10. \A x, y : [b EXCEPT !.done = x, !.step = y]
                  = With(b, y, x, b.server, b.disk, b.outcome, b.tracker, b.cycle)
    <2> TAKE x, y
    <2>1. [With(b, b.step, x, b.server, b.disk, b.outcome, b.tracker, b.cycle) EXCEPT !.step = y]
            = With(b, y, x, b.server, b.disk, b.outcome, b.tracker, b.cycle)
      BY DEF With
    <2> QED
      BY <1>3, <2>1, Zenon
  <1>11. \A x, y : [b EXCEPT !.step = x, !.outcome = y]
                  = With(b, x, b.done, b.server, b.disk, y, b.tracker, b.cycle)
    <2> TAKE x, y
    <2>1. [With(b, x, b.done, b.server, b.disk, b.outcome, b.tracker, b.cycle) EXCEPT !.outcome = y]
            = With(b, x, b.done, b.server, b.disk, y, b.tracker, b.cycle)
      BY DEF With
    <2> QED
      BY <1>2, <2>1, Zenon
  <1>12. \A x, y : [b EXCEPT !.step = x, !.tracker = y]
                  = With(b, x, b.done, b.server, b.disk, b.outcome, y, b.cycle)
    <2> TAKE x, y
    <2>1. [With(b, x, b.done, b.server, b.disk, b.outcome, b.tracker, b.cycle) EXCEPT !.tracker = y]
            = With(b, x, b.done, b.server, b.disk, b.outcome, y, b.cycle)
      BY DEF With
    <2> QED
      BY <1>2, <2>1, Zenon
  <1>13. \A x, y : [b EXCEPT !.tracker = x, !.step = y]
                  = With(b, y, b.done, b.server, b.disk, b.outcome, x, b.cycle)
    <2> TAKE x, y
    <2>1. [With(b, b.step, b.done, b.server, b.disk, b.outcome, x, b.cycle) EXCEPT !.step = y]
            = With(b, y, b.done, b.server, b.disk, b.outcome, x, b.cycle)
      BY DEF With
    <2> QED
      BY <1>7, <2>1, Zenon
  <1>14. \A x, y : [b EXCEPT !.tracker = x, !.cycle = y]
                  = With(b, b.step, b.done, b.server, b.disk, b.outcome, x, y)
    <2> TAKE x, y
    <2>1. [With(b, b.step, b.done, b.server, b.disk, b.outcome, x, b.cycle) EXCEPT !.cycle = y]
            = With(b, b.step, b.done, b.server, b.disk, b.outcome, x, y)
      BY DEF With
    <2> QED
      BY <1>7, <2>1, Zenon
  <1> QED
    BY <1>2, <1>3, <1>4, <1>5, <1>6, <1>7, <1>8, <1>9, <1>10, <1>11, <1>12, <1>13, <1>14

\* The container b has these fields; the container goes on as b, but for its disk.
Has(b, step, done, server, outcome, tracker, cycle) ==
  /\ b \in Boxes /\ b.task = box.task /\ b.step = step /\ b.done = done /\ b.server = server
  /\ b.outcome = outcome /\ b.tracker = tracker /\ b.cycle = cycle

GoesOn(step, done, server, outcome, tracker, cycle) ==
  /\ box # None /\ box' # None
  /\ box' \in Boxes /\ box'.task = box.task /\ box'.step = step /\ box'.done = done
  /\ box'.server = server /\ box'.outcome = outcome /\ box'.tracker = tracker /\ box'.cycle = cycle

GoesOnAs(b) == GoesOn(b.step, b.done, b.server, b.outcome, b.tracker, b.cycle)

LEMMA AtIs ==
  ASSUME box \in Boxes, NEW s \in Steps
  PROVE  /\ Has(At(s), s, box.done, box.server, box.outcome, box.tracker, box.cycle)
         /\ At(s).disk = box.disk
  <1> DEFINE b == With(box, s, box.done, box.server, box.disk, box.outcome, box.tracker, box.cycle)
  <1>1. At(s) = b
    <2>1. \A x : [box EXCEPT !.step = x]
                = With(box, x, box.done, box.server, box.disk, box.outcome, box.tracker, box.cycle)
      BY Updates
    <2>2. QED
      BY <2>1, Zenon DEF At
  <1>2. Has(b, s, box.done, box.server, box.outcome, box.tracker, box.cycle) /\ b.disk = box.disk
    BY DEF Has, With, Boxes
  <1>3. QED
    BY <1>1, <1>2, Zenon

LEMMA ProbeIs ==
  ASSUME box \in Boxes, NEW s \in Steps, NEW up \in BOOLEAN
  PROVE  LET b == [box EXCEPT !.step = s, !.server = up] IN
         Has(b, s, box.done, up, box.outcome, box.tracker, box.cycle) /\ b.disk = box.disk
  <1> DEFINE b == With(box, s, box.done, up, box.disk, box.outcome, box.tracker, box.cycle)
  <1>1. [box EXCEPT !.step = s, !.server = up] = b
    <2>1. \A x, y : [box EXCEPT !.step = x, !.server = y]
                = With(box, x, box.done, y, box.disk, box.outcome, box.tracker, box.cycle)
      BY Updates
    <2>2. QED
      BY <2>1, Zenon
  <1>2. Has(b, s, box.done, up, box.outcome, box.tracker, box.cycle) /\ b.disk = box.disk
    BY DEF Has, With, Boxes
  <1>3. QED
    BY <1>1, <1>2, Zenon

LEMMA CompletedIs ==
  ASSUME box \in Boxes, box.done \in {0, 1}, NEW s \in Steps,
         s = IF box.done = 0 THEN "start" ELSE "verify"
  PROVE  /\ Has(Completed, s, box.done + 1, box.server, box.outcome, box.tracker, box.cycle)
         /\ Completed.disk = box.disk
  <1> DEFINE b == With(box, s, box.done + 1, box.server, box.disk, box.outcome, box.tracker, box.cycle)
  <1>1. Completed = b
    <2>1. \A x, y : [box EXCEPT !.done = x, !.step = y]
                = With(box, y, x, box.server, box.disk, box.outcome, box.tracker, box.cycle)
      BY Updates
    <2>2. QED
      BY <2>1, Zenon DEF Completed
  <1>2. box.done + 1 \in 0 .. 2
    BY BoxFields DEF Steps, Statuses
  <1>3. Has(b, s, box.done + 1, box.server, box.outcome, box.tracker, box.cycle) /\ b.disk = box.disk
    BY <1>2 DEF Has, With, Boxes, Statuses
  <1>4. QED
    BY <1>1, <1>3, Zenon

LEMMA FailureIs ==
  ASSUME box \in Boxes
  PROVE  LET b == [box EXCEPT !.step = "publish", !.outcome = "failure"] IN
         Has(b, "publish", box.done, box.server, "failure", box.tracker, box.cycle) /\ b.disk = box.disk
  <1> DEFINE b == With(box, "publish", box.done, box.server, box.disk, "failure", box.tracker, box.cycle)
  <1>1. [box EXCEPT !.step = "publish", !.outcome = "failure"] = b
    <2>1. \A x, y : [box EXCEPT !.step = x, !.outcome = y]
                = With(box, x, box.done, box.server, box.disk, y, box.tracker, box.cycle)
      BY Updates
    <2>2. QED
      BY <2>1, Zenon
  <1>2. "publish" \in Steps
    BY DEF Steps, Statuses
  <1>3. Has(b, "publish", box.done, box.server, "failure", box.tracker, box.cycle) /\ b.disk = box.disk
    BY <1>2 DEF Has, With, Boxes, Statuses
  <1>4. QED
    BY <1>1, <1>3, Zenon

LEMMA BegunIs ==
  ASSUME box \in Boxes
  PROVE  /\ Has(Begun, box.step, box.done, box.server, box.outcome, "installing", 1)
         /\ Begun.disk = box.disk
  <1> DEFINE b == With(box, box.step, box.done, box.server, box.disk, box.outcome, "installing", 1)
  <1>1. Begun = b
    <2>1. \A x, y : [box EXCEPT !.tracker = x, !.cycle = y]
                = With(box, box.step, box.done, box.server, box.disk, box.outcome, x, y)
      BY Updates
    <2>2. QED
      BY <2>1, Zenon DEF Begun
  <1>2. "installing" \in Statuses /\ 1 \in 0 .. 2
    BY DEF Steps, Statuses
  <1>3. Has(b, box.step, box.done, box.server, box.outcome, "installing", 1) /\ b.disk = box.disk
    BY <1>2 DEF Has, With, Boxes, Statuses
  <1>4. QED
    BY <1>1, <1>3, Zenon

LEMMA UnknownIs ==
  ASSUME box \in Boxes
  PROVE  /\ Has(Unknown, "unknown", box.done, box.server, box.outcome, "unknown", box.cycle)
         /\ Unknown.disk = box.disk
  <1> DEFINE b == With(box, "unknown", box.done, box.server, box.disk, box.outcome, "unknown", box.cycle)
  <1>1. Unknown = b
    <2>1. \A x, y : [box EXCEPT !.step = x, !.tracker = y]
                = With(box, x, box.done, box.server, box.disk, box.outcome, y, box.cycle)
      BY Updates
    <2>2. QED
      BY <2>1, Zenon DEF Unknown
  <1>2. "unknown" \in Statuses /\ "unknown" \in Steps
    BY DEF Steps, Statuses
  <1>3. Has(b, "unknown", box.done, box.server, box.outcome, "unknown", box.cycle) /\ b.disk = box.disk
    BY <1>2 DEF Has, With, Boxes, Statuses
  <1>4. QED
    BY <1>1, <1>3, Zenon

LEMMA SecondCycleIs ==
  ASSUME box \in Boxes
  PROVE  LET b == [box EXCEPT !.cycle = 2] IN
         Has(b, box.step, box.done, box.server, box.outcome, box.tracker, 2) /\ b.disk = box.disk
  <1> DEFINE b == With(box, box.step, box.done, box.server, box.disk, box.outcome, box.tracker, 2)
  <1>1. [box EXCEPT !.cycle = 2] = b
    <2>1. \A x : [box EXCEPT !.cycle = x]
                = With(box, box.step, box.done, box.server, box.disk, box.outcome, box.tracker, x)
      BY Updates
    <2>2. QED
      BY <2>1, Zenon
  <1>2. 2 \in 0 .. 2
    BY DEF Steps, Statuses
  <1>3. Has(b, box.step, box.done, box.server, box.outcome, box.tracker, 2) /\ b.disk = box.disk
    BY <1>2 DEF Has, With, Boxes, Statuses
  <1>4. QED
    BY <1>1, <1>3, Zenon

LEMMA ConfirmedIs ==
  ASSUME box \in Boxes, NEW s \in Steps
  PROVE  LET b == [box EXCEPT !.tracker = "confirmed", !.step = s] IN
         Has(b, s, box.done, box.server, box.outcome, "confirmed", box.cycle) /\ b.disk = box.disk
  <1> DEFINE b == With(box, s, box.done, box.server, box.disk, box.outcome, "confirmed", box.cycle)
  <1>1. [box EXCEPT !.tracker = "confirmed", !.step = s] = b
    <2>1. \A x, y : [box EXCEPT !.tracker = x, !.step = y]
                = With(box, y, box.done, box.server, box.disk, box.outcome, x, box.cycle)
      BY Updates
    <2>2. QED
      BY <2>1, Zenon
  <1>2. "confirmed" \in Statuses
    BY DEF Steps, Statuses
  <1>3. Has(b, s, box.done, box.server, box.outcome, "confirmed", box.cycle) /\ b.disk = box.disk
    BY <1>2 DEF Has, With, Boxes, Statuses
  <1>4. QED
    BY <1>1, <1>3, Zenon

LEMMA HoldingIs ==
  ASSUME NEW b \in Boxes, NEW d \in SUBSET Files, box \in Boxes, b.task = box.task,
         box' = Holding(b, d)
  PROVE  GoesOnAs(b) /\ box'.disk = d
  <1>1. box' = With(b, b.step, b.done, b.server, d, b.outcome, b.tracker, b.cycle)
    BY Updates DEF Holding
  <1>2. QED
    BY <1>1, MarkerAssumption DEF GoesOnAs, GoesOn, With, Boxes

LEMMA StaysSo ==
  ASSUME NEW b \in Boxes, box \in Boxes, b.task = box.task, box' = b
  PROVE  GoesOnAs(b) /\ box'.disk = b.disk
  BY MarkerAssumption DEF GoesOnAs, GoesOn

\* A step loses nothing that is durable, and brings there only what is known.
Keeps(files) ==
  volume \subseteq volume' /\ volume' \subseteq Known /\ Known' \subseteq Known \union files

LEMMA WritesGoesOn ==
  ASSUME box \in Boxes, NEW file \in Files, NEW next \in Boxes, NEW after \in Boxes,
         next.task = box.task, after.task = box.task, after.disk = box.disk,
         Writes(file, next, after), volume' = volume
  PROVE  (GoesOnAs(next) \/ GoesOnAs(after) \/ (box' = box /\ GoesOnAs(box))) /\ Keeps({file})
  <1> DEFINE written == box.disk \union {file}
  <1>1. written \in SUBSET Files /\ box # None
    BY BoxFields, MarkerAssumption
  <1>2. ASSUME NEW b \in {next, after}, box' = Holding(b, written)
        PROVE  (GoesOnAs(next) \/ GoesOnAs(after) \/ (box' = box /\ GoesOnAs(box))) /\ Keeps({file})
    <2>1. GoesOnAs(b) /\ box'.disk = written
      BY <1>1, <1>2, HoldingIs
    <2>2. box' # None
      BY <2>1 DEF GoesOnAs, GoesOn
    <2>3. QED
      BY <1>1, <2>1, <2>2 DEF Keeps, Known
  <1>3. ASSUME NEW b \in {after, box}, box' = b
        PROVE  (GoesOnAs(next) \/ GoesOnAs(after) \/ (box' = box /\ GoesOnAs(box))) /\ Keeps({file})
    <2>1. GoesOnAs(b) /\ box'.disk = box.disk
      BY <1>3, StaysSo
    <2>2. box' # None
      BY <2>1 DEF GoesOnAs, GoesOn
    <2>3. QED
      BY <1>1, <1>3, <2>1, <2>2 DEF Keeps, Known
  <1>4. next.task = box.task /\ box.disk = box.disk /\ box \in Boxes
    OBVIOUS
  <1>5. \/ box' \in {box, after}
        \/ \E b \in {next, after} : box' = Holding(b, written)
    BY DEF Writes
  <1>6. QED
    BY <1>2, <1>3, <1>5

LEMMA CommitGoesOn ==
  ASSUME box \in Boxes, volume \subseteq Files, NEW files, files \subseteq Known,
         NEW next \in Boxes, NEW after \in Boxes, next.task = box.task, after.task = box.task,
         CommitAndVerify(files, next, after)
  PROVE  ((GoesOnAs(next) /\ files \subseteq volume') \/ GoesOnAs(after)) /\ Keeps({})
  <1>1. box.disk \subseteq Files /\ box # None /\ Known = volume \union box.disk
    BY BoxFields, MarkerAssumption DEF Known
  <1>2. ASSUME NEW b \in {next, after}, NEW d \in SUBSET Known, box' = Holding(b, d),
               volume \subseteq volume', volume' \subseteq Known,
               b = next => files \subseteq volume'
        PROVE  ((GoesOnAs(next) /\ files \subseteq volume') \/ GoesOnAs(after)) /\ Keeps({})
    <2>1. GoesOnAs(b) /\ box'.disk = d
      BY <1>1, <1>2, HoldingIs
    <2>2. box' # None
      BY <2>1 DEF GoesOnAs, GoesOn
    <2>3. Known' = volume' \union d
      BY <2>1, <2>2 DEF Known
    <2>4. QED
      BY <1>1, <1>2, <2>1, <2>3 DEF Keeps
  <1>3. CASE volume' = volume \union box.disk /\ box' = Holding(next, volume')
    BY <1>1, <1>2, <1>3
  <1>4. ASSUME NEW view \in Proved(files), volume' = view[1], box' = Holding(next, view[2])
        PROVE  ((GoesOnAs(next) /\ files \subseteq volume') \/ GoesOnAs(after)) /\ Keeps({})
    <2>1. volume \subseteq view[1] /\ view[1] \subseteq Known /\ view[2] \subseteq Known
          /\ files \subseteq view[1]
      BY <1>1 DEF Proved
    <2>2. QED
      BY <1>2, <1>4, <2>1
  <1>5. ASSUME NEW view \in Unproved(files), volume' = view[1], box' = Holding(after, view[2])
        PROVE  GoesOnAs(after) /\ Keeps({})
    <2>1. volume \subseteq view[1] /\ view[1] \subseteq Known /\ view[2] \subseteq Known
      BY <1>1 DEF Proved, Unproved
    <2>2. GoesOnAs(after) /\ box'.disk = view[2]
      BY <1>1, <1>5, <2>1, HoldingIs
    <2>3. box' # None
      BY <2>2 DEF GoesOnAs, GoesOn
    <2>4. QED
      BY <1>1, <1>5, <2>1, <2>2, <2>3 DEF Keeps, Known
  <1>6. QED
    BY <1>3, <1>4, <1>5 DEF CommitAndVerify

LEMMA ExpectedAre ==
  ASSUME box \in Boxes, box.cycle \in {1, 2}
  PROVE  Range(Expected) = Basis
  <1> DEFINE all == Records \o <<NotStarted, Receipt, Installing(1), Installing(2)>>
  <1>1. /\ Len(all) = 6
        /\ all[1] = Claim(box.task) /\ all[2] = Acknowledgement(box.task) /\ all[3] = NotStarted
        /\ all[4] = Receipt /\ all[5] = Installing(1) /\ all[6] = Installing(2)
    BY DEF Records
  <1> HIDE DEF all
  <1>2. /\ DOMAIN Expected = 1 .. 4 + box.cycle
        /\ \A i \in 1 .. 4 + box.cycle : Expected[i] = all[i]
    BY <1>1 DEF Expected, all
  <1>3. Range(Expected) = {all[i] : i \in 1 .. 4 + box.cycle}
    BY <1>2 DEF Range
  <1>4. QED
    BY <1>1, <1>3 DEF Basis

-----------------------------------------------------------------------------
(* The call. *)

CallStatuses == {"none", "queued", "running", "failed", "returned"}
CallRecords == [status : CallStatuses, cancel : BOOLEAN, starts : 0 .. MaxStarts]

LEMMA CallUpdates ==
  ASSUME call \in CallRecords
  PROVE  /\ \A x \in CallStatuses :
              [call EXCEPT !.status = x] \in CallRecords /\ [call EXCEPT !.status = x].status = x
         /\ [call EXCEPT !.cancel = TRUE] \in CallRecords
         /\ [call EXCEPT !.cancel = TRUE].status = call.status
         /\ call.starts < MaxStarts =>
              /\ [call EXCEPT !.status = "running", !.starts = call.starts + 1] \in CallRecords
              /\ [call EXCEPT !.status = "running", !.starts = call.starts + 1].status = "running"
              /\ call.starts + 1 \in Tasks
  <1> DEFINE C(s, c, n) == [status |-> s, cancel |-> c, starts |-> n]
  <1>1. call = C(call.status, call.cancel, call.starts)
    BY DEF CallRecords
  <1>2. \A x : [call EXCEPT !.status = x] = C(x, call.cancel, call.starts)
    BY <1>1
  <1>3. \A x : [call EXCEPT !.cancel = x] = C(call.status, x, call.starts)
    BY <1>1
  <1>4. [call EXCEPT !.status = "running", !.starts = call.starts + 1]
          = C("running", call.cancel, call.starts + 1)
    <2>1. \A n : [C("running", call.cancel, call.starts) EXCEPT !.starts = n]
                  = C("running", call.cancel, n)
      OBVIOUS
    <2>2. QED
      BY <1>2, <2>1, Zenon
  <1>5. call.starts < MaxStarts => call.starts + 1 \in Tasks /\ call.starts + 1 \in 0 .. MaxStarts
    BY MatchedAssumption DEF CallRecords, Tasks
  <1>6. \A x \in CallStatuses : C(x, call.cancel, call.starts) \in CallRecords
    BY DEF CallRecords
  <1>7. C(call.status, TRUE, call.starts) \in CallRecords
    BY DEF CallRecords
  <1>8. /\ [call EXCEPT !.cancel = TRUE] \in CallRecords
         /\ [call EXCEPT !.cancel = TRUE].status = call.status
    <2>1. [call EXCEPT !.cancel = TRUE] = C(call.status, TRUE, call.starts)
      BY <1>3, Zenon
    <2>2. QED
      BY <1>7, <2>1
  <1>9. \A x \in CallStatuses :
           [call EXCEPT !.status = x] \in CallRecords /\ [call EXCEPT !.status = x].status = x
    BY <1>2, <1>6
  <1>10. call.starts < MaxStarts => C("running", call.cancel, call.starts + 1) \in CallRecords
    BY <1>5 DEF CallRecords, CallStatuses
  <1>11. QED
    BY <1>4, <1>5, <1>10, <1>8, <1>9

LEMMA TypedParts ==
  Typed <=> /\ manager \in {"intent", "spawn", "accept", "acceptance", "receipt", "cancel", "done"}
            /\ bound \in BOOLEAN
            /\ call \in CallRecords
            /\ box = None \/ box \in Boxes
            /\ registry \in Tasks \union {None}
            /\ volume \subseteq Files
            /\ worked \subseteq Tasks
            /\ faults \in 0 .. MaxFaults
  BY DEF Typed, CallRecords, CallStatuses

LEMMA BoxIsTyped == Typed /\ box # None => box \in Boxes
  BY DEF Typed

LEMMA KnownTyped ==
  ASSUME Typed
  PROVE  Known \subseteq Files
  BY BoxFields DEF Typed, Known

LEMMA FaultTyped ==
  ASSUME Typed, Fault \/ UNCHANGED faults
  PROVE  faults' \in 0 .. MaxFaults
  BY MatchedAssumption DEF Typed, Fault

-----------------------------------------------------------------------------
(* The steps that the container does not take itself, or ends with. *)

\* The manager: its call, and the acceptance.
HostStep ==
  /\ UNCHANGED <<box, registry, worked>>
  /\ volume' \in {volume, volume \union {Acceptance}}
  /\ call' \in CallRecords
  /\ call'.status = call.status \/ (manager = "spawn" /\ manager' # "spawn" /\ call'.status = "queued")
  /\ manager' \in {"intent", "spawn"} => manager = "intent" /\ call'.status = call.status
  /\ manager' \in {"intent", "spawn", "accept", "acceptance", "receipt", "cancel", "done"}
  /\ bound' \in BOOLEAN /\ (bound' => manager' = "done") /\ (bound => bound')
  /\ faults' \in 0 .. MaxFaults

LEMMA ManagersStep ==
  ASSUME Typed, CallInv, Manager \/ ManagerDies
  PROVE  HostStep
  <1> USE CallUpdates, FaultTyped, TypedParts
  <1>1. CASE Authorize
    BY <1>1 DEF Authorize, HostStep, CallInv
  <1>2. CASE Spawn
    BY <1>2 DEF Spawn, HostStep, CallInv, CallStatuses
  <1>3. CASE Accept
    BY <1>3 DEF Accept, HostStep, CallInv
  <1>4. CASE WriteAcceptance
    BY <1>4 DEF WriteAcceptance, HostStep, CallInv
  <1>5. CASE WriteCallReceipt
    BY <1>5 DEF WriteCallReceipt, HostStep, CallInv
  <1>6. CASE Cancel
    BY <1>6 DEF Cancel, HostStep, CallInv
  <1>7. CASE ManagerDies
    BY <1>7 DEF ManagerDies, HostStep, CallInv
  <1>8. QED
    BY <1>1, <1>2, <1>3, <1>4, <1>5, <1>6, <1>7 DEF Manager

\* The container is gone, and what it had written may be durable.
Gone ==
  /\ box # None /\ box' = None /\ UNCHANGED <<hostVars, worked>>
  /\ call' \in CallRecords /\ call'.status \in {"queued", "failed", "returned"}
  /\ volume \subseteq volume' /\ volume' \subseteq Known
  /\ faults' \in 0 .. MaxFaults

LEMMA EndsGone ==
  ASSUME Typed, box # None, NEW status \in {"queued", "failed", "returned"}, EndBox(status),
         Fault \/ UNCHANGED faults, UNCHANGED <<hostVars, worked>>
  PROVE  Gone
  BY CallUpdates, FaultTyped, TypedParts DEF Gone, EndBox, Known, CallStatuses

LEMMA DiesGone ==
  ASSUME Typed, ContainerDies
  PROVE  Gone /\ registry' = registry
  BY EndsGone DEF ContainerDies

LEMMA LeavesGone ==
  ASSUME Typed, Leave
  PROVE  Gone /\ registry' = registry
  BY EndsGone DEF Leave, Doing, CallFails

\* A container begins with what is durable.
Begins ==
  /\ box = None /\ call.status = "queued" /\ UNCHANGED <<hostVars, registry, volume, worked, faults>>
  /\ call' \in CallRecords /\ call'.status = "running"
  /\ box' \in Boxes /\ box'.step = "load" /\ box'.disk = volume /\ box'.server = FALSE
  /\ box'.done = 0 /\ box'.tracker = "not_started" /\ box'.cycle = 0

LEMMA StartsBegin ==
  ASSUME Typed, StartContainer
  PROVE  Begins
  <1>1. /\ call' \in CallRecords /\ call'.status = "running" /\ call.starts + 1 \in Tasks
    BY CallUpdates, TypedParts DEF StartContainer
  <1>2. volume \in SUBSET Files
    BY TypedParts
  <1>3. /\ box' \in Boxes /\ box'.step = "load" /\ box'.disk = volume /\ box'.server = FALSE
        /\ box'.done = 0 /\ box'.tracker = "not_started" /\ box'.cycle = 0
    BY <1>1, <1>2 DEF StartContainer, Boxes, Steps
  <1>4. QED
    BY <1>1, <1>3 DEF StartContainer, Begins

-----------------------------------------------------------------------------
(* The steps of the container. *)

Working == UNCHANGED <<hostVars, call, registry>> /\ faults' \in 0 .. MaxFaults
Moves(step) == GoesOn(step, box.done, box.server, box.outcome, box.tracker, box.cycle)

LEMMA MovesTo ==
  ASSUME box \in Boxes, NEW s \in Steps
  PROVE  /\ box # None /\ At(s) \in Boxes /\ At(s).task = box.task /\ At(s).disk = box.disk
         /\ GoesOnAs(At(s)) => Moves(s)
         /\ box' = At(s) => Moves(s) /\ box'.disk = box.disk
         /\ \A d \in SUBSET Files : box' = Holding(At(s), d) => Moves(s) /\ box'.disk = d
  <1>1. /\ box # None /\ At(s) \in Boxes /\ At(s).task = box.task /\ At(s).disk = box.disk
        /\ GoesOnAs(At(s)) => Moves(s)
    BY AtIs, MarkerAssumption DEF Has, GoesOnAs, Moves
  <1>2. box' = At(s) => Moves(s) /\ box'.disk = box.disk
    BY <1>1, StaysSo
  <1>3. \A d \in SUBSET Files : box' = Holding(At(s), d) => Moves(s) /\ box'.disk = d
    BY <1>1, HoldingIs
  <1>4. QED
    BY <1>1, <1>2, <1>3

LEMMA FailingIs ==
  ASSUME box \in Boxes
  PROVE  /\ Failing \in Boxes /\ Failing.task = box.task /\ Failing.disk = box.disk
         /\ GoesOnAs(Failing) => Moves("failing")
         /\ box' = Failing => Moves("failing") /\ box'.disk = box.disk
  <1>1. Failing = At("failing") /\ "failing" \in Steps
    BY DEF Failing, Steps
  <1>2. QED
    BY <1>1, MovesTo

LEMMA BoxStays ==
  ASSUME box \in Boxes
  PROVE  box # None /\ (GoesOnAs(box) => Moves(box.step))
  BY MarkerAssumption DEF GoesOnAs, Moves

\* Before the claim nothing is written.
LoadStep == Working /\ Moves("wait") /\ box'.disk = box.disk /\ UNCHANGED <<volume, worked>>
WaitStep ==
  Working /\ Moves("claim") /\ Acceptance \in volume /\ box'.disk = volume /\ UNCHANGED <<volume, worked>>
ClaimStep ==
  /\ registry = None /\ registry' = box.task /\ UNCHANGED <<hostVars, call, volume, worked>>
  /\ faults' \in 0 .. MaxFaults /\ Moves("records") /\ box'.disk = box.disk

LEMMA LoadIs ==
  ASSUME Typed, LoadIntent
  PROVE  LoadStep \/ (Gone /\ registry' = registry)
  <1>1. box # None /\ box \in Boxes /\ "wait" \in Steps
    BY BoxIsTyped DEF LoadIntent, Doing, Steps
  <1>2. CASE Step("wait") /\ UNCHANGED <<call, volume, faults>>
    BY <1>1, <1>2, MovesTo, FaultTyped DEF LoadIntent, LoadStep, Working, Step
  <1>3. CASE CallFails /\ Fault
    BY <1>1, <1>3, EndsGone DEF LoadIntent, CallFails
  <1>4. QED
    BY <1>2, <1>3 DEF LoadIntent

LEMMA WaitIs ==
  ASSUME Typed, WaitForAcceptance
  PROVE  WaitStep \/ (Gone /\ registry' = registry)
  <1>1. box # None /\ box \in Boxes /\ "claim" \in Steps /\ volume \in SUBSET Files
    BY BoxIsTyped, TypedParts DEF WaitForAcceptance, Doing, Steps
  <1>2. CASE /\ Acceptance \in volume /\ box' = Holding(At("claim"), volume)
             /\ UNCHANGED <<call, volume, faults>>
    BY <1>1, <1>2, MovesTo, FaultTyped DEF WaitForAcceptance, WaitStep, Working
  <1>3. CASE CallFails /\ (Fault \/ UNCHANGED faults)
    BY <1>1, <1>3, EndsGone DEF WaitForAcceptance, CallFails
  <1>4. QED
    BY <1>2, <1>3 DEF WaitForAcceptance

LEMMA ClaimIs ==
  ASSUME Typed, ClaimAttempt
  PROVE  \/ ClaimStep
         \/ Gone /\ registry' = registry
         \/ Gone /\ registry = None /\ registry' = box.task /\ box.step = "claim"
  <1>1. box # None /\ box \in Boxes /\ "records" \in Steps /\ box.step = "claim"
    BY BoxIsTyped DEF ClaimAttempt, Doing, Steps
  <1>2. CASE registry = None /\ registry' = box.task /\ Step("records") /\ UNCHANGED <<call, volume, faults>>
    BY <1>1, <1>2, MovesTo, FaultTyped DEF ClaimAttempt, ClaimStep, Step
  <1>3. CASE registry = None /\ registry' \in {None, box.task} /\ CallFails /\ Fault
    BY <1>1, <1>3, EndsGone DEF ClaimAttempt, CallFails
  <1>4. CASE registry # None /\ CallFails /\ UNCHANGED <<registry, faults>>
    BY <1>1, <1>4, EndsGone DEF ClaimAttempt, CallFails
  <1>5. QED
    BY <1>2, <1>3, <1>4 DEF ClaimAttempt

\* A write that is under way, or that leaves a temporary, has written nothing yet.
Waits == UNCHANGED <<hostVars, call, box, registry, volume, worked>> /\ faults' \in 0 .. MaxFaults

\* From the claim on the container writes files, and commits them.
Binding == {Claim(box.task), Acknowledgement(box.task)}

RecordsStep ==
  /\ Working /\ UNCHANGED worked /\ Keeps(Binding)
  /\ \/ Moves("records") \/ Moves("failing")
     \/ Moves("start") /\ Binding \subseteq volume'

LEMMA BindingIs == Range(Records) = Binding
  <1>1. DOMAIN Records = {1, 2} /\ Records[1] = Claim(box.task) /\ Records[2] = Acknowledgement(box.task)
    BY DEF Records
  <1>2. QED
    BY <1>1 DEF Range, Binding

LEMMA KeepsFewer ==
  ASSUME NEW files, NEW more, files \subseteq more, Keeps(files)
  PROVE  Keeps(more)
  BY DEF Keeps

LEMMA RecordsAre ==
  ASSUME Typed, PublishRecords
  PROVE  RecordsStep
  <1>1. box # None /\ box \in Boxes /\ box.step = "records" /\ "start" \in Steps /\ volume \subseteq Files
    BY BoxIsTyped, TypedParts DEF PublishRecords, Doing, Steps
  <1>2. Binding \subseteq Files
    BY <1>1, BoxFields, MadeFiles DEF Binding
  <1>3. ASSUME NEW f \in Range(Records), Writes(f, box, Failing), UNCHANGED volume
        PROVE  RecordsStep
    <2>1. (GoesOnAs(box) \/ GoesOnAs(Failing)) /\ Keeps({f})
      BY <1>1, <1>2, <1>3, BindingIs, FailingIs, WritesGoesOn
    <2>2. Moves("records") \/ Moves("failing")
      BY <1>1, <2>1, FailingIs, BoxStays
    <2>3. Keeps(Binding)
      BY <1>3, <2>1, BindingIs, KeepsFewer
    <2>4. faults' \in 0 .. MaxFaults
      BY <1>3, FaultTyped DEF Writes
    <2>5. QED
      BY <2>2, <2>3, <2>4 DEF RecordsStep, Working, PublishRecords
  <1>4. ASSUME Installed(Records), CommitAndVerify(Range(Records), At("start"), Failing)
        PROVE  RecordsStep
    <2>1. Binding \subseteq Known
      BY <1>1, <1>4, BindingIs DEF Installed, Known
    <2>2. CommitAndVerify(Binding, At("start"), Failing)
      BY <1>4, BindingIs
    <2>3. At("start") \in Boxes /\ At("start").task = box.task
      BY <1>1, MovesTo
    <2>4. ((GoesOnAs(At("start")) /\ Binding \subseteq volume') \/ GoesOnAs(Failing)) /\ Keeps({})
      BY <1>1, <2>1, <2>2, <2>3, FailingIs, CommitGoesOn
    <2>5. (Moves("start") /\ Binding \subseteq volume') \/ Moves("failing")
      BY <1>1, <2>4, FailingIs, MovesTo
    <2>6. Keeps(Binding)
      BY <2>4, KeepsFewer
    <2>7. faults' \in 0 .. MaxFaults
      BY <1>4, FaultTyped DEF CommitAndVerify
    <2>8. QED
      BY <2>5, <2>6, <2>7 DEF RecordsStep, Working, PublishRecords
  <1>5. QED
    BY <1>3, <1>4 DEF PublishRecords

LEMMA NothingWritten ==
  ASSUME box # None, box' # None, volume' = volume, box'.disk = box.disk
  PROVE  Keeps({})
  BY DEF Keeps, Known

\* A file is written, and then committed, by the same action.
LEMMA OneFile ==
  ASSUME Typed, box # None, NEW file \in Files, NEW next \in Boxes, NEW after \in Boxes,
         next.task = box.task, after.task = box.task, after.disk = box.disk,
         IF file \notin box.disk THEN Writes(file, box, after) /\ UNCHANGED volume
                                 ELSE CommitAndVerify({file}, next, after)
  PROVE  /\ Moves(box.step) \/ GoesOnAs(after) \/ (GoesOnAs(next) /\ file \in volume')
         /\ Keeps({file}) /\ faults' \in 0 .. MaxFaults
  <1>1. box \in Boxes /\ volume \subseteq Files
    BY BoxIsTyped, TypedParts
  <1>2. CASE Writes(file, box, after) /\ UNCHANGED volume
    <2>1. (GoesOnAs(box) \/ GoesOnAs(after)) /\ Keeps({file})
      BY <1>1, <1>2, WritesGoesOn
    <2>2. faults' \in 0 .. MaxFaults
      BY <1>2, FaultTyped DEF Writes
    <2>3. QED
      BY <1>1, <2>1, <2>2, BoxStays
  <1>3. CASE file \in box.disk /\ CommitAndVerify({file}, next, after)
    <2>1. {file} \subseteq Known
      BY <1>3 DEF Known
    <2>2. ((GoesOnAs(next) /\ {file} \subseteq volume') \/ GoesOnAs(after)) /\ Keeps({})
      BY <1>1, <1>3, <2>1, CommitGoesOn
    <2>3. Keeps({file})
      BY <2>2, KeepsFewer
    <2>4. faults' \in 0 .. MaxFaults
      BY <1>3, FaultTyped DEF CommitAndVerify
    <2>5. QED
      BY <2>2, <2>3, <2>4
  <1>4. QED
    BY <1>2, <1>3

StartStep ==
  /\ Working /\ Keeps({})
  /\ \/ /\ GoesOn("probe", box.done, TRUE, box.outcome, box.tracker, box.cycle)
        /\ worked' = worked \union {box.task}
     \/ Moves("failing") /\ UNCHANGED worked

LEMMA StartIs ==
  ASSUME Typed, StartServer
  PROVE  StartStep
  <1>1. box # None /\ box \in Boxes /\ "probe" \in Steps
    BY BoxIsTyped DEF StartServer, Doing, Steps
  <1>2. faults' \in 0 .. MaxFaults
    BY FaultTyped DEF StartServer
  <1>3. CASE box' = [box EXCEPT !.step = "probe", !.server = TRUE] /\ worked' = worked \union {box.task}
    <2>1. /\ Has(box', "probe", box.done, TRUE, box.outcome, box.tracker, box.cycle)
          /\ box'.disk = box.disk
      BY <1>1, <1>3, ProbeIs, Zenon
    <2>2. box' # None /\ GoesOn("probe", box.done, TRUE, box.outcome, box.tracker, box.cycle)
      BY <1>1, <2>1, MarkerAssumption DEF Has, GoesOn
    <2>3. Keeps({})
      BY <1>1, <2>1, <2>2, NothingWritten DEF StartServer
    <2>4. QED
      BY <1>2, <1>3, <2>2, <2>3 DEF StartServer, StartStep, Working
  <1>4. CASE box' = Failing /\ Fault /\ UNCHANGED worked
    <2>1. Moves("failing") /\ box'.disk = box.disk /\ box' # None
      BY <1>1, <1>4, FailingIs DEF Moves, GoesOn
    <2>2. QED
      BY <1>1, <1>2, <1>4, <2>1, NothingWritten DEF StartServer, StartStep, Working
  <1>5. QED
    BY <1>3, <1>4 DEF StartServer

RunStep ==
  /\ Working /\ UNCHANGED worked /\ Keeps({})
  /\ \/ GoesOn("persist", box.done, FALSE, box.outcome, box.tracker, box.cycle)
     \/ \E left \in BOOLEAN : GoesOn("failing", box.done, left, box.outcome, box.tracker, box.cycle)

LEMMA RunIs ==
  ASSUME Typed, RunSubject
  PROVE  RunStep
  <1>1. box # None /\ box \in Boxes /\ "persist" \in Steps /\ "failing" \in Steps
    BY BoxIsTyped DEF RunSubject, Doing, Steps
  <1>2. faults' \in 0 .. MaxFaults
    BY FaultTyped DEF RunSubject
  <1>3. ASSUME NEW s \in Steps, NEW left \in BOOLEAN, box' = [box EXCEPT !.step = s, !.server = left]
        PROVE  GoesOn(s, box.done, left, box.outcome, box.tracker, box.cycle) /\ Keeps({})
    <2>1. /\ Has(box', s, box.done, left, box.outcome, box.tracker, box.cycle)
          /\ box'.disk = box.disk
      BY <1>1, <1>3, ProbeIs, Zenon
    <2>2. box' # None /\ GoesOn(s, box.done, left, box.outcome, box.tracker, box.cycle)
      BY <1>1, <2>1, MarkerAssumption DEF Has, GoesOn
    <2>3. QED
      BY <1>1, <2>1, <2>2, NothingWritten DEF RunSubject
  <1>4. \/ box' = [box EXCEPT !.step = "persist", !.server = FALSE]
        \/ \E left \in BOOLEAN : box' = [box EXCEPT !.step = "failing", !.server = left]
    BY Zenon DEF RunSubject
  <1>5. Working /\ UNCHANGED worked
    BY <1>2 DEF RunSubject, Working
  <1>6. CASE box' = [box EXCEPT !.step = "persist", !.server = FALSE]
    <2>1. GoesOn("persist", box.done, FALSE, box.outcome, box.tracker, box.cycle) /\ Keeps({})
      BY <1>1, <1>3, <1>6, Zenon
    <2>2. QED
      BY <1>5, <2>1 DEF RunStep
  <1>7. ASSUME NEW left \in BOOLEAN, box' = [box EXCEPT !.step = "failing", !.server = left]
        PROVE  RunStep
    <2>1. GoesOn("failing", box.done, left, box.outcome, box.tracker, box.cycle) /\ Keeps({})
      BY <1>1, <1>3, <1>7, Zenon
    <2>2. QED
      BY <1>5, <2>1, Zenon DEF RunStep
  <1>8. QED
    BY <1>4, <1>6, <1>7, Zenon

PersistStep ==
  /\ Working /\ UNCHANGED worked /\ Keeps({SubjectReceipt(box.task, box.done + 1)})
  /\ \/ Moves("persist") \/ Moves("failing")
     \/ /\ GoesOn(IF box.done = 0 THEN "start" ELSE "verify", box.done + 1, box.server, box.outcome,
                  box.tracker, box.cycle)
        /\ SubjectReceipt(box.task, box.done + 1) \in volume'

LEMMA PersistIs ==
  ASSUME Typed, PersistSubject, box.done \in {0, 1}
  PROVE  PersistStep
  <1> DEFINE receipt == SubjectReceipt(box.task, box.done + 1)
             next == IF box.done = 0 THEN "start" ELSE "verify"
  <1>1. box # None /\ box \in Boxes /\ box.step = "persist"
    BY BoxIsTyped DEF PersistSubject, Doing
  <1>2. box.task \in Tasks /\ box.done + 1 \in Subjects /\ next \in Steps
    BY <1>1, BoxFields DEF Subjects, Steps
  <1>3. receipt \in Files
    BY <1>2, MadeFiles
  <1>4. Has(Completed, next, box.done + 1, box.server, box.outcome, box.tracker, box.cycle)
    BY <1>1, <1>2, CompletedIs
  <1>5. IF receipt \notin box.disk THEN Writes(receipt, box, Failing) /\ UNCHANGED volume
                                   ELSE CommitAndVerify({receipt}, Completed, Failing)
    BY DEF PersistSubject
  <1> HIDE DEF receipt, next
  <1>6. Completed \in Boxes /\ Completed.task = box.task
        /\ (GoesOnAs(Completed) =>
              GoesOn(next, box.done + 1, box.server, box.outcome, box.tracker, box.cycle))
    BY <1>4 DEF Has, GoesOnAs
  <1>7. /\ Moves(box.step) \/ GoesOnAs(Failing) \/ (GoesOnAs(Completed) /\ receipt \in volume')
        /\ Keeps({receipt}) /\ faults' \in 0 .. MaxFaults
    BY <1>1, <1>3, <1>5, <1>6, FailingIs, OneFile
  <1>8. Moves("persist") \/ Moves("failing")
        \/ (GoesOn(next, box.done + 1, box.server, box.outcome, box.tracker, box.cycle)
            /\ receipt \in volume')
    BY <1>1, <1>6, <1>7, FailingIs
  <1>9. QED
    BY <1>7, <1>8 DEF PersistStep, Working, PersistSubject, receipt, next

VerifyStep ==
  Working /\ UNCHANGED worked /\ Keeps({}) /\ (Moves("publish") \/ Moves("failing"))

LEMMA VerifyIs ==
  ASSUME Typed, VerifySubjects, \A s \in Subjects : SubjectReceipt(box.task, s) \in volume
  PROVE  VerifyStep
  <1>1. box # None /\ box \in Boxes /\ "publish" \in Steps /\ volume \subseteq Files
    BY BoxIsTyped, TypedParts DEF VerifySubjects, Doing, Steps
  <1> DEFINE files == {SubjectReceipt(box.task, s) : s \in Subjects}
  <1>2. files \subseteq Known
    BY DEF Known
  <1>3. CommitAndVerify(files, At("publish"), Failing)
    BY DEF VerifySubjects
  <1> HIDE DEF files
  <1>4. At("publish") \in Boxes /\ At("publish").task = box.task
    BY <1>1, MovesTo
  <1>5. ((GoesOnAs(At("publish")) /\ files \subseteq volume') \/ GoesOnAs(Failing)) /\ Keeps({})
    BY <1>1, <1>2, <1>3, <1>4, FailingIs, CommitGoesOn
  <1>6. Moves("publish") \/ Moves("failing")
    BY <1>1, <1>5, FailingIs, MovesTo
  <1>7. faults' \in 0 .. MaxFaults
    BY <1>3, FaultTyped DEF CommitAndVerify
  <1>8. QED
    BY <1>5, <1>6, <1>7 DEF VerifyStep, Working, VerifySubjects

FailureStep ==
  /\ Working /\ UNCHANGED worked /\ Keeps({})
  /\ GoesOn("publish", box.done, box.server, "failure", box.tracker, box.cycle)

LEMMA FailureStepIs ==
  ASSUME Typed, BuildFailure
  PROVE  FailureStep
  <1>1. box # None /\ box \in Boxes
    BY BoxIsTyped DEF BuildFailure, Doing
  <1>2. box' = [box EXCEPT !.step = "publish", !.outcome = "failure"]
    BY Zenon DEF BuildFailure
  <1>3. /\ Has(box', "publish", box.done, box.server, "failure", box.tracker, box.cycle)
        /\ box'.disk = box.disk
    BY <1>1, <1>2, FailureIs, Zenon
  <1>4. box' # None /\ GoesOn("publish", box.done, box.server, "failure", box.tracker, box.cycle)
    BY <1>1, <1>3, MarkerAssumption DEF Has, GoesOn
  <1>5. UNCHANGED <<hostVars, call, registry, volume, worked, faults>>
    BY Zenon DEF BuildFailure
  <1>6. QED
    BY <1>1, <1>3, <1>4, <1>5, NothingWritten, FaultTyped DEF FailureStep, Working

-----------------------------------------------------------------------------
(* The steps of the publication. *)

GivesUp == GoesOn("unknown", box.done, box.server, box.outcome, "unknown", box.cycle)

LEMMA GivesUpIs ==
  ASSUME box \in Boxes
  PROVE  /\ Unknown \in Boxes /\ Unknown.task = box.task /\ Unknown.disk = box.disk
         /\ GoesOnAs(Unknown) => GivesUp
         /\ box' = Unknown => GivesUp /\ box'.disk = box.disk
         /\ \A d \in SUBSET Files : box' = Holding(Unknown, d) => GivesUp /\ box'.disk = d
  <1>1. /\ Unknown \in Boxes /\ Unknown.task = box.task /\ Unknown.disk = box.disk
        /\ GoesOnAs(Unknown) => GivesUp
    BY UnknownIs DEF Has, GoesOnAs, GivesUp
  <1>2. box' = Unknown => GivesUp /\ box'.disk = box.disk
    BY <1>1, StaysSo
  <1>3. \A d \in SUBSET Files : box' = Holding(Unknown, d) => GivesUp /\ box'.disk = d
    BY <1>1, HoldingIs
  <1>4. QED
    BY <1>1, <1>2, <1>3

\* The names of the files that a publication writes.
LEMMA PublishedFiles ==
  ASSUME box \in Boxes
  PROVE  /\ NotStarted \in Files /\ NotStarted.kind = "snapshot" /\ NotStarted.status = "not_started"
         /\ NotStarted.cycle = 0 /\ NotStarted.receipt = None /\ NotStarted.task = box.task
         /\ Receipt \in Files /\ Receipt \in Receipts /\ Receipt.kind = "terminal"
         /\ Receipt.task = box.task /\ Receipt.outcome = box.outcome /\ Receipt.done = box.done
         /\ \A c \in 0 .. 2 :
              /\ Installing(c) \in Files /\ Installing(c).kind = "snapshot"
              /\ Installing(c).status = "installing" /\ Installing(c).cycle = c
              /\ Installing(c).receipt = Receipt /\ Installing(c).task = box.task
         /\ \A s \in Statuses :
              /\ Now(s) \in Files /\ Now(s).kind = "snapshot" /\ Now(s).status = s
              /\ Now(s).cycle = box.cycle /\ Now(s).receipt = Receipt /\ Now(s).task = box.task
  <1>1. /\ box.task \in Tasks /\ box.outcome \in {"success", "failure"} /\ box.done \in 0 .. 2
        /\ box.cycle \in 0 .. 2 /\ 0 \in 0 .. 2 /\ "not_started" \in Statuses /\ "installing" \in Statuses
    BY BoxFields DEF Statuses
  <1>2. /\ Receipt \in Files /\ Receipt \in Receipts /\ Receipt.kind = "terminal"
        /\ Receipt.task = box.task /\ Receipt.outcome = box.outcome /\ Receipt.done = box.done
    BY <1>1, MadeReceipts DEF Receipt
  <1>3. /\ NotStarted \in Files /\ NotStarted.kind = "snapshot" /\ NotStarted.status = "not_started"
        /\ NotStarted.cycle = 0 /\ NotStarted.receipt = None /\ NotStarted.task = box.task
    BY <1>1, MadeSnapshots DEF NotStarted
  <1>4. \A s \in Statuses, c \in 0 .. 2 :
          LET f == Snapshot(box.task, s, c, Receipt)
          IN  /\ f \in Files /\ f.kind = "snapshot" /\ f.task = box.task
              /\ f.status = s /\ f.cycle = c /\ f.receipt = Receipt
    BY <1>1, <1>2, MadeSnapshots
  <1>5. \A c \in 0 .. 2 :
          /\ Installing(c) \in Files /\ Installing(c).kind = "snapshot"
          /\ Installing(c).status = "installing" /\ Installing(c).cycle = c
          /\ Installing(c).receipt = Receipt /\ Installing(c).task = box.task
    BY <1>1, <1>4 DEF Installing
  <1>6. \A s \in Statuses :
          /\ Now(s) \in Files /\ Now(s).kind = "snapshot" /\ Now(s).status = s
          /\ Now(s).cycle = box.cycle /\ Now(s).receipt = Receipt /\ Now(s).task = box.task
    BY <1>1, <1>4 DEF Now
  <1>7. QED
    BY <1>2, <1>3, <1>5, <1>6

BeginStep ==
  /\ Working /\ UNCHANGED worked /\ Keeps({NotStarted})
  /\ \/ GoesOn(box.step, box.done, box.server, box.outcome, "installing", 1)
     \/ Moves(IF box.outcome = "success" THEN "failing" ELSE "raise")

LEMMA BeginIs ==
  ASSUME Typed, BeginPublication
  PROVE  BeginStep \/ Waits
  <1> DEFINE after == IF box.outcome = "success" THEN "failing" ELSE "raise"
  <1>1. box # None /\ box \in Boxes /\ after \in Steps /\ volume \subseteq Files
    BY BoxIsTyped, TypedParts DEF BeginPublication, Doing, Steps
  <1>2. Writes(NotStarted, Begun, At(after)) /\ faults' \in 0 .. MaxFaults
    BY FaultTyped DEF BeginPublication, Writes
  <1> HIDE DEF after
  <1>3. Begun \in Boxes /\ Begun.task = box.task
        /\ (GoesOnAs(Begun) => GoesOn(box.step, box.done, box.server, box.outcome, "installing", 1))
    BY <1>1, BegunIs DEF Has, GoesOnAs
  <1>4. (GoesOnAs(Begun) \/ GoesOnAs(At(after)) \/ box' = box) /\ Keeps({NotStarted})
    BY <1>1, <1>2, <1>3, MovesTo, PublishedFiles, WritesGoesOn DEF BeginPublication
  <1>5. \/ GoesOn(box.step, box.done, box.server, box.outcome, "installing", 1)
        \/ Moves(after) \/ box' = box
    BY <1>1, <1>3, <1>4, MovesTo
  <1>6. QED
    BY <1>2, <1>4, <1>5 DEF BeginStep, Waits, Working, BeginPublication, after

InstallStep ==
  /\ Working /\ UNCHANGED worked /\ (Moves("publish") \/ GivesUp)
  /\ \E f \in Basis : Keeps({f})

LEMMA InstallIs ==
  ASSUME Typed, Install, box.cycle \in {1, 2}
  PROVE  InstallStep \/ Waits
  <1>1. box # None /\ box \in Boxes /\ box.step = "publish" /\ volume \subseteq Files
    BY BoxIsTyped, TypedParts DEF Install, Doing
  <1>2. Basis \subseteq Files
    BY <1>1, BoxFields, MadeFiles, PublishedFiles DEF Basis
  <1>3. ASSUME NEW f \in Basis, Writes(f, box, Unknown)
        PROVE  InstallStep
    <2>1. (GoesOnAs(box) \/ GoesOnAs(Unknown)) /\ Keeps({f})
      BY <1>1, <1>2, <1>3, GivesUpIs, WritesGoesOn DEF Install
    <2>2. Moves("publish") \/ GivesUp
      BY <1>1, <2>1, BoxStays, GivesUpIs
    <2>3. faults' \in 0 .. MaxFaults
      BY <1>3, FaultTyped DEF Writes
    <2>4. QED
      BY <2>1, <2>2, <2>3 DEF InstallStep, Working, Install
  <1>4. CASE box' = box /\ Fault
    BY <1>4, FaultTyped DEF Install, Waits
  <1>5. QED
    BY <1>1, <1>3, <1>4, ExpectedAre DEF Install

SettleStep ==
  /\ Working /\ UNCHANGED worked /\ Keeps({})
  /\ \/ Moves("confirm") /\ Basis \subseteq volume'
     \/ box.cycle = 1 /\ GoesOn(box.step, box.done, box.server, box.outcome, box.tracker, 2)
     \/ GivesUp

LEMMA NextCycleIs ==
  ASSUME box \in Boxes, NEW d \in SUBSET Files,
         \/ box' = Holding(NextCycle, d)
         \/ box' = NextCycle /\ d = box.disk
  PROVE  /\ box'.disk = d
         /\ \/ box.cycle = 1 /\ GoesOn(box.step, box.done, box.server, box.outcome, box.tracker, 2)
            \/ GivesUp
  <1>1. CASE box.cycle = 1
    <2>1. /\ Has(NextCycle, box.step, box.done, box.server, box.outcome, box.tracker, 2)
          /\ NextCycle.disk = box.disk
      BY <1>1, SecondCycleIs, Zenon DEF NextCycle
    <2>2. NextCycle \in Boxes /\ NextCycle.task = box.task
      BY <2>1 DEF Has
    <2>3. GoesOnAs(NextCycle) /\ box'.disk = d
      BY <2>1, <2>2, HoldingIs, StaysSo
    <2>4. QED
      BY <1>1, <2>1, <2>3 DEF Has, GoesOnAs
  <1>2. CASE box.cycle # 1
    <2>1. NextCycle = Unknown
      BY <1>2 DEF NextCycle
    <2>2. QED
      BY <2>1, GivesUpIs
  <1>3. QED
    BY <1>1, <1>2

LEMMA SettleIs ==
  ASSUME Typed, Settle, box.cycle \in {1, 2}
  PROVE  SettleStep
  <1>1. box # None /\ box \in Boxes /\ "confirm" \in Steps /\ volume \subseteq Files
        /\ box.disk \in SUBSET Files
    BY BoxIsTyped, TypedParts, BoxFields DEF Settle, Doing, Steps
  <1>2. Range(Expected) = Basis /\ Basis \subseteq box.disk
    BY <1>1, ExpectedAre DEF Settle, Installed
  <1>3. /\ volume' \in {volume, volume \union box.disk} /\ faults' \in 0 .. MaxFaults
        /\ UNCHANGED <<hostVars, call, registry, worked>>
    BY FaultTyped DEF Settle
  <1>4. volume' \in SUBSET Files /\ Known = volume \union box.disk
    BY <1>1, <1>3 DEF Known
  <1>5. ASSUME box' # None, box'.disk \in {box.disk, volume'}
        PROVE  Keeps({})
    BY <1>3, <1>4, <1>5 DEF Keeps, Known
  <1>6. CASE box' = Holding(At("confirm"), volume') /\ Basis \subseteq volume'
    <2>1. Moves("confirm") /\ box'.disk = volume'
      BY <1>1, <1>4, <1>6, MovesTo
    <2>2. box' # None
      BY <2>1 DEF Moves, GoesOn
    <2>3. QED
      BY <1>3, <1>5, <1>6, <2>1, <2>2 DEF SettleStep, Working
  <1>7. CASE box' = Holding(NextCycle, volume') \/ box' = NextCycle
    <2>1. /\ box'.disk \in {box.disk, volume'}
          /\ \/ box.cycle = 1 /\ GoesOn(box.step, box.done, box.server, box.outcome, box.tracker, 2)
             \/ GivesUp
      BY <1>1, <1>4, <1>7, NextCycleIs
    <2>2. box' # None
      BY <2>1 DEF GivesUp, GoesOn
    <2>3. QED
      BY <1>3, <1>5, <2>1, <2>2 DEF SettleStep, Working
  <1>8. CASE box' = Holding(Unknown, volume')
    <2>1. GivesUp /\ box'.disk = volume'
      BY <1>1, <1>4, <1>8, GivesUpIs
    <2>2. box' # None
      BY <2>1 DEF GivesUp, GoesOn
    <2>3. QED
      BY <1>3, <1>5, <2>1, <2>2 DEF SettleStep, Working
  <1>9. QED
    BY <1>2, <1>6, <1>7, <1>8 DEF Settle

ConfirmStep ==
  /\ Working /\ UNCHANGED worked /\ Keeps({Confirmation})
  /\ \/ Moves("confirm") \/ GivesUp
     \/ /\ GoesOn(IF box.outcome = "success" THEN "return" ELSE "raise", box.done, box.server,
                  box.outcome, "confirmed", box.cycle)
        /\ Confirmation \in volume'

LEMMA ConfirmIs ==
  ASSUME Typed, Confirm
  PROVE  ConfirmStep
  <1> DEFINE last == IF box.outcome = "success" THEN "return" ELSE "raise"
             confirmed == [box EXCEPT !.tracker = "confirmed", !.step = last]
  <1>1. box # None /\ box \in Boxes /\ box.step = "confirm" /\ last \in Steps
    BY BoxIsTyped DEF Confirm, Doing, Steps
  <1>2. Confirmation \in Files
    BY <1>1, PublishedFiles DEF Confirmation, Statuses
  <1>3. IF Confirmation \notin box.disk THEN Writes(Confirmation, box, Unknown) /\ UNCHANGED volume
                                        ELSE CommitAndVerify({Confirmation}, confirmed, Unknown)
    BY Zenon DEF Confirm
  <1> HIDE DEF last
  <1>4. Has(confirmed, last, box.done, box.server, box.outcome, "confirmed", box.cycle)
    BY <1>1, ConfirmedIs, Zenon
  <1> HIDE DEF confirmed
  <1>5. confirmed \in Boxes /\ confirmed.task = box.task
        /\ (GoesOnAs(confirmed) =>
              GoesOn(last, box.done, box.server, box.outcome, "confirmed", box.cycle))
    BY <1>4 DEF Has, GoesOnAs
  <1>6. /\ Moves(box.step) \/ GoesOnAs(Unknown) \/ (GoesOnAs(confirmed) /\ Confirmation \in volume')
        /\ Keeps({Confirmation}) /\ faults' \in 0 .. MaxFaults
    BY <1>1, <1>2, <1>3, <1>5, GivesUpIs, OneFile
  <1>7. Moves("confirm") \/ GivesUp
        \/ (GoesOn(last, box.done, box.server, box.outcome, "confirmed", box.cycle)
            /\ Confirmation \in volume')
    BY <1>1, <1>5, <1>6, GivesUpIs
  <1>8. UNCHANGED <<hostVars, call, registry, worked>>
    BY Zenon DEF Confirm
  <1>9. QED
    BY <1>6, <1>7, <1>8 DEF ConfirmStep, Working, last

UnknownStep ==
  /\ Working /\ UNCHANGED worked /\ Keeps({Now("unknown")})
  /\ Moves("unknown") \/ Moves("raise")

LEMMA RecordUnknownIs ==
  ASSUME Typed, RecordUnknown
  PROVE  UnknownStep
  <1>1. box # None /\ box \in Boxes /\ box.step = "unknown" /\ "raise" \in Steps
    BY BoxIsTyped DEF RecordUnknown, Doing, Steps
  <1>2. Now("unknown") \in Files
    BY <1>1, PublishedFiles DEF Statuses
  <1>3. IF Now("unknown") \notin box.disk
          THEN Writes(Now("unknown"), box, At("raise")) /\ UNCHANGED volume
          ELSE CommitAndVerify({Now("unknown")}, At("raise"), At("raise"))
    BY DEF RecordUnknown
  <1>4. /\ Moves(box.step) \/ GoesOnAs(At("raise"))
        /\ Keeps({Now("unknown")}) /\ faults' \in 0 .. MaxFaults
    BY <1>1, <1>2, <1>3, MovesTo, OneFile
  <1>5. Moves("unknown") \/ Moves("raise")
    BY <1>1, <1>4, MovesTo
  <1>6. QED
    BY <1>4, <1>5 DEF UnknownStep, Working, RecordUnknown

-----------------------------------------------------------------------------
(* What a step leaves of the invariants when the container writes nothing. *)

\* The container stays as it is, or goes.
Quiet ==
  /\ UNCHANGED <<registry, worked>> /\ (box' = box \/ box' = None)
  /\ volume \subseteq volume' /\ volume' \subseteq Known \union {Acceptance}

LEMMA QuietKnown ==
  ASSUME Quiet
  PROVE  /\ Known' \subseteq Known \union {Acceptance}
         /\ Terminals' \subseteq Terminals /\ States' \subseteq States
  <1>1. Known' \subseteq Known \union {Acceptance}
    BY DEF Quiet, Known
  <1>2. QED
    BY <1>1 DEF Terminals, States, OfKind, Acceptance

LEMMA QuietKeepsOwner ==
  ASSUME OwnerInv, Quiet
  PROVE  OwnerInv'
  <1>1. \A f \in Known' : f.kind # "acceptance" => f.task = registry'
    BY QuietKnown DEF OwnerInv, Quiet, Acceptance
  <1>2. worked' \subseteq {registry'} /\ \A t \in worked' : {Claim(t), Acknowledgement(t)} \subseteq volume'
    BY DEF OwnerInv, Quiet
  <1>3. box' # None =>
          /\ box'.step \in Early => /\ box'.disk \subseteq volume' /\ ~box'.server /\ box'.done = 0
                                    /\ box'.tracker = "not_started" /\ box'.cycle = 0
          /\ box'.step \notin {"load", "wait"} => Acceptance \in volume'
          /\ box'.step \notin Early => registry' = box'.task
    BY DEF OwnerInv, Quiet
  <1>4. QED
    BY <1>1, <1>2, <1>3 DEF OwnerInv

LEMMA QuietKeepsStep ==
  ASSUME StepInv, Quiet
  PROVE  StepInv'
  <1>1. CASE box' = None
    BY <1>1 DEF StepInv, Owns
  <1>2. CASE box' = box
    BY <1>2 DEF StepInv, Owns, Quiet
  <1>3. QED
    BY <1>1, <1>2 DEF Quiet

LEMMA QuietKeepsTracker ==
  ASSUME Typed, TrackerInv, Quiet
  PROVE  TrackerInv'
  <1>1. CASE box' = None
    BY <1>1 DEF TrackerInv, Owns
  <1>2. CASE box' = box /\ Owns
    <2>1. /\ Receipt' = Receipt /\ Confirmation' = Confirmation /\ Begin' = Begin /\ Basis' = Basis
          /\ NotStarted' = NotStarted /\ Now("unknown")' = Now("unknown") /\ Owns'
      BY <1>2 DEF Receipt, Confirmation, Now, Begin, Basis, NotStarted, Installing, Owns
    <2>2. Confirmation.kind = "snapshot" /\ Now("unknown").kind = "snapshot"
      BY DEF Confirmation, Now, Snapshot
    <2>3. /\ Confirmation \in Known' => Confirmation \in Known
          /\ Now("unknown") \in Known' => Now("unknown") \in Known
      BY <2>2, QuietKnown DEF Acceptance
    <2>4. Terminals' \subseteq Terminals /\ States' \subseteq States /\ volume \subseteq volume'
      BY QuietKnown DEF Quiet
    <2>5. QED
      BY <1>2, <2>1, <2>3, <2>4 DEF TrackerInv
  <1>3. CASE box' = box /\ ~Owns
    BY <1>3 DEF TrackerInv, Owns
  <1>4. QED
    BY <1>1, <1>2, <1>3 DEF Quiet

LEMMA ReceiptStays ==
  ASSUME ReceiptInv, Terminals' \subseteq Terminals, volume \subseteq volume', worked \subseteq worked'
  PROVE  ReceiptInv'
  <1> SUFFICES ASSUME NEW r \in Terminals'
               PROVE  /\ \A q \in Terminals' : q = r
                      /\ \A s \in 1 .. r.done : SubjectReceipt(r.task, s) \in volume'
                      /\ r.outcome = "success" => r.done = 2 /\ worked' # {}
    BY DEF ReceiptInv
  <1>1. r \in Terminals
    OBVIOUS
  <1>2. QED
    BY <1>1 DEF ReceiptInv

LEMMA QuietKeeps ==
  ASSUME MatchedInv, Quiet
  PROVE  OwnerInv' /\ StepInv' /\ TrackerInv' /\ ReceiptInv'
  <1>1. Terminals' \subseteq Terminals /\ volume \subseteq volume' /\ worked \subseteq worked'
    BY QuietKnown DEF Quiet
  <1>2. QED
    BY <1>1, QuietKeepsOwner, QuietKeepsStep, QuietKeepsTracker, ReceiptStays DEF MatchedInv

LEMMA HostKeeps ==
  ASSUME MatchedInv, HostStep
  PROVE  MatchedInv'
  <1>1. Quiet
    BY DEF HostStep, Quiet, Known
  <1>2. volume' \subseteq Files
    BY TypedParts DEF HostStep, MatchedInv, Files
  <1>3. Typed'
    BY <1>2, TypedParts DEF HostStep, MatchedInv, Typed, CallRecords, CallStatuses
  <1>4. CallInv'
    BY DEF HostStep, MatchedInv, CallInv
  <1>5. QED
    BY <1>1, <1>3, <1>4, QuietKeeps DEF MatchedInv

LEMMA GoneIsQuiet ==
  ASSUME Gone, registry' = registry
  PROVE  Quiet
  BY DEF Gone, Quiet

LEMMA GoneTyped ==
  ASSUME Typed, CallInv, Gone, registry' \in Tasks \union {None}
  PROVE  Typed' /\ CallInv'
  <1>1. volume' \subseteq Files
    BY KnownTyped DEF Gone
  <1>2. Typed'
    BY <1>1, TypedParts DEF Gone, hostVars, Typed, CallRecords, CallStatuses
  <1>3. CallInv'
    BY DEF Gone, hostVars, CallInv
  <1>4. QED
    BY <1>2, <1>3

LEMMA GoneKeeps ==
  ASSUME MatchedInv, Gone, registry' = registry
  PROVE  MatchedInv'
  <1>1. Typed' /\ CallInv'
    BY GoneTyped, TypedParts DEF MatchedInv
  <1>2. QED
    BY <1>1, GoneIsQuiet, QuietKeeps DEF MatchedInv

LEMMA CancelQueuedKeeps ==
  ASSUME MatchedInv, CancelQueued
  PROVE  MatchedInv'
  <1>1. Quiet
    BY DEF CancelQueued, Quiet, Known
  <1>2. call' \in CallRecords /\ call'.status = "failed"
    BY CallUpdates, TypedParts DEF MatchedInv, CancelQueued, CallStatuses
  <1>3. Typed'
    BY <1>2, TypedParts DEF CancelQueued, hostVars, MatchedInv, Typed, CallRecords, CallStatuses
  <1>4. CallInv'
    BY <1>2 DEF CancelQueued, hostVars, MatchedInv, CallInv
  <1>5. QED
    BY <1>1, <1>3, <1>4, QuietKeeps DEF MatchedInv

LEMMA BackgroundKeeps ==
  ASSUME MatchedInv, BackgroundCommit
  PROVE  MatchedInv'
  <1>1. Quiet /\ volume' \subseteq Known
    BY DEF BackgroundCommit, Quiet, Known
  <1>2. volume' \subseteq Files
    BY <1>1, KnownTyped DEF MatchedInv
  <1>3. Typed'
    BY <1>2 DEF BackgroundCommit, hostVars, MatchedInv, Typed
  <1>4. CallInv'
    BY DEF BackgroundCommit, hostVars, MatchedInv, CallInv
  <1>5. QED
    BY <1>1, <1>3, <1>4, QuietKeeps DEF MatchedInv

\* A container before its claim has no file of its own.
LEMMA EarlyKeeps ==
  ASSUME MatchedInv, UNCHANGED <<registry, volume, worked>>, box' # None,
         box'.step \in Early, box'.disk \subseteq volume, ~box'.server, box'.done = 0,
         box'.tracker = "not_started", box'.cycle = 0,
         box'.step = "claim" => Acceptance \in volume
  PROVE  OwnerInv' /\ StepInv' /\ TrackerInv' /\ ReceiptInv'
  <1>1. Known' \subseteq Known
    BY DEF Known
  <1>2. Terminals' \subseteq Terminals
    BY <1>1 DEF Terminals, OfKind
  <1>3. ~Owns'
    BY DEF Owns
  <1>4. OwnerInv'
    <2>1. \A f \in Known' : f.kind # "acceptance" => f.task = registry'
      BY <1>1 DEF MatchedInv, OwnerInv
    <2>2. worked' \subseteq {registry'} /\ \A t \in worked' : {Claim(t), Acknowledgement(t)} \subseteq volume'
      BY DEF MatchedInv, OwnerInv
    <2>3. QED
      BY <2>1, <2>2 DEF OwnerInv, Early
  <1>5. QED
    BY <1>2, <1>3, <1>4, ReceiptStays DEF MatchedInv, StepInv, TrackerInv

LEMMA BeginsKeeps ==
  ASSUME MatchedInv, Begins
  PROVE  MatchedInv'
  <1>1. box' # None
    BY MarkerAssumption DEF Begins
  <1>2. OwnerInv' /\ StepInv' /\ TrackerInv' /\ ReceiptInv'
    BY <1>1, EarlyKeeps DEF Begins, Early
  <1>3. Typed'
    BY TypedParts DEF Begins, hostVars, MatchedInv, Typed, CallRecords, CallStatuses
  <1>4. CallInv'
    BY DEF Begins, hostVars, MatchedInv, CallInv
  <1>5. QED
    BY <1>2, <1>3, <1>4 DEF MatchedInv

-----------------------------------------------------------------------------
(* The container up to its claim. *)

\* The container is as typed, and the call goes on.
LEMMA WorkingTyped ==
  ASSUME Typed, CallInv, UNCHANGED <<hostVars, call>>, faults' \in 0 .. MaxFaults,
         registry' \in Tasks \union {None}, box # None, box' \in Boxes,
         volume' \subseteq Known, worked' \subseteq Tasks
  PROVE  Typed' /\ CallInv'
  <1>1. volume' \subseteq Files
    BY KnownTyped
  <1>2. Typed'
    BY <1>1 DEF hostVars, Typed
  <1>3. CallInv'
    BY DEF hostVars, CallInv
  <1>4. QED
    BY <1>2, <1>3

LEMMA LoadKeeps ==
  ASSUME MatchedInv, box.step = "load", LoadStep
  PROVE  MatchedInv'
  <1>1. /\ box # None /\ box' # None /\ box' \in Boxes /\ box'.step = "wait" /\ box'.done = box.done
        /\ box'.server = box.server /\ box'.tracker = box.tracker /\ box'.cycle = box.cycle
        /\ box'.disk = box.disk /\ UNCHANGED <<hostVars, call, registry, volume, worked>>
        /\ faults' \in 0 .. MaxFaults
    BY DEF LoadStep, Working, Moves, GoesOn
  <1>2. OwnerInv' /\ StepInv' /\ TrackerInv' /\ ReceiptInv'
    BY <1>1, EarlyKeeps DEF MatchedInv, OwnerInv, Early
  <1>3. Typed' /\ CallInv'
    BY <1>1, WorkingTyped, TypedParts DEF MatchedInv, Known
  <1>4. QED
    BY <1>2, <1>3 DEF MatchedInv

LEMMA WaitKeeps ==
  ASSUME MatchedInv, box.step = "wait", WaitStep
  PROVE  MatchedInv'
  <1>1. /\ box # None /\ box' # None /\ box' \in Boxes /\ box'.step = "claim" /\ box'.done = box.done
        /\ box'.server = box.server /\ box'.tracker = box.tracker /\ box'.cycle = box.cycle
        /\ box'.disk = volume /\ UNCHANGED <<hostVars, call, registry, volume, worked>>
        /\ Acceptance \in volume /\ faults' \in 0 .. MaxFaults
    BY DEF WaitStep, Working, Moves, GoesOn
  <1>2. OwnerInv' /\ StepInv' /\ TrackerInv' /\ ReceiptInv'
    BY <1>1, EarlyKeeps DEF MatchedInv, OwnerInv, Early
  <1>3. Typed' /\ CallInv'
    BY <1>1, WorkingTyped, TypedParts DEF MatchedInv, Known
  <1>4. QED
    BY <1>2, <1>3 DEF MatchedInv

\* Before the claim there is no file of a task, and no server has been started.
LEMMA NothingBeforeClaim ==
  ASSUME MatchedInv, registry = None
  PROVE  /\ \A f \in Known : f.kind = "acceptance"
         /\ Terminals = {} /\ States = {} /\ worked = {}
  <1>1. \A f \in Known : f.kind = "acceptance"
    BY KnownTyped, FilesHaveTasks, MatchedAssumption DEF MatchedInv, OwnerInv, Tasks
  <1>2. worked = {}
    BY TypedParts, MatchedAssumption DEF MatchedInv, OwnerInv, Tasks
  <1>3. QED
    BY <1>1, <1>2 DEF Terminals, States, OfKind

LEMMA ClaimKeeps ==
  ASSUME MatchedInv, box.step = "claim", ClaimStep
  PROVE  MatchedInv'
  <1>1. /\ box # None /\ box' # None /\ box' \in Boxes /\ box'.task = box.task /\ box'.step = "records"
        /\ box'.done = box.done /\ box'.server = box.server /\ box'.outcome = box.outcome
        /\ box'.tracker = box.tracker /\ box'.cycle = box.cycle /\ box'.disk = box.disk
        /\ registry = None /\ registry' = box.task /\ UNCHANGED <<hostVars, call, volume, worked>>
        /\ faults' \in 0 .. MaxFaults
    BY DEF ClaimStep, Moves, GoesOn
  <1>2. /\ box.done = 0 /\ ~box.server /\ box.tracker = "not_started" /\ box.cycle = 0
        /\ box.disk \subseteq volume /\ Acceptance \in volume
    BY <1>1 DEF MatchedInv, OwnerInv, Early
  <1>3. Known' = Known
    BY <1>1 DEF Known
  <1>4. Terminals' = {} /\ States' = {} /\ worked' = {}
    BY <1>1, <1>3, NothingBeforeClaim DEF Terminals, States
  <1>5. Typed' /\ CallInv'
    BY <1>1, BoxFields, BoxIsTyped, WorkingTyped, TypedParts DEF MatchedInv, Known
  <1>6. OwnerInv'
    BY <1>1, <1>2, <1>3, <1>4, NothingBeforeClaim DEF OwnerInv, Early
  <1>7. StepInv'
    BY <1>1, <1>2, <1>4 DEF StepInv, Plain
  <1>8. TrackerInv'
    BY <1>1, <1>2, <1>4 DEF TrackerInv, Plain
  <1>9. ReceiptInv'
    BY <1>4 DEF ReceiptInv
  <1>10. QED
    BY <1>5, <1>6, <1>7, <1>8, <1>9 DEF MatchedInv

\* The put took effect, and the container does not know.
LEMMA ClaimLostKeeps ==
  ASSUME MatchedInv, Gone, registry = None, registry' = box.task, box.step = "claim"
  PROVE  MatchedInv'
  <1>1. box # None /\ box' = None /\ worked' = worked /\ volume \subseteq volume' /\ volume' \subseteq Known
    BY DEF Gone
  <1>2. Known' \subseteq Known
    BY <1>1 DEF Known
  <1>3. Terminals' = {} /\ worked' = {}
    BY <1>1, <1>2, NothingBeforeClaim DEF Terminals, OfKind
  <1>4. Typed' /\ CallInv'
    BY <1>1, BoxFields, BoxIsTyped, GoneTyped DEF MatchedInv
  <1>5. OwnerInv'
    BY <1>1, <1>2, <1>3, NothingBeforeClaim DEF OwnerInv
  <1>6. StepInv' /\ TrackerInv'
    BY <1>1 DEF StepInv, TrackerInv, Owns
  <1>7. ReceiptInv'
    BY <1>3 DEF ReceiptInv
  <1>8. QED
    BY <1>4, <1>5, <1>6, <1>7 DEF MatchedInv

-----------------------------------------------------------------------------
(* The container from its claim on. *)

LEMMA KeepsKinds ==
  ASSUME NEW files, Keeps(files)
  PROVE  /\ Terminals' \subseteq Terminals \union OfKind(files, "terminal")
         /\ States' \subseteq States \union OfKind(files, "snapshot")
  BY DEF Keeps, Terminals, States, OfKind

\* Typing, the call and the claim, for a step that writes files of its task.
LEMMA WorkKeeps ==
  ASSUME MatchedInv, Owns, Working, NEW files, Keeps(files), \A f \in files : f.task = box.task,
         box' # None, box' \in Boxes, box'.task = box.task, box'.step \notin Early,
         worked' = worked \/ (worked' = worked \union {box.task} /\ Binding \subseteq volume)
  PROVE  Typed' /\ CallInv' /\ OwnerInv'
  <1>1. box # None /\ box \in Boxes /\ box.task \in Tasks /\ registry = box.task /\ Acceptance \in volume
    BY BoxIsTyped, BoxFields DEF MatchedInv, Owns, OwnerInv, Early
  <1>2. worked' \subseteq Tasks
    BY <1>1, TypedParts DEF MatchedInv
  <1>3. Typed' /\ CallInv'
    BY <1>1, <1>2, WorkingTyped, TypedParts DEF MatchedInv, Working, Keeps
  <1>4. \A f \in Known' : f.kind # "acceptance" => f.task = registry'
    BY <1>1 DEF MatchedInv, OwnerInv, Keeps, Working
  <1>5. worked' \subseteq {registry'}
    BY <1>1 DEF MatchedInv, OwnerInv, Working
  <1>6. \A t \in worked' : {Claim(t), Acknowledgement(t)} \subseteq volume'
    BY DEF MatchedInv, OwnerInv, Keeps, Binding
  <1>7. registry' = box'.task /\ Acceptance \in volume'
    BY <1>1 DEF Working, Keeps
  <1>8. OwnerInv'
    BY <1>4, <1>5, <1>6, <1>7 DEF OwnerInv
  <1>9. QED
    BY <1>3, <1>8

\* The publication has not begun.
LEMMA PlainKeepsTracker ==
  ASSUME TrackerInv, Owns, box.tracker = "not_started", NEW files, Keeps(files),
         OfKind(files, "terminal") = {}, OfKind(files, "snapshot") \subseteq {NotStarted},
         box'.task = box.task, box'.tracker = box.tracker, box'.cycle = box.cycle,
         box'.step \in Plain \union {"publish", "raise"}
  PROVE  TrackerInv'
  <1>1. Terminals = {} /\ States \subseteq {NotStarted} /\ box.cycle = 0
    BY DEF TrackerInv
  <1>2. NotStarted' = NotStarted
    BY DEF NotStarted
  <1>3. Terminals' = {} /\ States' \subseteq {NotStarted'}
    BY <1>1, <1>2, KeepsKinds
  <1>4. QED
    BY <1>1, <1>3 DEF TrackerInv, Plain

LEMMA PlainKeepsReceipt ==
  ASSUME ReceiptInv, NEW files, Keeps(files), OfKind(files, "terminal") = {}, worked \subseteq worked'
  PROVE  ReceiptInv'
  BY KeepsKinds, ReceiptStays DEF Keeps

LEMMA NoFiles ==
  OfKind({}, "terminal") = {} /\ OfKind({}, "snapshot") = {}
  BY DEF OfKind

\* What the invariants say of the container at a step before the publication.
LEMMA AtPlain ==
  ASSUME MatchedInv, box # None, box.step \in Plain
  PROVE  /\ Owns /\ box \in Boxes /\ box.task \in Tasks /\ registry = box.task
         /\ box.tracker = "not_started" /\ box.cycle = 0
         /\ \A s \in 1 .. box.done : SubjectReceipt(box.task, s) \in volume
  BY BoxIsTyped, BoxFields DEF MatchedInv, OwnerInv, StepInv, TrackerInv, Owns, Early, Plain

LEMMA RecordsKeeps ==
  ASSUME MatchedInv, box # None, box.step = "records", RecordsStep
  PROVE  MatchedInv'
  <1>1. /\ Owns /\ box \in Boxes /\ box.task \in Tasks /\ box.tracker = "not_started" /\ box.cycle = 0
        /\ box.done = 0 /\ worked = {} /\ ~box.server
    BY AtPlain DEF Plain, MatchedInv, StepInv
  <1>2. /\ box' # None /\ box' \in Boxes /\ box'.task = box.task /\ box'.done = box.done
        /\ box'.server = box.server /\ box'.outcome = box.outcome /\ box'.tracker = box.tracker
        /\ box'.cycle = box.cycle /\ box'.step \in {"records", "failing", "start"}
        /\ box'.step = "start" => Binding \subseteq volume'
    BY DEF RecordsStep, Moves, GoesOn
  <1>3. /\ \A f \in Binding : f.task = box.task
        /\ OfKind(Binding, "terminal") = {} /\ OfKind(Binding, "snapshot") = {}
    BY <1>1, MadeFiles DEF Binding, OfKind
  <1>4. Working /\ worked' = worked /\ Keeps(Binding)
    BY DEF RecordsStep
  <1>5. Typed' /\ CallInv' /\ OwnerInv'
    BY <1>1, <1>2, <1>3, <1>4, WorkKeeps DEF Early
  <1>6. StepInv'
    BY <1>1, <1>2, <1>4 DEF StepInv, Plain, Binding
  <1>7. TrackerInv'
    BY <1>1, <1>2, <1>3, <1>4, PlainKeepsTracker DEF MatchedInv, Plain
  <1>8. ReceiptInv'
    BY <1>3, <1>4, PlainKeepsReceipt DEF MatchedInv
  <1>9. QED
    BY <1>5, <1>6, <1>7, <1>8 DEF MatchedInv

LEMMA StartKeeps ==
  ASSUME MatchedInv, box # None, box.step = "start", StartStep
  PROVE  MatchedInv'
  <1>1. /\ Owns /\ box \in Boxes /\ box.task \in Tasks /\ box.tracker = "not_started" /\ box.cycle = 0
        /\ box.done \in {0, 1} /\ ~box.server /\ Binding \subseteq volume
        /\ \A s \in 1 .. box.done : SubjectReceipt(box.task, s) \in volume
        /\ box.done = 0 => worked = {}
        /\ box.done > 0 => worked = {box.task}
    BY AtPlain DEF Plain, MatchedInv, StepInv, Binding
  <1>2. /\ box' # None /\ box' \in Boxes /\ box'.task = box.task /\ box'.done = box.done
        /\ box'.outcome = box.outcome /\ box'.tracker = box.tracker /\ box'.cycle = box.cycle
        /\ \/ box'.step = "probe" /\ worked' = worked \union {box.task}
           \/ box'.step = "failing" /\ worked' = worked
    BY DEF StartStep, Moves, GoesOn
  <1>3. Working /\ Keeps({}) /\ volume \subseteq volume'
    BY DEF StartStep, Keeps
  <1>4. Typed' /\ CallInv' /\ OwnerInv'
    BY <1>1, <1>2, <1>3, WorkKeeps DEF Early
  <1>5. worked' = worked \/ worked' = {box.task}
    BY <1>1, <1>2
  <1>6. StepInv'
    BY <1>1, <1>2, <1>3, <1>5 DEF StepInv, Plain
  <1>7. TrackerInv'
    BY <1>1, <1>2, <1>3, NoFiles, PlainKeepsTracker DEF MatchedInv, Plain
  <1>8. ReceiptInv'
    BY <1>2, <1>3, NoFiles, PlainKeepsReceipt DEF MatchedInv
  <1>9. QED
    BY <1>4, <1>6, <1>7, <1>8 DEF MatchedInv

LEMMA RunKeeps ==
  ASSUME MatchedInv, box # None, box.step = "probe", RunStep
  PROVE  MatchedInv'
  <1>1. /\ Owns /\ box \in Boxes /\ box.task \in Tasks /\ box.tracker = "not_started" /\ box.cycle = 0
        /\ box.done \in {0, 1} /\ worked = {box.task}
        /\ \A s \in 1 .. box.done : SubjectReceipt(box.task, s) \in volume
    BY AtPlain DEF Plain, MatchedInv, StepInv
  <1>2. /\ box' # None /\ box' \in Boxes /\ box'.task = box.task /\ box'.done = box.done
        /\ box'.outcome = box.outcome /\ box'.tracker = box.tracker /\ box'.cycle = box.cycle
        /\ (box'.step = "persist" /\ ~box'.server) \/ box'.step = "failing"
    BY DEF RunStep, GoesOn
  <1>3. Working /\ worked' = worked /\ Keeps({}) /\ volume \subseteq volume'
    BY DEF RunStep, Keeps
  <1>4. Typed' /\ CallInv' /\ OwnerInv'
    BY <1>1, <1>2, <1>3, WorkKeeps DEF Early
  <1>5. StepInv'
    BY <1>1, <1>2, <1>3 DEF StepInv, Plain
  <1>6. TrackerInv'
    BY <1>1, <1>2, <1>3, NoFiles, PlainKeepsTracker DEF MatchedInv, Plain
  <1>7. ReceiptInv'
    BY <1>3, NoFiles, PlainKeepsReceipt DEF MatchedInv
  <1>8. QED
    BY <1>4, <1>5, <1>6, <1>7 DEF MatchedInv

LEMMA PersistKeeps ==
  ASSUME MatchedInv, box # None, box.step = "persist", PersistStep
  PROVE  MatchedInv'
  <1> DEFINE receipt == SubjectReceipt(box.task, box.done + 1)
  <1>1. /\ Owns /\ box \in Boxes /\ box.task \in Tasks /\ box.tracker = "not_started" /\ box.cycle = 0
        /\ box.done \in {0, 1} /\ worked = {box.task} /\ ~box.server
        /\ \A s \in 1 .. box.done : SubjectReceipt(box.task, s) \in volume
        /\ registry = box.task
    BY AtPlain DEF Plain, MatchedInv, StepInv
  <1>2. /\ box' # None /\ box' \in Boxes /\ box'.task = box.task
        /\ box'.server = box.server /\ box'.tracker = box.tracker /\ box'.cycle = box.cycle
        /\ \/ box'.done = box.done /\ box'.step \in {"persist", "failing"}
           \/ /\ box'.done = box.done + 1 /\ receipt \in volume'
              /\ box'.step = IF box.done = 0 THEN "start" ELSE "verify"
    BY DEF PersistStep, Moves, GoesOn
  <1>3. /\ \A f \in {receipt} : f.task = box.task
        /\ OfKind({receipt}, "terminal") = {} /\ OfKind({receipt}, "snapshot") = {}
    BY <1>1, MadeFiles DEF OfKind, Subjects
  <1>4. Working /\ worked' = worked /\ Keeps({receipt}) /\ volume \subseteq volume'
    BY DEF PersistStep, Keeps
  <1>5. \A s \in 1 .. box'.done : SubjectReceipt(box'.task, s) \in volume'
    <2>1. \A s \in 1 .. box.done + 1 : s \in 1 .. box.done \/ s = box.done + 1
      BY <1>1
    <2>2. QED
      BY <1>1, <1>2, <1>4, <2>1
  <1> HIDE DEF receipt
  <1>6. Typed' /\ CallInv' /\ OwnerInv'
    BY <1>1, <1>2, <1>3, <1>4, WorkKeeps DEF Early
  <1>7. box'.step = "start" => {Claim(box'.task), Acknowledgement(box'.task)} \subseteq volume'
    BY <1>1, <1>2, <1>4 DEF MatchedInv, OwnerInv
  <1>8. StepInv'
    BY <1>1, <1>2, <1>4, <1>5, <1>7 DEF StepInv, Plain
  <1>9. TrackerInv'
    BY <1>1, <1>2, <1>3, <1>4, PlainKeepsTracker DEF MatchedInv, Plain
  <1>10. ReceiptInv'
    BY <1>3, <1>4, PlainKeepsReceipt DEF MatchedInv
  <1>11. QED
    BY <1>6, <1>8, <1>9, <1>10 DEF MatchedInv

LEMMA VerifyKeeps ==
  ASSUME MatchedInv, box # None, box.step = "verify", VerifyStep
  PROVE  MatchedInv'
  <1>1. /\ Owns /\ box \in Boxes /\ box.task \in Tasks /\ box.tracker = "not_started" /\ box.cycle = 0
        /\ box.done = 2 /\ worked = {box.task} /\ ~box.server
        /\ \A s \in 1 .. box.done : SubjectReceipt(box.task, s) \in volume
    BY AtPlain DEF Plain, MatchedInv, StepInv
  <1>2. /\ box' # None /\ box' \in Boxes /\ box'.task = box.task /\ box'.done = box.done
        /\ box'.server = box.server /\ box'.tracker = box.tracker /\ box'.cycle = box.cycle
        /\ box'.step \in {"publish", "failing"}
    BY DEF VerifyStep, Moves, GoesOn
  <1>3. Working /\ worked' = worked /\ Keeps({}) /\ volume \subseteq volume'
    BY DEF VerifyStep, Keeps
  <1>4. Typed' /\ CallInv' /\ OwnerInv'
    BY <1>1, <1>2, <1>3, WorkKeeps DEF Early
  <1>5. StepInv'
    BY <1>1, <1>2, <1>3 DEF StepInv, Plain
  <1>6. TrackerInv'
    BY <1>1, <1>2, <1>3, NoFiles, PlainKeepsTracker DEF MatchedInv, Plain
  <1>7. ReceiptInv'
    BY <1>3, NoFiles, PlainKeepsReceipt DEF MatchedInv
  <1>8. QED
    BY <1>4, <1>5, <1>6, <1>7 DEF MatchedInv

LEMMA FailureKeeps ==
  ASSUME MatchedInv, box # None, box.step = "failing", FailureStep
  PROVE  MatchedInv'
  <1>1. /\ Owns /\ box \in Boxes /\ box.task \in Tasks /\ box.tracker = "not_started" /\ box.cycle = 0
        /\ \A s \in 1 .. box.done : SubjectReceipt(box.task, s) \in volume
        /\ box.done > 0 => worked = {box.task}
    BY AtPlain DEF Plain, MatchedInv, StepInv
  <1>2. /\ box' # None /\ box' \in Boxes /\ box'.task = box.task /\ box'.done = box.done
        /\ box'.outcome = "failure" /\ box'.tracker = box.tracker /\ box'.cycle = box.cycle
        /\ box'.step = "publish"
    BY DEF FailureStep, GoesOn
  <1>3. Working /\ worked' = worked /\ Keeps({}) /\ volume \subseteq volume'
    BY DEF FailureStep, Keeps
  <1>4. Typed' /\ CallInv' /\ OwnerInv'
    BY <1>1, <1>2, <1>3, WorkKeeps DEF Early
  <1>5. StepInv'
    BY <1>1, <1>2, <1>3 DEF StepInv, Plain
  <1>6. TrackerInv'
    BY <1>1, <1>2, <1>3, NoFiles, PlainKeepsTracker DEF MatchedInv, Plain
  <1>7. ReceiptInv'
    BY <1>3, NoFiles, PlainKeepsReceipt DEF MatchedInv
  <1>8. QED
    BY <1>4, <1>5, <1>6, <1>7 DEF MatchedInv

-----------------------------------------------------------------------------
(* The publication. *)

\* What the invariants say of the container when it publishes.
LEMMA AtPublication ==
  ASSUME MatchedInv, box # None, box.step \in {"publish", "confirm", "unknown"}
  PROVE  /\ Owns /\ box \in Boxes /\ box.task \in Tasks /\ registry = box.task
         /\ \A s \in 1 .. box.done : SubjectReceipt(box.task, s) \in volume
         /\ box.done > 0 => worked = {box.task}
         /\ box.outcome = "success" => box.done = 2
  BY BoxIsTyped, BoxFields DEF MatchedInv, OwnerInv, StepInv, Owns, Early, Plain

\* The steps of the publication change nothing that StepInv is about.
LEMMA PublicationKeepsStep ==
  ASSUME MatchedInv, box # None, box.step \in {"publish", "confirm", "unknown"},
         volume \subseteq volume', worked' = worked,
         box'.task = box.task, box'.done = box.done, box'.outcome = box.outcome,
         box'.step \in {"publish", "confirm", "unknown", "failing", "return", "raise"}
  PROVE  StepInv'
  <1>1. /\ \A s \in 1 .. box.done : SubjectReceipt(box.task, s) \in volume
        /\ box.done > 0 => worked = {box.task}
        /\ box.outcome = "success" => box.done = 2
    BY AtPublication
  <1>2. QED
    BY <1>1 DEF StepInv, Plain

\* No name of a published file changes while its receipt does not.
LEMMA NamesStay ==
  ASSUME box'.task = box.task, box'.done = box.done, box'.outcome = box.outcome
  PROVE  /\ Receipt' = Receipt /\ NotStarted' = NotStarted
         /\ \A c : Installing(c)' = Installing(c)
         /\ box'.cycle = box.cycle => /\ Begin' = Begin /\ Basis' = Basis /\ Confirmation' = Confirmation
                                      /\ Now("unknown")' = Now("unknown")
  BY DEF Receipt, NotStarted, Installing, Begin, Basis, Confirmation, Now

LEMMA BeginKeeps ==
  ASSUME MatchedInv, box # None, box.step = "publish", box.tracker = "not_started", BeginStep
  PROVE  MatchedInv'
  <1>1. Owns /\ box \in Boxes /\ box.task \in Tasks
    BY AtPublication
  <1>2. /\ box' # None /\ box' \in Boxes /\ box'.task = box.task /\ box'.done = box.done
        /\ box'.server = box.server /\ box'.outcome = box.outcome
        /\ \/ box'.step = "publish" /\ box'.tracker = "installing" /\ box'.cycle = 1
           \/ /\ box'.step \in {"failing", "raise"}
              /\ box'.tracker = box.tracker /\ box'.cycle = box.cycle
    BY DEF BeginStep, Moves, GoesOn
  <1>3. /\ \A f \in {NotStarted} : f.task = box.task
        /\ OfKind({NotStarted}, "terminal") = {} /\ OfKind({NotStarted}, "snapshot") \subseteq {NotStarted}
    BY <1>1, PublishedFiles DEF OfKind
  <1>4. Working /\ worked' = worked /\ Keeps({NotStarted}) /\ volume \subseteq volume'
    BY DEF BeginStep, Keeps
  <1>5. Typed' /\ CallInv' /\ OwnerInv'
    BY <1>1, <1>2, <1>3, <1>4, WorkKeeps DEF Early
  <1>6. StepInv'
    BY <1>2, <1>4, PublicationKeepsStep
  <1>7. ReceiptInv'
    BY <1>3, <1>4, PlainKeepsReceipt DEF MatchedInv
  <1>8. TrackerInv'
    <2>1. CASE box'.tracker = box.tracker /\ box'.cycle = box.cycle /\ box'.step \in {"failing", "raise"}
      BY <1>1, <1>2, <1>3, <1>4, <2>1, PlainKeepsTracker DEF MatchedInv, Plain
    <2>2. CASE box'.step = "publish" /\ box'.tracker = "installing" /\ box'.cycle = 1
      <3>1. Terminals = {} /\ States \subseteq {NotStarted}
        BY <1>1 DEF MatchedInv, TrackerInv
      <3>2. Terminals' = {} /\ States' \subseteq {NotStarted}
        BY <1>3, <1>4, <3>1, KeepsKinds
      <3>3. NotStarted' = NotStarted
        BY <1>2, NamesStay
      <3>4. States' \subseteq Begin'
        BY <3>2, <3>3 DEF Begin
      <3>5. Confirmation'.kind = "snapshot" /\ Confirmation'.status = "confirmed"
        BY DEF Confirmation, Now, Snapshot
      <3>6. NotStarted.status = "not_started"
        BY <1>1, PublishedFiles
      <3>7. Confirmation' \in Known' => Confirmation' \in States'
        BY <3>5 DEF States, OfKind
      <3>8. Confirmation' \notin Known'
        BY <3>2, <3>5, <3>6, <3>7
      <3>9. QED
        BY <2>2, <3>2, <3>4, <3>8 DEF TrackerInv, Plain
    <2>3. QED
      BY <1>2, <2>1, <2>2
  <1>9. QED
    BY <1>5, <1>6, <1>7, <1>8 DEF MatchedInv

\* The files of the publication by their kinds.
LEMMA BasisKinds ==
  ASSUME box \in Boxes
  PROVE  /\ \A f \in Basis : f.task = box.task
         /\ OfKind(Basis, "terminal") = {Receipt} /\ OfKind(Basis, "snapshot") = Begin
         /\ \A f \in Begin : f.status \in {"not_started", "installing"}
  <1>1. box.task \in Tasks /\ 1 .. box.cycle \subseteq 0 .. 2
    BY BoxFields
  <1>2. QED
    BY <1>1, MadeFiles, PublishedFiles DEF Basis, Begin, OfKind

\* Confirmed and unknown are states of their own.
LEMMA EndingsDiffer ==
  ASSUME box \in Boxes
  PROVE  /\ Confirmation.kind = "snapshot" /\ Now("unknown").kind = "snapshot"
         /\ Confirmation # Now("unknown") /\ Confirmation \notin Begin /\ Now("unknown") \notin Begin
         /\ Confirmation.task = box.task /\ Now("unknown").task = box.task
         /\ Confirmation \in Files /\ Now("unknown") \in Files
  <1>1. /\ Confirmation.status = "confirmed" /\ Now("unknown").status = "unknown"
        /\ Confirmation.kind = "snapshot" /\ Now("unknown").kind = "snapshot"
        /\ Confirmation.task = box.task /\ Now("unknown").task = box.task
        /\ Confirmation \in Files /\ Now("unknown") \in Files
    BY PublishedFiles DEF Confirmation, Statuses
  <1>2. QED
    BY <1>1, BasisKinds

LEMMA InstallKeeps ==
  ASSUME MatchedInv, box # None, box.step = "publish", box.tracker = "installing", InstallStep
  PROVE  MatchedInv'
  <1>1. Owns /\ box \in Boxes /\ box.task \in Tasks
    BY AtPublication
  <1>2. Terminals \subseteq {Receipt} /\ States \subseteq Begin /\ box.cycle \in {1, 2}
    BY <1>1 DEF MatchedInv, TrackerInv
  <1>3. /\ box' # None /\ box' \in Boxes /\ box'.task = box.task /\ box'.done = box.done
        /\ box'.server = box.server /\ box'.outcome = box.outcome /\ box'.cycle = box.cycle
        /\ \/ box'.step = "publish" /\ box'.tracker = "installing"
           \/ box'.step = "unknown" /\ box'.tracker = "unknown"
    BY DEF InstallStep, Moves, GivesUp, GoesOn
  <1>4. PICK f \in Basis : Keeps({f})
    BY DEF InstallStep
  <1>5. Working /\ worked' = worked /\ volume \subseteq volume'
    BY <1>4 DEF InstallStep, Keeps
  <1>6. OfKind({f}, "terminal") \subseteq {Receipt} /\ OfKind({f}, "snapshot") \subseteq Begin
    BY <1>1, BasisKinds DEF OfKind
  <1>7. Terminals' \subseteq {Receipt} /\ States' \subseteq Begin
    BY <1>2, <1>4, <1>6, KeepsKinds
  <1>8. /\ Receipt' = Receipt /\ Begin' = Begin /\ Basis' = Basis /\ Confirmation' = Confirmation
        /\ Now("unknown")' = Now("unknown")
    BY <1>3, NamesStay
  <1>9. Confirmation \notin Known'
    BY <1>1, <1>7, EndingsDiffer DEF States, OfKind
  <1>10. Typed' /\ CallInv' /\ OwnerInv'
    BY <1>1, <1>3, <1>4, <1>5, BasisKinds, WorkKeeps DEF Early
  <1>11. StepInv'
    BY <1>3, <1>5, PublicationKeepsStep
  <1>12. TrackerInv'
    BY <1>2, <1>3, <1>7, <1>8, <1>9 DEF TrackerInv, Plain
  <1>13. ReceiptInv'
    <2>1. Receipt.task = box.task /\ Receipt.outcome = box.outcome /\ Receipt.done = box.done
      BY <1>1, PublishedFiles
    <2>2. ASSUME NEW s \in 1 .. Receipt.done
          PROVE  SubjectReceipt(Receipt.task, s) \in volume'
      <3>1. s \in 1 .. box.done
        BY <2>1
      <3>2. SubjectReceipt(box.task, s) \in volume
        BY <3>1, AtPublication
      <3>3. QED
        BY <1>5, <2>1, <3>2
    <2>3. ASSUME Receipt.outcome = "success"
          PROVE  Receipt.done = 2 /\ worked' # {}
      <3>1. box.done = 2
        BY <2>1, <2>3, AtPublication
      <3>2. worked = {box.task}
        BY <3>1, AtPublication
      <3>3. QED
        BY <1>5, <2>1, <3>1, <3>2
    <2>4. QED
      BY <1>7, <2>2, <2>3 DEF ReceiptInv
  <1>14. QED
    BY <1>10, <1>11, <1>12, <1>13 DEF MatchedInv

LEMMA SettleKeeps ==
  ASSUME MatchedInv, box # None, box.step = "publish", box.tracker = "installing", SettleStep
  PROVE  MatchedInv'
  <1>1. Owns /\ box \in Boxes /\ box.task \in Tasks
    BY AtPublication
  <1>2. Terminals \subseteq {Receipt} /\ States \subseteq Begin /\ box.cycle \in {1, 2}
    BY <1>1 DEF MatchedInv, TrackerInv
  <1>3. /\ box' # None /\ box' \in Boxes /\ box'.task = box.task /\ box'.done = box.done
        /\ box'.server = box.server /\ box'.outcome = box.outcome
        /\ \/ /\ box'.step = "confirm" /\ box'.tracker = "installing" /\ box'.cycle = box.cycle
              /\ Basis \subseteq volume'
           \/ /\ box'.step = "publish" /\ box'.tracker = "installing"
              /\ box.cycle = 1 /\ box'.cycle = 2
           \/ box'.step = "unknown" /\ box'.tracker = "unknown" /\ box'.cycle = box.cycle
    BY DEF SettleStep, Moves, GivesUp, GoesOn
  <1>4. Working /\ worked' = worked /\ Keeps({}) /\ volume \subseteq volume'
    BY DEF SettleStep, Keeps
  <1>5. Terminals' \subseteq {Receipt} /\ States' \subseteq Begin
    BY <1>2, <1>4, NoFiles, KeepsKinds
  <1>6. Receipt' = Receipt /\ NotStarted' = NotStarted /\ \A c : Installing(c)' = Installing(c)
    BY <1>3, NamesStay
  <1>7. States' \subseteq Begin'
    BY <1>2, <1>3, <1>5, <1>6 DEF Begin
  <1>8. \A f \in Begin' : f.status # "confirmed" /\ f.status # "unknown"
    BY DEF Begin, NotStarted, Installing, Snapshot
  <1>9. /\ Confirmation'.kind = "snapshot" /\ Confirmation'.status = "confirmed"
        /\ Now("unknown")'.kind = "snapshot" /\ Now("unknown")'.status = "unknown"
    BY DEF Confirmation, Now, Snapshot
  <1>10. Confirmation' \notin Known' /\ Now("unknown")' \notin Known'
    <2>1. /\ Confirmation' \in Known' => Confirmation' \in States'
          /\ Now("unknown")' \in Known' => Now("unknown")' \in States'
      BY <1>9 DEF States, OfKind
    <2>2. QED
      BY <1>7, <1>8, <1>9, <2>1
  <1>11. Typed' /\ CallInv' /\ OwnerInv'
    BY <1>1, <1>3, <1>4, WorkKeeps DEF Early
  <1>12. StepInv'
    BY <1>3, <1>4, PublicationKeepsStep
  <1>13. box'.cycle = box.cycle => Basis' = Basis
    BY <1>3, NamesStay
  <1>14. TrackerInv'
    BY <1>2, <1>3, <1>5, <1>6, <1>7, <1>10, <1>13 DEF TrackerInv, Plain
  <1>15. ReceiptInv'
    BY <1>4, NoFiles, PlainKeepsReceipt DEF MatchedInv
  <1>16. QED
    BY <1>11, <1>12, <1>14, <1>15 DEF MatchedInv

LEMMA ConfirmKeeps ==
  ASSUME MatchedInv, box # None, box.step = "confirm", ConfirmStep
  PROVE  MatchedInv'
  <1>1. Owns /\ box \in Boxes /\ box.task \in Tasks
    BY AtPublication
  <1>2. /\ box.tracker = "installing" /\ box.cycle \in {1, 2} /\ Terminals \subseteq {Receipt}
        /\ States \subseteq Begin \union {Confirmation, Now("unknown")}
        /\ Basis \subseteq volume /\ Now("unknown") \notin Known
    BY <1>1 DEF MatchedInv, TrackerInv
  <1>3. /\ box' # None /\ box' \in Boxes /\ box'.task = box.task /\ box'.done = box.done
        /\ box'.server = box.server /\ box'.outcome = box.outcome /\ box'.cycle = box.cycle
        /\ \/ box'.step = "confirm" /\ box'.tracker = "installing"
           \/ box'.step = "unknown" /\ box'.tracker = "unknown"
           \/ /\ box'.step \in {"return", "raise"} /\ box'.tracker = "confirmed"
              /\ Confirmation \in volume'
    <2>1. Moves("confirm") \/ GivesUp
          \/ /\ GoesOn(IF box.outcome = "success" THEN "return" ELSE "raise",
                       box.done, box.server, box.outcome, "confirmed", box.cycle)
             /\ Confirmation \in volume'
      BY DEF ConfirmStep
    <2>2. CASE Moves("confirm")
      BY <1>2, <2>2 DEF Moves, GoesOn
    <2>3. CASE GivesUp
      BY <2>3 DEF GivesUp, GoesOn
    <2>4. CASE /\ GoesOn(IF box.outcome = "success" THEN "return" ELSE "raise",
                       box.done, box.server, box.outcome, "confirmed", box.cycle)
               /\ Confirmation \in volume'
      BY <2>4 DEF GoesOn
    <2>5. QED
      BY <2>1, <2>2, <2>3, <2>4
  <1>4. Working /\ worked' = worked /\ Keeps({Confirmation}) /\ volume \subseteq volume'
    BY DEF ConfirmStep, Keeps
  <1>5. /\ OfKind({Confirmation}, "terminal") = {}
        /\ OfKind({Confirmation}, "snapshot") \subseteq {Confirmation}
        /\ \A f \in {Confirmation} : f.task = box.task
    BY <1>1, EndingsDiffer DEF OfKind
  <1>6. Terminals' \subseteq {Receipt} /\ States' \subseteq Begin \union {Confirmation, Now("unknown")}
    BY <1>2, <1>4, <1>5, KeepsKinds
  <1>7. Now("unknown") \notin Known'
    BY <1>1, <1>2, <1>4, EndingsDiffer DEF Keeps
  <1>8. /\ Receipt' = Receipt /\ Begin' = Begin /\ Basis' = Basis /\ Confirmation' = Confirmation
        /\ Now("unknown")' = Now("unknown")
    BY <1>3, NamesStay
  <1>9. Typed' /\ CallInv' /\ OwnerInv'
    BY <1>1, <1>3, <1>4, <1>5, WorkKeeps DEF Early
  <1>10. StepInv'
    BY <1>3, <1>4, PublicationKeepsStep
  <1>11. TrackerInv'
    BY <1>2, <1>3, <1>4, <1>6, <1>7, <1>8 DEF TrackerInv, Plain
  <1>12. ReceiptInv'
    BY <1>4, <1>5, PlainKeepsReceipt DEF MatchedInv
  <1>13. QED
    BY <1>9, <1>10, <1>11, <1>12 DEF MatchedInv

LEMMA UnknownKeeps ==
  ASSUME MatchedInv, box # None, box.step = "unknown", UnknownStep
  PROVE  MatchedInv'
  <1>1. Owns /\ box \in Boxes /\ box.task \in Tasks
    BY AtPublication
  <1>2. /\ box.tracker = "unknown" /\ box.cycle \in {1, 2} /\ Terminals \subseteq {Receipt}
        /\ States \subseteq Begin \union {Confirmation, Now("unknown")}
        /\ Confirmation \in Known => Basis \subseteq volume
    BY <1>1 DEF MatchedInv, TrackerInv
  <1>3. /\ box' # None /\ box' \in Boxes /\ box'.task = box.task /\ box'.done = box.done
        /\ box'.server = box.server /\ box'.outcome = box.outcome /\ box'.cycle = box.cycle
        /\ box'.step \in {"unknown", "raise"} /\ box'.tracker = "unknown"
    BY <1>2 DEF UnknownStep, Moves, GoesOn
  <1>4. Working /\ worked' = worked /\ Keeps({Now("unknown")}) /\ volume \subseteq volume'
    BY DEF UnknownStep, Keeps
  <1>5. /\ OfKind({Now("unknown")}, "terminal") = {}
        /\ OfKind({Now("unknown")}, "snapshot") \subseteq {Now("unknown")}
        /\ \A f \in {Now("unknown")} : f.task = box.task
    BY <1>1, EndingsDiffer DEF OfKind
  <1>6. Terminals' \subseteq {Receipt} /\ States' \subseteq Begin \union {Confirmation, Now("unknown")}
    BY <1>2, <1>4, <1>5, KeepsKinds
  <1>7. Confirmation \in Known' => Confirmation \in Known
    BY <1>1, <1>4, EndingsDiffer DEF Keeps
  <1>8. /\ Receipt' = Receipt /\ Begin' = Begin /\ Basis' = Basis /\ Confirmation' = Confirmation
        /\ Now("unknown")' = Now("unknown")
    BY <1>3, NamesStay
  <1>9. Typed' /\ CallInv' /\ OwnerInv'
    BY <1>1, <1>3, <1>4, <1>5, WorkKeeps DEF Early
  <1>10. StepInv'
    BY <1>3, <1>4, PublicationKeepsStep
  <1>11. TrackerInv'
    BY <1>2, <1>3, <1>4, <1>6, <1>7, <1>8 DEF TrackerInv, Plain
  <1>12. ReceiptInv'
    BY <1>4, <1>5, PlainKeepsReceipt DEF MatchedInv
  <1>13. QED
    BY <1>9, <1>10, <1>11, <1>12 DEF MatchedInv

-----------------------------------------------------------------------------
(* The invariant. *)

LEMMA InitHolds == Init => MatchedInv
  <1> SUFFICES ASSUME Init PROVE MatchedInv
    OBVIOUS
  <1>1. Known = {}
    BY DEF Init, Known
  <1>2. Typed
    <2>1. call \in CallRecords
      BY MatchedAssumption DEF Init, CallRecords, CallStatuses
    <2>2. 0 \in 0 .. MaxFaults
      BY MatchedAssumption
    <2>3. QED
      BY <2>1, <2>2, TypedParts DEF Init
  <1>3. CallInv /\ OwnerInv /\ StepInv /\ TrackerInv /\ ReceiptInv
    BY <1>1 DEF Init, CallInv, OwnerInv, StepInv, TrackerInv, ReceiptInv, Owns, Terminals, OfKind
  <1>4. QED
    BY <1>2, <1>3 DEF MatchedInv

LEMMA WaitsKeeps ==
  ASSUME MatchedInv, Waits
  PROVE  MatchedInv'
  <1>1. Quiet
    BY DEF Waits, Quiet, Known
  <1>2. Typed' /\ CallInv'
    BY DEF MatchedInv, Waits, hostVars, Typed, CallInv
  <1>3. QED
    BY <1>1, <1>2, QuietKeeps DEF MatchedInv

LEMMA ContainerKeeps ==
  ASSUME MatchedInv, Container
  PROVE  MatchedInv'
  <1> USE DEF MatchedInv
  <1>1. CASE LoadIntent
    BY <1>1, LoadIs, LoadKeeps, GoneKeeps DEF LoadIntent, Doing
  <1>2. CASE WaitForAcceptance
    BY <1>2, WaitIs, WaitKeeps, GoneKeeps DEF WaitForAcceptance, Doing
  <1>3. CASE ClaimAttempt
    BY <1>3, ClaimIs, ClaimKeeps, ClaimLostKeeps, GoneKeeps DEF ClaimAttempt, Doing
  <1>4. CASE PublishRecords
    BY <1>4, RecordsAre, RecordsKeeps DEF PublishRecords, Doing
  <1>5. CASE StartServer
    BY <1>5, StartIs, StartKeeps DEF StartServer, Doing
  <1>6. CASE RunSubject
    BY <1>6, RunIs, RunKeeps DEF RunSubject, Doing
  <1>7. CASE PersistSubject
    <2>1. box # None /\ box.step = "persist"
      BY <1>7 DEF PersistSubject, Doing
    <2>2. box.done \in {0, 1}
      BY <2>1 DEF StepInv, Owns, Early
    <2>3. QED
      BY <1>7, <2>1, <2>2, PersistIs, PersistKeeps
  <1>8. CASE VerifySubjects
    <2>1. box # None /\ box.step = "verify"
      BY <1>8 DEF VerifySubjects, Doing
    <2>2. \A s \in Subjects : SubjectReceipt(box.task, s) \in volume
      BY <2>1 DEF StepInv, Owns, Early, Subjects
    <2>3. QED
      BY <1>8, <2>1, <2>2, VerifyIs, VerifyKeeps
  <1>9. CASE BuildFailure
    BY <1>9, FailureStepIs, FailureKeeps DEF BuildFailure, Doing
  <1>10. CASE BeginPublication
    BY <1>10, BeginIs, BeginKeeps, WaitsKeeps DEF BeginPublication, Doing
  <1>11. CASE Install
    <2>1. box # None /\ box.step = "publish" /\ box.tracker = "installing"
      BY <1>11 DEF Install, Doing
    <2>2. box.cycle \in {1, 2}
      BY <2>1 DEF TrackerInv, Owns, Early
    <2>3. QED
      BY <1>11, <2>1, <2>2, InstallIs, InstallKeeps, WaitsKeeps
  <1>12. CASE Settle
    <2>1. box # None /\ box.step = "publish" /\ box.tracker = "installing"
      BY <1>12 DEF Settle, Doing
    <2>2. box.cycle \in {1, 2}
      BY <2>1 DEF TrackerInv, Owns, Early
    <2>3. QED
      BY <1>12, <2>1, <2>2, SettleIs, SettleKeeps
  <1>13. CASE Confirm
    BY <1>13, ConfirmIs, ConfirmKeeps DEF Confirm, Doing
  <1>14. CASE RecordUnknown
    BY <1>14, RecordUnknownIs, UnknownKeeps DEF RecordUnknown, Doing
  <1>15. CASE Leave
    BY <1>15, LeavesGone, GoneKeeps
  <1>16. QED
    BY <1>1, <1>2, <1>3, <1>4, <1>5, <1>6, <1>7, <1>8, <1>9, <1>10, <1>11, <1>12, <1>13, <1>14, <1>15
       DEF Container

LEMMA InvKeeps == MatchedInv /\ [Next]_vars => MatchedInv'
  <1> SUFFICES ASSUME MatchedInv, [Next]_vars PROVE MatchedInv'
    OBVIOUS
  <1>1. Typed /\ CallInv
    BY DEF MatchedInv
  <1>2. CASE Manager \/ ManagerDies
    BY <1>1, <1>2, ManagersStep, HostKeeps
  <1>3. CASE StartContainer
    BY <1>1, <1>3, StartsBegin, BeginsKeeps
  <1>4. CASE CancelQueued
    BY <1>4, CancelQueuedKeeps
  <1>5. CASE ContainerDies
    BY <1>1, <1>5, DiesGone, GoneKeeps
  <1>6. CASE BackgroundCommit
    BY <1>6, BackgroundKeeps
  <1>7. CASE Container
    BY <1>7, ContainerKeeps
  <1>8. CASE UNCHANGED vars
    BY <1>1, <1>8, WaitsKeeps, TypedParts DEF vars, Waits
  <1>9. QED
    BY <1>2, <1>3, <1>4, <1>5, <1>6, <1>7, <1>8 DEF Next

LEMMA MatchedInvariant == Spec => []MatchedInv
  BY InitHolds, InvKeeps, PTL DEF Spec

\* The temporaries are somewhere.
LEMMA SweptPlaces ==
  ASSUME NEW found \in SUBSET Places
  PROVE  Swept(found) \in SUBSET Places /\ Reread(found) \in SUBSET Places
  BY DEF Swept, Reread, Places

LEMMA CommitPlaces ==
  ASSUME temporaries \in SUBSET Places, NEW files, NEW next, NEW after,
         CommitAndVerify(files, next, after)
  PROVE  temporaries' \in SUBSET Places
  <1>1. /\ Swept(temporaries) \in SUBSET Places
        /\ Reread(temporaries) \in SUBSET Places
        /\ Reread(Swept(temporaries)) \in SUBSET Places
    BY SweptPlaces
  <1>2. \A view \in Proved(files) : view[3] \in SUBSET Places
    BY <1>1 DEF Proved
  <1>3. \A left \in Again(files) : left \in SUBSET Places
    BY DEF Again, Places
  <1>4. \A view \in Unproved(files) : view[3] \in SUBSET Places
    BY <1>1, <1>2, <1>3 DEF Unproved
  <1>5. QED
    BY <1>1, <1>2, <1>4 DEF CommitAndVerify

LEMMA PlacesStay == Placed /\ [Next]_vars => Placed'
  <1> SUFFICES ASSUME temporaries \in SUBSET Places, [Next]_vars
               PROVE  temporaries' \in SUBSET Places
    BY DEF Placed
  <1>1. /\ Swept(temporaries) \in SUBSET Places /\ Reread(temporaries) \in SUBSET Places
        /\ Reread(Swept(temporaries)) \in SUBSET Places
    BY SweptPlaces
  <1>2. \A file, next, after : Writes(file, next, after) => temporaries' \in SUBSET Places
    BY DEF Writes, Places
  <1>3. \A status : EndBox(status) => temporaries' \in SUBSET Places
    BY <1>1 DEF EndBox
  <1>4. CASE Manager \/ ManagerDies
    BY <1>4 DEF Manager, ManagerDies, Authorize, Spawn, Accept, WriteAcceptance, WriteCallReceipt, Cancel
  <1>5. CASE StartContainer \/ CancelQueued \/ ContainerDies \/ BackgroundCommit
    BY <1>1, <1>3, <1>5 DEF StartContainer, CancelQueued, ContainerDies, BackgroundCommit
  <1>6. CASE LoadIntent \/ WaitForAcceptance \/ ClaimAttempt
    BY <1>1, <1>3, <1>6 DEF LoadIntent, WaitForAcceptance, ClaimAttempt, CallFails
  <1>7. CASE StartServer \/ RunSubject \/ BuildFailure \/ Leave
    BY <1>3, <1>7 DEF StartServer, RunSubject, BuildFailure, Leave, CallFails
  <1>8. CASE PublishRecords \/ PersistSubject \/ VerifySubjects
    BY <1>2, <1>8, CommitPlaces DEF PublishRecords, PersistSubject, VerifySubjects
  <1>9. CASE BeginPublication \/ Install
    BY <1>2, <1>9 DEF BeginPublication, Install, Places
  <1>10. CASE Settle
    <2>1. \A x \in {<<volume, temporaries>>, <<volume \union box.disk, Swept(temporaries)>>} :
             x[2] \in SUBSET Places /\ Reread(x[2]) \in SUBSET Places
      BY <1>1
    <2>2. QED
      BY <1>1, <1>10, <2>1 DEF Settle
  <1>11. CASE Confirm \/ RecordUnknown
    BY <1>2, <1>11, CommitPlaces DEF Confirm, RecordUnknown
  <1>12. CASE UNCHANGED vars
    BY <1>12 DEF vars
  <1>13. QED
    BY <1>4, <1>5, <1>6, <1>7, <1>8, <1>9, <1>10, <1>11, <1>12 DEF Next, Container

\* TypeOK: every variable has its type.
THEOREM MatchedTypeCorrect == Spec => []TypeOK
  <1>1. Init => Placed
    BY DEF Init, Placed
  <1>2. MatchedInv /\ Placed => TypeOK
    BY DEF MatchedInv, Typed, TypeOK, Placed, Places
  <1>3. QED
    BY <1>1, <1>2, PlacesStay, MatchedInvariant, PTL DEF Spec

\* PaidOnce, about the claim of _claim_attempt and the servers of _run_subject:
\* one task starts servers, its claim and acknowledgement are durable, and no
\* server is started while another is there.
THEOREM MatchedIsPaidOnce == Spec => []PaidOnce
  <1>1. MatchedInv => PaidOnce
    BY DEF MatchedInv, OwnerInv, StepInv, PaidOnce, Doing, Owns, Early
  <1>2. QED
    BY <1>1, MatchedInvariant, PTL

-----------------------------------------------------------------------------
(* What status answers. *)

LEMMA EvidenceTyped ==
  ASSUME Typed
  PROVE  TerminalEvidence \in {"none", "refused", "success", "failure"}
  <1> DEFINE candidates == OfKind(volume, "terminal")
  <1>1. ASSUME candidates # {}
        PROVE  (CHOOSE r \in candidates : TRUE).outcome \in {"success", "failure"}
    <2>1. (CHOOSE r \in candidates : TRUE) \in candidates
      BY <1>1
    <2>2. candidates \subseteq Files /\ \A f \in candidates : f.kind = "terminal"
      BY TypedParts DEF OfKind
    <2>3. QED
      BY <2>1, <2>2, FilesHaveTasks
  <1>2. QED
    BY <1>1 DEF TerminalEvidence

LEMMA AnswersAre ==
  ASSUME Typed
  PROVE  /\ Status \in {"success", "failure"} =>
              /\ bound /\ Acceptance \in volume /\ ClaimValid /\ HistoryValid
              /\ TerminalEvidence = Status
         /\ Status = "failed_without_terminal_evidence" =>
              /\ bound /\ Acceptance \in volume /\ ClaimValid /\ HistoryValid
              /\ TerminalEvidence = "none" /\ ~(registry # None /\ DurableClaims = {})
              /\ call.status = "failed"
  BY EvidenceTyped DEF Status

\* An outcome is that of the one receipt, which is confirmed for the claim.
LEMMA OutcomeEvidence ==
  ASSUME TerminalEvidence \in {"success", "failure"}
  PROVE  \E r \in OfKind(volume, "terminal") : r.outcome = TerminalEvidence /\ Believed(r)
  <1> DEFINE candidates == OfKind(volume, "terminal")
  <1>1. candidates # {} /\ (\A r \in candidates : Believed(r))
    BY DEF TerminalEvidence
  <1>2. TerminalEvidence = (CHOOSE r \in candidates : TRUE).outcome
    BY <1>1 DEF TerminalEvidence
  <1>3. (CHOOSE r \in candidates : TRUE) \in candidates
    BY <1>1
  <1>4. QED
    BY <1>1, <1>2, <1>3

\* AnswerBacked, about _validated_terminal_evidence: an outcome that status
\* reports is that of a durable receipt, with the subjects' receipts it stands for.
THEOREM MatchedAnswerIsBacked == Spec => []AnswerBacked
  <1>1. ASSUME MatchedInv, Status \in {"success", "failure"}
        PROVE  \E t \in Tasks, n \in 0 .. 2 :
                 /\ Terminal(t, Status, n) \in volume
                 /\ {SubjectReceipt(t, s) : s \in 1 .. n} \subseteq volume
                 /\ Status = "success" => n = 2
    <2>1. TerminalEvidence = Status
      BY <1>1, AnswersAre DEF MatchedInv
    <2>2. PICK r \in OfKind(volume, "terminal") : r.outcome = Status
      BY <1>1, <2>1, OutcomeEvidence
    <2>3. r \in volume /\ r \in Files /\ r.kind = "terminal" /\ r \in Terminals
      BY <1>1, TypedParts DEF MatchedInv, OfKind, Terminals, Known
    <2>4. r = Terminal(r.task, Status, r.done) /\ r.task \in Tasks /\ r.done \in 0 .. 2
      BY <2>2, <2>3, FilesHaveTasks
    <2>5. /\ \A s \in 1 .. r.done : SubjectReceipt(r.task, s) \in volume
          /\ r.outcome = "success" => r.done = 2
      BY <1>1, <2>3 DEF MatchedInv, ReceiptInv
    <2>6. Terminal(r.task, Status, r.done) \in volume
      BY <2>3, <2>4
    <2>7. {SubjectReceipt(r.task, s) : s \in 1 .. r.done} \subseteq volume
      BY <2>5
    <2>8. QED
      BY <2>2, <2>4, <2>5, <2>6, <2>7
  <1>2. MatchedInv => AnswerBacked
    BY <1>1 DEF AnswerBacked
  <1>3. QED
    BY <1>2, MatchedInvariant, PTL

-----------------------------------------------------------------------------
(* What a step does to the volume, to the claim and to the servers: no file   *)
(* is lost, and what comes to the volume was known.                           *)

Claims ==
  /\ box # None /\ box.step = "claim" /\ registry = None /\ registry' = box.task
  /\ worked' = worked
Serves ==
  /\ box # None /\ box.step = "start" /\ registry' = registry /\ volume' = volume
  /\ worked' = worked \union {box.task}

Effect ==
  /\ volume \subseteq volume' /\ volume' \subseteq Known \union {Acceptance}
  /\ Claims \/ Serves \/ UNCHANGED <<registry, worked>>
  /\ bound => bound'
  /\ box # None /\ box' = None => bound' = bound
  /\ bound /\ call.status = "failed" => call'.status = "failed"

LEMMA GoneEffect ==
  ASSUME MatchedInv, Gone, Claims \/ registry' = registry
  PROVE  Effect
  BY DEF Gone, Effect, hostVars, MatchedInv, CallInv

LEMMA WorkEffect ==
  ASSUME MatchedInv, box # None, UNCHANGED <<hostVars, call>>,
         volume \subseteq volume', volume' \subseteq Known,
         Claims \/ Serves \/ UNCHANGED <<registry, worked>>
  PROVE  Effect
  BY DEF Effect, hostVars

LEMMA WaitsEffect ==
  ASSUME Waits
  PROVE  Effect
  BY DEF Waits, hostVars, Effect, Known

LEMMA ContainerEffect ==
  ASSUME MatchedInv, Container
  PROVE  Effect
  <1> USE DEF MatchedInv
  <1>1. ASSUME box # None, Working, worked' = worked, NEW files, Keeps(files)
        PROVE  Effect
    BY <1>1, WorkEffect DEF Working, Keeps
  <1>2. ASSUME box # None, UNCHANGED <<hostVars, call, volume, worked>>,
               Claims \/ registry' = registry
        PROVE  Effect
    BY <1>2, WorkEffect DEF Known
  <1>3. CASE LoadIntent
    <2>1. CASE LoadStep
      BY <1>2, <1>3, <2>1 DEF LoadStep, Working, LoadIntent, Doing
    <2>2. QED
      BY <1>3, <2>1, LoadIs, GoneEffect
  <1>4. CASE WaitForAcceptance
    <2>1. CASE WaitStep
      BY <1>2, <1>4, <2>1 DEF WaitStep, Working, WaitForAcceptance, Doing
    <2>2. QED
      BY <1>4, <2>1, WaitIs, GoneEffect
  <1>5. CASE ClaimAttempt
    <2>1. box # None /\ box.step = "claim" /\ UNCHANGED <<hostVars, worked>>
      BY <1>5 DEF ClaimAttempt, Doing
    <2>2. CASE ClaimStep
      <3>1. Claims /\ UNCHANGED <<hostVars, call, volume, worked>>
        BY <2>1, <2>2 DEF ClaimStep, Claims
      <3>2. QED
        BY <1>2, <2>1, <3>1
    <2>3. CASE Gone /\ registry = None /\ registry' = box.task
      <3>1. Claims
        BY <2>1, <2>3 DEF Claims
      <3>2. QED
        BY <2>3, <3>1, GoneEffect
    <2>4. CASE Gone /\ registry' = registry
      BY <2>4, GoneEffect
    <2>5. QED
      BY <1>5, <2>2, <2>3, <2>4, ClaimIs
  <1>6. CASE PublishRecords
    BY <1>1, <1>6, RecordsAre DEF RecordsStep, PublishRecords, Doing
  <1>7. CASE StartServer
    <2>1. box # None /\ box.step = "start" /\ UNCHANGED <<hostVars, call, registry, volume>>
      BY <1>7 DEF StartServer, Doing
    <2>2. worked' = worked \/ worked' = worked \union {box.task}
      BY <1>7, StartIs DEF StartStep
    <2>3. Serves \/ UNCHANGED <<registry, worked>>
      BY <2>1, <2>2 DEF Serves
    <2>4. volume \subseteq volume' /\ volume' \subseteq Known
      BY <2>1 DEF Known
    <2>5. QED
      BY <2>1, <2>3, <2>4, WorkEffect
  <1>8. CASE RunSubject
    BY <1>1, <1>8, RunIs DEF RunStep, RunSubject, Doing
  <1>9. CASE PersistSubject
    <2>1. box # None /\ box.step = "persist"
      BY <1>9 DEF PersistSubject, Doing
    <2>2. box.done \in {0, 1}
      BY <2>1 DEF StepInv, Owns, Early
    <2>3. QED
      BY <1>1, <1>9, <2>1, <2>2, PersistIs DEF PersistStep
  <1>10. CASE VerifySubjects
    <2>1. box # None /\ box.step = "verify"
      BY <1>10 DEF VerifySubjects, Doing
    <2>2. \A s \in Subjects : SubjectReceipt(box.task, s) \in volume
      BY <2>1 DEF StepInv, Owns, Early, Subjects
    <2>3. QED
      BY <1>1, <1>10, <2>1, <2>2, VerifyIs DEF VerifyStep
  <1>11. CASE BuildFailure
    BY <1>1, <1>11, FailureStepIs DEF FailureStep, BuildFailure, Doing
  <1>12. CASE BeginPublication
    BY <1>1, <1>12, BeginIs, WaitsEffect DEF BeginStep, BeginPublication, Doing
  <1>13. ASSUME box # None, box.step = "publish", box.tracker = "installing"
         PROVE  box.cycle \in {1, 2}
    BY <1>13 DEF TrackerInv, Owns, Early
  <1>14. CASE Install
    BY <1>1, <1>13, <1>14, InstallIs, WaitsEffect DEF InstallStep, Install, Doing
  <1>15. CASE Settle
    BY <1>1, <1>13, <1>15, SettleIs DEF SettleStep, Settle, Doing
  <1>16. CASE Confirm
    BY <1>1, <1>16, ConfirmIs DEF ConfirmStep, Confirm, Doing
  <1>17. CASE RecordUnknown
    BY <1>1, <1>17, RecordUnknownIs DEF UnknownStep, RecordUnknown, Doing
  <1>18. CASE Leave
    BY <1>18, LeavesGone, GoneEffect
  <1>19. QED
    BY <1>3, <1>4, <1>5, <1>6, <1>7, <1>8, <1>9, <1>10, <1>11, <1>12, <1>14, <1>15, <1>16, <1>17,
       <1>18 DEF Container

LEMMA StepEffect ==
  ASSUME MatchedInv, [Next]_vars
  PROVE  Effect
  <1>1. Typed /\ CallInv
    BY DEF MatchedInv
  <1>2. CASE Manager \/ ManagerDies
    <2>1. HostStep
      BY <1>1, <1>2, ManagersStep
    <2>2. QED
      BY <1>1, <2>1 DEF HostStep, Effect, Known, CallInv
  <1>3. CASE StartContainer
    BY <1>1, <1>3, StartsBegin DEF Begins, Effect, Known, hostVars
  <1>4. CASE CancelQueued
    BY <1>4 DEF CancelQueued, Effect, Known, hostVars
  <1>5. CASE ContainerDies
    BY <1>1, <1>5, DiesGone, GoneEffect
  <1>6. CASE BackgroundCommit
    <2>1. /\ box # None /\ UNCHANGED <<hostVars, call, registry, worked>>
          /\ volume \subseteq volume' /\ volume' \subseteq Known
      BY <1>6 DEF BackgroundCommit, Known
    <2>2. QED
      BY <2>1, WorkEffect
  <1>7. CASE Container
    BY <1>7, ContainerEffect
  <1>8. CASE UNCHANGED vars
    BY <1>1, <1>8, WaitsEffect, TypedParts DEF vars, Waits
  <1>9. QED
    BY <1>2, <1>3, <1>4, <1>5, <1>6, <1>7, <1>8 DEF Next

\* Before the claim, and without a container, all that is known is durable: the
\* volume can get the acceptance only.
LEMMA NotOwnedVolume ==
  ASSUME MatchedInv, Effect, ~Owns, Acceptance \in volume
  PROVE  volume' = volume
  <1>1. Known \subseteq volume
    BY DEF Owns, Known, MatchedInv, OwnerInv
  <1>2. QED
    BY <1>1 DEF Effect

-----------------------------------------------------------------------------
(* The one-shot attempt. *)

Claimant == IF registry = None THEN None ELSE "call"
Served == {<<"call", t>> : t \in worked}
Recorded == {<<"call", r.outcome>> : r \in OfKind(volume, "terminal")}

LEMMA AttemptSteps ==
  /\ Claimant = None /\ Claimant' = "call" /\ Served' = Served /\ Recorded' = Recorded
       => OneShot!AttemptNext
  /\ \A t \in Tasks :
       /\ Claimant = "call" /\ Served = {} /\ Recorded = {}
       /\ Served' = {<<"call", t>>} /\ Claimant' = Claimant /\ Recorded' = Recorded
       => OneShot!AttemptNext
  /\ \A o \in {"success", "failure"} :
       /\ Claimant = "call" /\ Recorded = {} /\ (o = "success" => Served # {})
       /\ Recorded' = {<<"call", o>>} /\ Claimant' = Claimant /\ Served' = Served
       => OneShot!AttemptNext
  /\ Claimant' = Claimant /\ Served' = Served /\ Recorded' = Recorded
       => UNCHANGED OneShot!attemptVars
  <1>1. None # "call"
    BY MarkerAssumption
  <1>2. QED
    BY <1>1 DEF OneShot!AttemptNext, OneShot!ClaimFor, OneShot!Begin, OneShot!Conclude,
       OneShot!attemptVars, Claimant, Served, Recorded

LEMMA TerminalsTyped ==
  ASSUME MatchedInv, NEW r \in OfKind(volume, "terminal")
  PROVE  r \in Terminals /\ r.outcome \in {"success", "failure"} /\ registry # None
  <1>1. r \in volume /\ r \in Files /\ r.kind = "terminal" /\ r \in Terminals
    BY TypedParts DEF MatchedInv, OfKind, Terminals, Known
  <1>2. r.task \in Tasks /\ r.task = registry
    BY <1>1, FilesHaveTasks DEF MatchedInv, OwnerInv, Known
  <1>3. QED
    BY <1>1, <1>2, FilesHaveTasks, MatchedAssumption DEF Tasks

LEMMA OneShotStep ==
  ASSUME MatchedInv, MatchedInv', [Next]_vars
  PROVE  [OneShot!AttemptNext]_(OneShot!attemptVars)
  <1>1. Effect
    BY StepEffect
  <1>2. CASE Claims
    <2>1. volume' = volume
      <3>1. Acceptance \in volume /\ ~Owns
        BY <1>2 DEF Claims, MatchedInv, OwnerInv, Owns, Early
      <3>2. QED
        BY <1>1, <3>1, NotOwnedVolume
    <2>2. registry' # None
      BY <1>2, BoxIsTyped, BoxFields, MatchedAssumption DEF Claims, MatchedInv, Tasks
    <2>3. Claimant = None /\ Claimant' = "call" /\ Served' = Served /\ Recorded' = Recorded
      BY <1>2, <2>1, <2>2 DEF Claims, Claimant, Served, Recorded
    <2>4. QED
      BY <2>3, AttemptSteps
  <1>3. CASE Serves
    <2>1. Claimant' = Claimant /\ Recorded' = Recorded /\ Owns
      BY <1>3 DEF Serves, Claimant, Recorded, Owns, Early
    <2>2. CASE box.done = 0
      <3>1. worked = {} /\ registry = box.task /\ Terminals = {} /\ box.task \in Tasks
        BY <1>3, <2>1, <2>2, AtPlain DEF Serves, Plain, MatchedInv, StepInv, TrackerInv
      <3>2. Served = {} /\ Served' = {<<"call", box.task>>}
        BY <1>3, <3>1 DEF Serves, Served
      <3>3. Recorded = {}
        BY <3>1, TerminalsTyped DEF Recorded
      <3>4. Claimant = "call"
        BY <3>1, MatchedAssumption DEF Claimant, Tasks
      <3>5. QED
        BY <2>1, <3>1, <3>2, <3>3, <3>4, AttemptSteps
    <2>3. CASE box.done # 0
      <3>1. worked = {box.task}
        BY <1>3, <2>1, <2>3, BoxIsTyped, BoxFields DEF Serves, MatchedInv, StepInv
      <3>2. Served' = Served
        BY <1>3, <3>1 DEF Serves, Served
      <3>3. QED
        BY <2>1, <3>2, AttemptSteps
    <2>4. QED
      BY <2>2, <2>3
  <1>4. CASE UNCHANGED <<registry, worked>>
    <2>1. Claimant' = Claimant /\ Served' = Served
      BY <1>4 DEF Claimant, Served
    <2>2. OfKind(volume, "terminal") \subseteq OfKind(volume', "terminal")
      BY <1>1 DEF Effect, OfKind
    <2>3. CASE OfKind(volume', "terminal") = OfKind(volume, "terminal")
      <3>1. Recorded' = Recorded
        BY <2>3 DEF Recorded
      <3>2. QED
        BY <2>1, <3>1, AttemptSteps
    <2>4. CASE OfKind(volume', "terminal") # OfKind(volume, "terminal")
      <3>1. PICK r \in OfKind(volume', "terminal") : r \notin OfKind(volume, "terminal")
        BY <2>2, <2>4
      <3>2. /\ r \in Files /\ r.kind = "terminal" /\ r \in Terminals'
            /\ \A q \in OfKind(volume', "terminal") : q \in Terminals'
        BY TypedParts DEF MatchedInv, Typed, OfKind, Terminals, Known
      <3>3. /\ \A q \in Terminals' : q = r
            /\ r.outcome = "success" => worked' # {}
        BY <3>2 DEF MatchedInv, ReceiptInv
      <3>4. OfKind(volume', "terminal") = {r} /\ OfKind(volume, "terminal") = {}
        BY <2>2, <3>1, <3>2, <3>3
      <3>5. r.outcome \in {"success", "failure"} /\ r.task \in Tasks
        BY <3>2, FilesHaveTasks
      <3>6. registry # None
        <4>1. r \in Known' /\ r.task = registry'
          BY <3>1, <3>2 DEF MatchedInv, OwnerInv, Known, OfKind
        <4>2. QED
          BY <1>4, <3>5, <4>1, MatchedAssumption DEF Tasks
      <3>7. Recorded = {} /\ Recorded' = {<<"call", r.outcome>>}
        BY <3>4 DEF Recorded
      <3>8. Claimant = "call" /\ (r.outcome = "success" => Served # {})
        BY <1>4, <3>3, <3>6 DEF Claimant, Served
      <3>9. QED
        BY <2>1, <3>5, <3>7, <3>8, AttemptSteps
    <2>5. QED
      BY <2>3, <2>4
  <1>5. QED
    BY <1>1, <1>2, <1>3, <1>4 DEF Effect

\* Whatever the manager, the provider and the containers do, the attempt is a
\* one-shot attempt: one claim, one beginning of the paid work and before any
\* outcome, one outcome for good (_claim_attempt, _run_subject, _publish_terminal).
THEOREM MatchedImplementsOneShot == Spec => ImplementsOneShot
  <1>1. Init => OneShot!AttemptInit
    BY DEF Init, OneShot!AttemptInit, OfKind
  <1>2. MatchedInv /\ MatchedInv' /\ [Next]_vars => [OneShot!AttemptNext]_(OneShot!attemptVars)
    BY OneShotStep
  <1>3. QED
    BY <1>1, <1>2, MatchedInvariant, PTL DEF Spec, ImplementsOneShot, OneShot!AttemptSpec

-----------------------------------------------------------------------------
(* The history of the snapshots, as a property of a set of them. *)

Chain(S) ==
  /\ Cardinality(S) <= 4
  /\ \A a, b \in S : a.status = b.status /\ a.cycle = b.cycle => a = b
  /\ \A s \in S : (\A t \in S : Rank(s) <= Rank(t)) => s.status = "not_started" /\ s.cycle = 0
  /\ \A a, b \in S :
       /\ a # b /\ Rank(a) <= Rank(b)
       /\ ~ \E t \in S : Rank(a) < Rank(t) /\ Rank(t) < Rank(b)
       => MayFollow(a, b)

\* Answers, as a function of the terminals, the snapshots and the claims.
Confirmed(S, claims, r) ==
  \E s \in S : /\ \A t \in S : Rank(t) <= Rank(s)
               /\ s.status = "confirmed" /\ s.receipt = r /\ claims = {Claim(s.task)}
Evidence(T, S, claims) ==
  IF T = {} THEN IF S = {} THEN "none" ELSE "refused"
  ELSE IF Cardinality(T) = 1 /\ \A r \in T : Confirmed(S, claims, r)
       THEN (CHOOSE r \in T : TRUE).outcome
       ELSE "refused"

LEMMA ChainIs ==
  /\ HistoryValid <=> Chain(Snapshots)
  /\ HistoryValid' <=> Chain(Snapshots')
  BY DEF HistoryValid, Chain, First, RightBefore

LEMMA BelievedIs ==
  /\ \A r : Believed(r) <=> Confirmed(Snapshots, DurableClaims, r)
  /\ \A r : Believed(r)' <=> Confirmed(Snapshots', DurableClaims', r)
  BY DEF Believed, Confirmed, Final

LEMMA EvidenceIs ==
  /\ TerminalEvidence = Evidence(OfKind(volume, "terminal"), Snapshots, DurableClaims)
  /\ TerminalEvidence' = Evidence(OfKind(volume', "terminal"), Snapshots', DurableClaims')
  BY BelievedIs DEF TerminalEvidence, Evidence

LEMMA StatusSaysNext ==
  /\ ~bound' => Status' = "unbound"
  /\ bound' /\ Littered' => Status' = "refused"
  /\ bound' /\ ~(Acceptance \in volume' /\ ClaimValid' /\ HistoryValid') => Status' = "refused"
  /\ bound' /\ ~Littered' /\ Acceptance \in volume' /\ ClaimValid' /\ HistoryValid' /\ TerminalEvidence' # "none"
       => Status' = TerminalEvidence'
  BY DEF Status, Littered

\* Equal evidence, equal answers.
SameEvidence ==
  /\ OfKind(volume', "terminal") = OfKind(volume, "terminal")
  /\ Snapshots' = Snapshots /\ DurableClaims' = DurableClaims
  /\ registry' = registry

LEMMA SameIsSame ==
  ASSUME SameEvidence
  PROVE  /\ ClaimValid' <=> ClaimValid
         /\ HistoryValid' <=> HistoryValid
         /\ TerminalEvidence' = TerminalEvidence
  <1>1. ClaimValid' <=> ClaimValid
    BY DEF SameEvidence, ClaimValid
  <1>2. HistoryValid' <=> HistoryValid
    BY ChainIs DEF SameEvidence
  <1>3. TerminalEvidence' = TerminalEvidence
    BY EvidenceIs DEF SameEvidence
  <1>4. QED
    BY <1>1, <1>2, <1>3

LEMMA OutcomeStays ==
  ASSUME Typed, Status \in {"success", "failure"}, SameEvidence, volume \subseteq volume', bound',
         ~Littered'
  PROVE  Status' = Status
  <1>1. /\ bound /\ Acceptance \in volume /\ ClaimValid /\ HistoryValid /\ TerminalEvidence = Status
    BY AnswersAre
  <1>2. Acceptance \in volume' /\ ClaimValid' /\ HistoryValid' /\ TerminalEvidence' = Status
    BY <1>1, SameIsSame
  <1>3. QED
    BY <1>2, StatusSaysNext

\* A failed call has no container: what status says of it is for good.
LEMMA FailureStays ==
  ASSUME MatchedInv, Effect, Status = "failed_without_terminal_evidence", ~Littered'
  PROVE  Status' = Status
  <1>1. /\ bound /\ Acceptance \in volume /\ ClaimValid /\ HistoryValid
        /\ TerminalEvidence = "none" /\ ~(registry # None /\ DurableClaims = {})
        /\ call.status = "failed"
    BY AnswersAre DEF MatchedInv
  <1>2. box = None
    BY <1>1 DEF MatchedInv, CallInv
  <1>3. volume' = volume
    BY <1>1, <1>2, NotOwnedVolume DEF Owns
  <1>4. registry' = registry
    BY <1>2 DEF Effect, Claims, Serves
  <1>5. SameEvidence
    BY <1>3, <1>4 DEF SameEvidence, Snapshots, DurableClaims
  <1>6. /\ bound' /\ Acceptance \in volume' /\ ClaimValid' /\ HistoryValid'
        /\ TerminalEvidence' = "none" /\ ~(registry' # None /\ DurableClaims' = {})
        /\ call'.status = "failed"
    BY <1>1, <1>3, <1>5, SameIsSame DEF Effect, SameEvidence
  <1>7. QED
    BY <1>6 DEF Status, Littered

\* The ranks, and the chains that a confirmed publication leaves.
LEMMA RankIs ==
  ASSUME NEW t, NEW c \in Nat, NEW r
  PROVE  /\ Rank(Snapshot(t, "not_started", c, r)) = 3 * c
         /\ Rank(Snapshot(t, "installing", c, r)) = 3 * c + 1
         /\ Rank(Snapshot(t, "confirmed", c, r)) = 3 * c + 2
         /\ Rank(Snapshot(t, "unknown", c, r)) = 3 * c + 2
  BY DEF Rank, Snapshot

LEMMA RanksTyped ==
  ASSUME NEW f \in Files, f.kind = "snapshot"
  PROVE  Rank(f) \in Nat
  <1>1. f.cycle \in 0 .. 2
    BY DEF Files, Receipts, Acceptance, Claim, Acknowledgement, SubjectReceipt, Terminal, Snapshot
  <1>2. QED
    BY <1>1 DEF Rank

LEMMA OneMore ==
  ASSUME NEW S, IsFiniteSet(S), NEW n \in Nat, Cardinality(S) <= n, NEW x
  PROVE  IsFiniteSet(S \union {x}) /\ Cardinality(S \union {x}) <= n + 1
  <1>1. Cardinality(S) \in Nat
    BY FS_CardinalityType
  <1>2. /\ IsFiniteSet(S \union {x})
        /\ Cardinality(S \union {x}) = Cardinality(S) \/ Cardinality(S \union {x}) = Cardinality(S) + 1
    BY FS_AddElement
  <1>3. QED
    BY <1>1, <1>2

LEMMA AtMostFour ==
  ASSUME NEW a, NEW b, NEW c, NEW d
  PROVE  Cardinality({a, b, c, d}) <= 4
  <1>1. IsFiniteSet({a}) /\ Cardinality({a}) <= 1
    BY FS_Singleton
  <1>2. IsFiniteSet({a} \union {b}) /\ Cardinality({a} \union {b}) <= 1 + 1
    BY <1>1, OneMore
  <1>3. IsFiniteSet({a, b}) /\ Cardinality({a, b}) <= 2
    <2>1. {a} \union {b} = {a, b}
      OBVIOUS
    <2>2. QED
      BY <1>2, <2>1
  <1>4. IsFiniteSet({a, b} \union {c}) /\ Cardinality({a, b} \union {c}) <= 2 + 1
    BY <1>3, OneMore
  <1>5. IsFiniteSet({a, b, c}) /\ Cardinality({a, b, c}) <= 3
    <2>1. {a, b} \union {c} = {a, b, c}
      OBVIOUS
    <2>2. QED
      BY <1>4, <2>1
  <1>6. Cardinality({a, b, c} \union {d}) <= 3 + 1
    BY <1>5, OneMore
  <1>7. {a, b, c} \union {d} = {a, b, c, d}
    OBVIOUS
  <1>8. QED
    BY <1>6, <1>7

LEMMA SameRank ==
  ASSUME NEW a, NEW b, a.status = b.status, a.cycle = b.cycle
  PROVE  Rank(a) = Rank(b)
  BY DEF Rank

LEMMA ShortChain ==
  ASSUME NEW n, NEW i, NEW c, Rank(n) = 0, Rank(i) = 4, Rank(c) = 5,
         n.status = "not_started", n.cycle = 0, MayFollow(n, i), MayFollow(i, c)
  PROVE  Chain({n, i, c}) /\ \A t \in {n, i, c} : Rank(t) <= Rank(c)
  <1> DEFINE S == {n, i, c}
  <1>1. Cardinality(S) <= 4
    <2>1. S = {n, i, c, c}
      OBVIOUS
    <2>2. QED
      BY <2>1, AtMostFour
  <1>2. \A a, b \in S : Rank(a) = Rank(b) => a = b
    OBVIOUS
  <1>3. \A a, b \in S : a.status = b.status /\ a.cycle = b.cycle => a = b
    BY <1>2, SameRank
  <1>4. \A s \in S : (\A t \in S : Rank(s) <= Rank(t)) => s.status = "not_started" /\ s.cycle = 0
    <2>1. \A s \in S : Rank(s) <= Rank(n) => s = n
      OBVIOUS
    <2>2. QED
      BY <2>1
  <1>5. ASSUME NEW a \in S, NEW b \in S, a # b, Rank(a) <= Rank(b),
               ~ \E t \in S : Rank(a) < Rank(t) /\ Rank(t) < Rank(b)
        PROVE  MayFollow(a, b)
    <2>1. ~(Rank(a) < Rank(i) /\ Rank(i) < Rank(b))
      BY <1>5
    <2>2. (a = n /\ b = i) \/ (a = i /\ b = c)
      BY <1>5, <2>1
    <2>3. QED
      BY <2>2
  <1>6. \A t \in S : Rank(t) <= Rank(c)
    OBVIOUS
  <1>7. QED
    BY <1>1, <1>3, <1>4, <1>5, <1>6 DEF Chain

LEMMA LongChain ==
  ASSUME NEW n, NEW i, NEW j, NEW c, Rank(n) = 0, Rank(i) = 4, Rank(j) = 7, Rank(c) = 8,
         n.status = "not_started", n.cycle = 0, MayFollow(n, i), MayFollow(i, j), MayFollow(j, c)
  PROVE  Chain({n, i, j, c}) /\ \A t \in {n, i, j, c} : Rank(t) <= Rank(c)
  <1> DEFINE S == {n, i, j, c}
  <1>1. Cardinality(S) <= 4
    BY AtMostFour
  <1>2. \A a, b \in S : Rank(a) = Rank(b) => a = b
    OBVIOUS
  <1>3. \A a, b \in S : a.status = b.status /\ a.cycle = b.cycle => a = b
    BY <1>2, SameRank
  <1>4. \A s \in S : (\A t \in S : Rank(s) <= Rank(t)) => s.status = "not_started" /\ s.cycle = 0
    <2>1. \A s \in S : Rank(s) <= Rank(n) => s = n
      OBVIOUS
    <2>2. QED
      BY <2>1
  <1>5. ASSUME NEW a \in S, NEW b \in S, a # b, Rank(a) <= Rank(b),
               ~ \E t \in S : Rank(a) < Rank(t) /\ Rank(t) < Rank(b)
        PROVE  MayFollow(a, b)
    <2>1. /\ ~(Rank(a) < Rank(i) /\ Rank(i) < Rank(b))
          /\ ~(Rank(a) < Rank(j) /\ Rank(j) < Rank(b))
      BY <1>5
    <2>2. (a = n /\ b = i) \/ (a = i /\ b = j) \/ (a = j /\ b = c)
      BY <1>5, <2>1
    <2>3. QED
      BY <2>2
  <1>6. \A t \in S : Rank(t) <= Rank(c)
    OBVIOUS
  <1>7. QED
    BY <1>1, <1>3, <1>4, <1>5, <1>6 DEF Chain

\* What a confirmed publication leaves is accepted, and its receipt believed.
LEMMA ConfirmedChain ==
  ASSUME box \in Boxes, box.cycle \in {1, 2}
  PROVE  /\ Chain(Begin \union {Confirmation})
         /\ Confirmed(Begin \union {Confirmation}, {Claim(box.task)}, Receipt)
  <1>1. /\ Rank(NotStarted) = 0 /\ Rank(Installing(1)) = 4 /\ Rank(Installing(2)) = 7
        /\ Rank(Confirmation) = 3 * box.cycle + 2
    BY RankIs DEF NotStarted, Installing, Confirmation, Now
  <1>2. /\ NotStarted.status = "not_started" /\ NotStarted.cycle = 0
        /\ MayFollow(NotStarted, Installing(1))
    BY DEF MayFollow, NotStarted, Installing, Snapshot
  <1>3. MayFollow(Installing(1), Installing(2))
    BY DEF MayFollow, Installing, Snapshot
  <1>4. /\ box.cycle = 1 => MayFollow(Installing(1), Confirmation)
        /\ box.cycle = 2 => MayFollow(Installing(2), Confirmation)
    BY DEF MayFollow, Installing, Confirmation, Now, Snapshot
  <1>5. /\ Confirmation.status = "confirmed" /\ Confirmation.receipt = Receipt
        /\ Confirmation.task = box.task
    BY DEF Confirmation, Now, Snapshot
  <1>6. /\ Chain(Begin \union {Confirmation})
        /\ \A t \in Begin \union {Confirmation} : Rank(t) <= Rank(Confirmation)
    <2>1. CASE box.cycle = 1
      <3>1. Begin = {NotStarted, Installing(1)}
        <4>1. 1 .. box.cycle = {1}
          BY <2>1
        <4>2. QED
          BY <4>1 DEF Begin
      <3>2. Begin \union {Confirmation} = {NotStarted, Installing(1), Confirmation}
        BY <3>1
      <3>3. Rank(Confirmation) = 5 /\ MayFollow(Installing(1), Confirmation)
        BY <1>1, <1>4, <2>1
      <3>4. /\ Chain({NotStarted, Installing(1), Confirmation})
            /\ \A t \in {NotStarted, Installing(1), Confirmation} : Rank(t) <= Rank(Confirmation)
        BY <1>1, <1>2, <3>3, ShortChain
      <3>5. QED
        BY <3>2, <3>4
    <2>2. CASE box.cycle = 2
      <3>1. Begin = {NotStarted, Installing(1), Installing(2)}
        <4>1. 1 .. box.cycle = {1, 2}
          BY <2>2
        <4>2. QED
          BY <4>1 DEF Begin
      <3>2. Begin \union {Confirmation} = {NotStarted, Installing(1), Installing(2), Confirmation}
        BY <3>1
      <3>3. Rank(Confirmation) = 8 /\ MayFollow(Installing(2), Confirmation)
        BY <1>1, <1>4, <2>2
      <3>4. /\ Chain({NotStarted, Installing(1), Installing(2), Confirmation})
            /\ \A t \in {NotStarted, Installing(1), Installing(2), Confirmation} :
                 Rank(t) <= Rank(Confirmation)
        BY <1>1, <1>2, <1>3, <3>3, LongChain
      <3>5. QED
        BY <3>2, <3>4
    <2>3. QED
      BY <2>1, <2>2
  <1>7. QED
    BY <1>5, <1>6 DEF Confirmed

\* An outcome that was reported stays reported; only "unknown" can be added to
\* a history that was confirmed, and then nothing is reported any more.
LEMMA OutcomeStands ==
  ASSUME MatchedInv, Effect, Status \in {"success", "failure"}, ~Littered'
  PROVE  Status' = Status \/ (Status' = "refused" /\ Unconfirmed')
  <1>1. /\ bound /\ Acceptance \in volume /\ ClaimValid /\ HistoryValid /\ TerminalEvidence = Status
        /\ Typed /\ volume \subseteq Files
    BY AnswersAre, TypedParts DEF MatchedInv
  <1>2. PICK r \in OfKind(volume, "terminal") : Believed(r)
    BY <1>1, OutcomeEvidence
  <1>3. PICK s \in Snapshots :
          s.status = "confirmed" /\ s.receipt = r /\ DurableClaims = {Claim(s.task)}
    BY <1>2 DEF Believed
  <1>4. /\ s \in volume /\ s \in Known /\ s.kind = "snapshot" /\ s \in States
        /\ r \in Terminals
    BY <1>2, <1>3 DEF Snapshots, OfKind, Known, States, Terminals
  <1>5. s.task = registry /\ registry \in Tasks
    BY <1>1, <1>4, FilesHaveTasks DEF MatchedInv, OwnerInv
  <1>6. registry' = registry /\ volume \subseteq volume' /\ bound'
    <2>1. registry # None
      BY <1>5, MatchedAssumption DEF Tasks
    <2>2. QED
      BY <1>1, <2>1 DEF Effect, Claims, Serves
  <1>7. CASE ~Owns
    <2>1. volume' = volume
      BY <1>1, <1>7, NotOwnedVolume
    <2>2. SameEvidence
      BY <1>6, <2>1 DEF SameEvidence, Snapshots, DurableClaims
    <2>3. QED
      BY <1>1, <1>6, <2>2, OutcomeStays
  <1>8. CASE Owns
    <2>1. box \in Boxes
      BY <1>1, <1>8, BoxIsTyped DEF Owns
    <2>2. /\ Terminals \subseteq {Receipt}
          /\ States \subseteq Begin \union {Confirmation, Now("unknown")}
          /\ Confirmation \in Known => Basis \subseteq volume
      BY <1>4, <1>8 DEF MatchedInv, TrackerInv
    <2>3. Now("unknown").status = "unknown" /\ \A f \in Begin : f.status # "confirmed"
      BY <2>1, PublishedFiles, BasisKinds DEF Statuses
    <2>4. s = Confirmation
      BY <1>3, <1>4, <2>2, <2>3
    <2>5. Basis \subseteq volume /\ Confirmation \in volume
      BY <1>4, <2>2, <2>4
    <2>6. volume' \subseteq Known
      BY <1>1 DEF Effect, Known
    <2>7. OfKind(volume', "terminal") = OfKind(volume, "terminal")
      <3>1. Receipt \in volume
        BY <2>5 DEF Basis
      <3>2. OfKind(volume', "terminal") \subseteq Terminals
        BY <2>6 DEF OfKind, Terminals
      <3>3. QED
        BY <1>6, <2>2, <3>1, <3>2 DEF OfKind
    <2>8. DurableClaims' = DurableClaims
      <3>1. Claim(s.task) \in volume
        BY <1>3 DEF DurableClaims, OfKind
      <3>2. ASSUME NEW f \in volume', f.kind = "claim"
            PROVE  f = Claim(s.task)
        <4>1. f \in Known /\ f \in Files
          BY <1>1, <2>6, KnownTyped
        <4>2. f = Claim(f.task)
          BY <3>2, <4>1, FilesHaveTasks
        <4>3. f.task = registry
          BY <3>2, <4>1 DEF MatchedInv, OwnerInv
        <4>4. QED
          BY <1>5, <4>2, <4>3
      <3>3. QED
        BY <1>6, <3>1, <3>2 DEF DurableClaims, OfKind
    <2>9. CASE Now("unknown") \in volume'
      <3>1. Confirmation \in Snapshots' /\ Now("unknown") \in Snapshots'
        BY <1>6, <2>1, <2>5, <2>9, EndingsDiffer DEF Snapshots, OfKind
      <3>2. Rank(Confirmation) = Rank(Now("unknown")) /\ Rank(Confirmation) \in Nat
        <4>1. box.cycle \in Nat
          BY <2>1, BoxFields
        <4>2. /\ Rank(Confirmation) = 3 * box.cycle + 2
              /\ Rank(Now("unknown")) = 3 * box.cycle + 2
          BY <4>1, RankIs DEF Confirmation, Now
        <4>3. QED
          BY <4>1, <4>2
      <3>3. ~MayFollow(Confirmation, Now("unknown"))
        BY DEF MayFollow, Confirmation, Now, Snapshot
      <3>4. Confirmation # Now("unknown")
        BY <2>1, EndingsDiffer
      <3>5. ~ \E t \in Snapshots' :
              Rank(Confirmation) < Rank(t) /\ Rank(t) < Rank(Now("unknown"))
        <4>1. \A t \in Snapshots' : Rank(t) \in Nat
          BY <1>1, <2>6, KnownTyped, RanksTyped DEF Snapshots, OfKind
        <4>2. QED
          BY <3>2, <4>1
      <3>6. ~Chain(Snapshots')
        BY <3>1, <3>2, <3>3, <3>4, <3>5 DEF Chain
      <3>7. Status' = "refused"
        BY <1>6, <3>6, ChainIs, StatusSaysNext
      <3>8. Unconfirmed'
        BY <2>3, <3>1 DEF Unconfirmed, Snapshots
      <3>9. QED
        BY <3>7, <3>8
    <2>10. CASE Now("unknown") \notin volume'
      <3>1. Snapshots' \subseteq States
        BY <2>6 DEF Snapshots, States, OfKind
      <3>2. Begin \subseteq volume
        BY <2>5 DEF Basis, Begin
      <3>3. Snapshots' \subseteq volume
        BY <2>2, <2>5, <2>10, <3>1, <3>2 DEF Snapshots, OfKind
      <3>4. Snapshots' = Snapshots
        BY <1>6, <3>3 DEF Snapshots, OfKind
      <3>5. SameEvidence
        BY <1>6, <2>7, <2>8, <3>4 DEF SameEvidence
      <3>6. QED
        BY <1>1, <1>6, <3>5, OutcomeStays
    <2>11. QED
      BY <2>9, <2>10
  <1>9. QED
    BY <1>7, <1>8

\* A container that goes with its receipt confirmed leaves what status reads.
LEMMA ConfirmedEnds ==
  ASSUME MatchedInv, Effect, box # None, box' = None, box.tracker = "confirmed", ~Littered'
  PROVE  Status' = IF bound THEN box.outcome ELSE "unbound"
  <1>1. /\ Owns /\ box \in Boxes /\ box.step \in {"return", "raise"} /\ registry = box.task
        /\ Acceptance \in volume /\ volume \subseteq Files /\ box.task \in Tasks
    BY BoxIsTyped, BoxFields, TypedParts DEF MatchedInv, OwnerInv, TrackerInv, Owns, Early
  <1>2. /\ box.cycle \in {1, 2} /\ Terminals \subseteq {Receipt}
        /\ States \subseteq Begin \union {Confirmation, Now("unknown")}
        /\ Confirmation \in Known => Basis \subseteq volume
        /\ Confirmation \in volume /\ Now("unknown") \notin Known
    BY <1>1 DEF MatchedInv, TrackerInv
  <1>3. Basis \subseteq volume
    BY <1>2 DEF Known
  <1>4. /\ registry' = registry /\ volume \subseteq volume' /\ volume' \subseteq Known /\ bound' = bound
    BY <1>1 DEF Effect, Claims, Serves, Known
  <1>5. OfKind(volume', "terminal") = {Receipt}
    <2>1. Receipt \in volume /\ Receipt.kind = "terminal"
      BY <1>1, <1>3, PublishedFiles DEF Basis
    <2>2. OfKind(volume', "terminal") \subseteq Terminals
      BY <1>4 DEF OfKind, Terminals
    <2>3. QED
      BY <1>2, <1>4, <2>1, <2>2 DEF OfKind
  <1>6. DurableClaims' = {Claim(box.task)}
    <2>1. Claim(box.task) \in volume /\ Claim(box.task).kind = "claim"
      BY <1>1, <1>3, MadeFiles DEF Basis
    <2>2. ASSUME NEW f \in volume', f.kind = "claim"
          PROVE  f = Claim(box.task)
      <3>1. f \in Known /\ f \in Files
        BY <1>4, KnownTyped DEF MatchedInv
      <3>2. f = Claim(f.task)
        BY <2>2, <3>1, FilesHaveTasks
      <3>3. f.task = registry
        BY <2>2, <3>1 DEF MatchedInv, OwnerInv
      <3>4. QED
        BY <1>1, <3>2, <3>3
    <2>3. QED
      BY <1>4, <2>1, <2>2 DEF DurableClaims, OfKind
  <1>7. Snapshots' = Begin \union {Confirmation}
    <2>1. Begin \subseteq volume
      BY <1>3 DEF Basis, Begin
    <2>2. \A f \in Begin \union {Confirmation} : f.kind = "snapshot"
      BY <1>1, BasisKinds, EndingsDiffer DEF OfKind
    <2>3. Snapshots' \subseteq States
      BY <1>4 DEF Snapshots, States, OfKind
    <2>4. Snapshots' \subseteq Begin \union {Confirmation}
      BY <1>2, <2>3 DEF States, OfKind
    <2>5. Begin \union {Confirmation} \subseteq Snapshots'
      BY <1>2, <1>4, <2>1, <2>2 DEF Snapshots, OfKind
    <2>6. QED
      BY <2>4, <2>5
  <1>8. HistoryValid'
    BY <1>1, <1>2, <1>7, ConfirmedChain, ChainIs
  <1>9. ClaimValid'
    <2>1. Cardinality({Claim(box.task)}) = 1
      BY FS_Singleton
    <2>2. QED
      BY <1>1, <1>4, <1>6, <2>1 DEF ClaimValid
  <1>10. TerminalEvidence' = box.outcome
    <2>1. TerminalEvidence' = Evidence({Receipt}, Begin \union {Confirmation}, {Claim(box.task)})
      BY <1>5, <1>6, <1>7, EvidenceIs
    <2>2. Confirmed(Begin \union {Confirmation}, {Claim(box.task)}, Receipt)
      BY <1>1, <1>2, ConfirmedChain
    <2>3. Cardinality({Receipt}) = 1 /\ (CHOOSE r \in {Receipt} : TRUE) = Receipt
      BY FS_Singleton
    <2>4. Evidence({Receipt}, Begin \union {Confirmation}, {Claim(box.task)}) = Receipt.outcome
      BY <2>2, <2>3 DEF Evidence
    <2>5. QED
      BY <1>1, <2>1, <2>4, PublishedFiles
  <1>11. Acceptance \in volume' /\ box.outcome # "none"
    BY <1>1, <1>4, BoxFields
  <1>12. QED
    BY <1>4, <1>8, <1>9, <1>10, <1>11, StatusSaysNext

\* AnswerStands, about status, _publication_unknown and the temporaries of
\* _atomic_install_exact: an outcome that was reported stays reported, or is
\* refused while a temporary is on the volume or because "unknown" follows a commit
\* that the container did not learn of; and a confirmed receipt is what status
\* reads, unless a temporary was left there.
THEOREM MatchedAnswerStands == Spec => AnswerStands
  <1>1. ASSUME MatchedInv, [Next]_vars
        PROVE  /\ Status \in Outcomes =>
                    Status' = Status \/ (Status' = "refused" /\ (Unconfirmed' \/ Littered'))
               /\ box # None /\ box' = None /\ box.tracker = "confirmed" =>
                    \/ Status' = IF bound THEN box.outcome ELSE "unbound"
                    \/ Status' = "refused" /\ Littered'
    <2>1. Effect
      BY <1>1, StepEffect
    <2>2. CASE Littered'
      <3>1. Status \in Outcomes => bound
        BY DEF Status, Outcomes
      <3>2. bound => Status' = "refused"
        BY <2>1, <2>2, StatusSaysNext DEF Effect
      <3>3. box # None /\ box' = None /\ ~bound => Status' = "unbound"
        BY <2>1, StatusSaysNext DEF Effect
      <3>4. QED
        BY <2>2, <3>1, <3>2, <3>3
    <2>3. CASE ~Littered'
      <3>1. Status \in Outcomes => Status' = Status \/ (Status' = "refused" /\ Unconfirmed')
        BY <1>1, <2>1, <2>3, OutcomeStands, FailureStays DEF Outcomes
      <3>2. box # None /\ box' = None /\ box.tracker = "confirmed" =>
              Status' = IF bound THEN box.outcome ELSE "unbound"
        BY <1>1, <2>1, <2>3, ConfirmedEnds
      <3>3. QED
        BY <3>1, <3>2
    <2>4. QED
      BY <2>2, <2>3
  <1>2. MatchedInv /\ [Next]_vars =>
          [/\ (Status \in Outcomes) =>
                Status' = Status \/ (Status' = "refused" /\ (Unconfirmed' \/ Littered'))
           /\ (box # None /\ box' = None /\ box.tracker = "confirmed") =>
                \/ Status' = IF bound THEN box.outcome ELSE "unbound"
                \/ Status' = "refused" /\ Littered']_vars
    BY <1>1
  <1>3. QED
    BY <1>2, MatchedInvariant, PTL DEF Spec, AnswerStands
=============================================================================
