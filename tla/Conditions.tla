----------------------------- MODULE Conditions -----------------------------
(***************************************************************************)
(* The status conditions of a ControlPlane and the operators the operator  *)
(* reads and writes them with (apis/controlplanes/v3).                     *)
(*                                                                         *)
(* A condition is a record: "type", "status" (TRUE when the Kubernetes     *)
(* status is "True"), "gen" (ObservedGeneration) and "reason".  Messages   *)
(* and times are left out.  A ControlPlane keeps a sequence of them:       *)
(* GetCondition depends on their order.                                    *)
(***************************************************************************)
EXTENDS Naturals, Sequences

(***************************************************************************)
(* The types this operator writes, and "legacy" for any type it does not   *)
(* know, as an older release may have left behind.                         *)
(***************************************************************************)
ConditionTypes == {"deploying", "ready", "updating", "legacy"}

(***************************************************************************)
(* Classes of reasons.  "malformed" is a reason with a blank or a dash,    *)
(* which the CRD's pattern for conditions rejects; "migrated" is the same  *)
(* reason once setCondition has rewritten it.                              *)
(***************************************************************************)
Reasons == {"initial_status", "transition", "migrated", "malformed"}

Condition == [type : ConditionTypes, status : BOOLEAN, gen : Nat,
              reason : Reasons]

\* The first of a set of positions.
FirstOf(S) == CHOOSE i \in S : \A j \in S : i <= j

TrueAt(conds) == {i \in DOMAIN conds : conds[i].status}

OfType(conds, t) == {i \in DOMAIN conds : conds[i].type = t}

\* Mutant: the generation a condition was observed at is not looked at.
MutGetCondition(conds, generation) ==
  IF TrueAt(conds) = {} THEN "deploying" ELSE conds[FirstOf(TrueAt(conds))].type

(***************************************************************************)
(* The state a ControlPlane is in: the type of its first True condition    *)
(* when that was observed at the object's generation, "updating" when it   *)
(* was observed at another one, "deploying" when no condition is True.     *)
(***************************************************************************)
GetCondition(conds, generation) ==
  IF TrueAt(conds) = {}
    THEN "deploying"
    ELSE LET first == conds[FirstOf(TrueAt(conds))]
         IN  IF first.gen = generation THEN first.type ELSE "updating"

\* Mutant: conditions are cleared, their reasons are not rewritten.
MutCleared(c, generation) ==
  IF c.status THEN [c EXCEPT !.status = FALSE, !.gen = generation,
                             !.reason = "transition"]
              ELSE c

Cleared(c, generation) ==
  LET reason == IF c.reason = "malformed" THEN "migrated" ELSE c.reason
  IN  IF c.status
        THEN [c EXCEPT !.status = FALSE, !.gen = generation,
                       !.reason = "transition"]
        ELSE [c EXCEPT !.reason = reason]

\* meta.SetStatusCondition: overwrite the first one of that type, or append.
SetStatusCondition(conds, new) ==
  IF OfType(conds, new.type) = {}
    THEN Append(conds, new)
    ELSE [conds EXCEPT ![FirstOf(OfType(conds, new.type))] = new]

SetCondition(conds, t, generation) ==
  SetStatusCondition(
    [i \in DOMAIN conds |-> Cleared(conds[i], generation)],
    [type |-> t, status |-> TRUE, gen |-> generation,
     reason |-> "initial_status"])

\* What the CRD's schema accepts as the conditions of a stored object.
Acceptable(conds) == \A i \in DOMAIN conds : conds[i].reason # "malformed"
=============================================================================
