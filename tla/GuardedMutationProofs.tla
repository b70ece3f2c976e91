----------------------- MODULE GuardedMutationProofs -----------------------
(***************************************************************************)
(* What the mutation path keeps for any number of tasks, Runtimes, keys,   *)
(* limits and bounds, and for every host: types, write-ahead intent,       *)
(* dispatch of the approved action only, true records, bounded slots and   *)
(* counts, one dispatch per key, the refinement of WriteLifecycle, what    *)
(* that lifecycle promises, and that every step takes a task further.      *)
(***************************************************************************)
EXTENDS GuardedMutation, TLAPS, FiniteSetTheorems

\* The state of a task at each await: nothing has left and nothing is noted
\* before the dispatch, a reason is pending when a write is abandoned, and a
\* settled outcome is only being saved when the service settled it.
Stages ==
  \A r \in Runs :
    /\ pc[r] # "done" => outcome[r] = "none"
    /\ pc[r] \in BeforeDispatch =>
         wire[r] = "idle" /\ sent[r] = NoVersion /\ local[r] = "none"
    /\ pc[r] = "abandon" => pending[r] \in {"budget", "stale_source", "permission_denial"}
    /\ pc[r] = "save_success" => wire[r] = "applied"
    /\ pc[r] = "save_failed" => wire[r] \in {"idle", "dropped"}

\* Without a store nothing is durable; with one, the last record it took is the
\* one being saved or the one saved before it.
DurableStages ==
  \A r \in Runs :
    /\ "intent_store" \notin host => durable[r] = "none"
    /\ pc[r] = "prepare" => durable[r] = "none"
    /\ pc[r] = "propose" => durable[r] \in {"none", "proposed"}
    /\ "intent_store" \in host =>
         /\ pc[r] \in {"checkpoint", "authorize"} => durable[r] = "proposed"
         /\ pc[r] = "approve" => durable[r] \in {"proposed", "authorized"}
         /\ pc[r] \in {"reauthorize", "queued"} => durable[r] = "authorized"
         /\ pc[r] = "intent" => durable[r] \in {"authorized", "in_flight"}
         /\ pc[r] = "abandon" => durable[r] \in {"in_flight", "failed"}
         /\ pc[r] = "calling" => durable[r] = "in_flight"
         /\ pc[r] \in {"save_unknown", "reconcile"} => durable[r] \in {"in_flight", "unknown"}
         /\ pc[r] = "save_success" => durable[r] \in {"in_flight", "unknown", "succeeded"}
         /\ pc[r] = "save_failed" => durable[r] \in {"in_flight", "unknown", "failed"}

IInv ==
  /\ TypeOK
  /\ Stages
  /\ DurableStages
  /\ ApprovedActionOnly
  /\ TruthfulRecords
  /\ WriteAheadIntent

USE DEF config, approval, gate, ledger, service, environment

\* What the checks of _execute_mutation and of the ledger can answer.
LEMMA ErrorsAreOutcomes ==
  ASSUME NEW r \in Runs
  PROVE  /\ PrepareError(r) \in {"none", "permission_denial", "unaccepted_judgment", "failed"}
         /\ ActionError(r) \in {"none", "budget", "stale_source", "permission_denial"}
         /\ OperationError(r) \in {"none", "budget", "admission", "busy"}
BY DEF PrepareError, ActionError, OperationError

\* Moving to an await keeps the types.
LEMMA GoTypes ==
  ASSUME TypeOK, NEW r \in Runs, NEW to \in Awaits, Go(r, to)
  PROVE  pc' \in [Runs -> Awaits] /\ outcome' \in [Runs -> Outcomes]
BY DEF TypeOK, Go

\* Ending the node keeps the types.
LEMMA EndTypes ==
  ASSUME TypeOK, NEW r \in Runs, NEW how \in Outcomes, End(r, how)
  PROVE  /\ pc' \in [Runs -> Awaits] /\ outcome' \in [Runs -> Outcomes]
         /\ slot' \subseteq Runs /\ active' \subseteq Operations
BY SMTT(30) DEF TypeOK, End, Release, Awaits

\* Each step of a task keeps the types.
LEMMA TypeStep ==
  ASSUME IInv, NEW r \in Runs,
         Step(r) \/ Cancel(r) \/ Serve(r) \/ Invalidate(r) \/ ChangeAction(r)
  PROVE  TypeOK'
<1> USE BoundsAssumption
    DEF TypeOK, NoVersion, Versions, Saving, BeforeDispatch, Outcomes, Intents, Awaits
<1>0. TypeOK /\ Stages
  BY DEF IInv
<1>1. CASE StoreTakes(r)
  BY <1>0, <1>1 DEF StoreTakes, RecordAt, Saving
<1>2. CASE Prepare(r)
  <2>1. PrepareError(r) \in Outcomes
    BY ErrorsAreOutcomes
  <2>2. CASE PrepareError(r) = "none"
    <3>1. Go(r, "propose") /\ proposal' = [proposal EXCEPT ![r] = live[r]] /\ UNCHANGED gate
      BY <1>2, <2>2 DEF Prepare
    <3>2. pc' \in [Runs -> Awaits] /\ outcome' \in [Runs -> Outcomes]
      BY <1>0, <3>1, GoTypes
    <3>3. proposal' \in [Runs -> Versions \cup {NoVersion}]
      BY <1>0, <3>1
    <3> QED BY <1>0, <1>2, <3>1, <3>2, <3>3 DEF Prepare
  <2>3. CASE PrepareError(r) # "none"
    <3>1. End(r, PrepareError(r)) /\ UNCHANGED proposal
      BY <1>2, <2>3 DEF Prepare
    <3>2. /\ pc' \in [Runs -> Awaits] /\ outcome' \in [Runs -> Outcomes]
          /\ slot' \subseteq Runs /\ active' \subseteq Operations
      BY <1>0, <2>1, <3>1, EndTypes
    <3> QED BY <1>0, <1>2, <3>1, <3>2 DEF Prepare
  <2> QED BY <2>2, <2>3
<1>3. CASE PersistProposed(r)
  BY <1>0, <1>3 DEF PersistProposed, SaveReturns, RecordAt, Go
<1>4. CASE RefuseWithoutStore(r)
  BY <1>0, <1>4 DEF RefuseWithoutStore, End, Release
<1>5. CASE PersistFails(r)
  BY <1>0, <1>5 DEF PersistFails, SaveRaises, End, Release
<1>6. CASE Checkpoint(r)
  BY <1>0, <1>6, ZenonT(60) DEF Checkpoint, Go, End, Release
<1>7. CASE Authorize(r)
  <2>1. pc' \in [Runs -> Awaits] /\ outcome' \in [Runs -> Outcomes]
    BY <1>0, <1>7, ZenonT(60) DEF Authorize, Go, End
  <2>2. grant' \in [Runs -> [version : Versions \cup {NoVersion}, expires : 0..(MaxTime + 1)]]
    <3>1. CASE grant' = grant
      BY <1>0, <3>1
    <3>2. ASSUME NEW expires \in (now + 1)..(MaxTime + 1),
                 grant' = [grant EXCEPT ![r] = [version |-> proposal[r], expires |-> expires]]
          PROVE  grant' \in [Runs -> [version : Versions \cup {NoVersion},
                                      expires : 0..(MaxTime + 1)]]
      <4>1. expires \in 0..(MaxTime + 1) /\ proposal[r] \in Versions \cup {NoVersion}
        BY <1>0
      <4> QED BY <1>0, <3>2, <4>1
    <3> QED BY <1>7, <3>1, <3>2 DEF Authorize
  <2>3. slot' \subseteq Runs /\ active' \subseteq Operations
    BY <1>0, <1>7 DEF Authorize, End, Release
  <2> QED BY <1>0, <1>7, <2>1, <2>2, <2>3 DEF Authorize
<1>8. CASE Approve(r)
  <2>1. ActionError(r) \in Outcomes
    BY ErrorsAreOutcomes
  <2> QED BY <1>0, <1>8, <2>1, EndTypes, GoTypes, SMTT(30) DEF Approve
<1>9. CASE Admit(r)
  <2>1. OperationError(r) \in Outcomes
    BY ErrorsAreOutcomes
  <2>2. pc' \in [Runs -> Awaits] /\ outcome' \in [Runs -> Outcomes]
    BY <1>0, <1>9, <2>1, GoTypes, EndTypes DEF Admit
  <2>3. /\ slot' \subseteq Runs /\ active' \subseteq Operations
        /\ operations' \subseteq Operations
        /\ toolAttempts' \subseteq Operations /\ writes' \subseteq Operations
    BY <1>0, <1>9, SharingAssumption DEF Admit, End, Release
  <2> QED BY <1>0, <1>9, <2>2, <2>3 DEF Admit
<1>10. CASE Dispatch(r)
  BY <1>0, <1>10 DEF Dispatch, SaveReturns, RecordAt, ActionError, Go
<1>11. CASE DispatchTooLate(r)
  BY <1>0, <1>11 DEF DispatchTooLate, SaveReturns, RecordAt, ActionError, Go
<1>12. CASE Abandon(r)
  BY <1>0, <1>12, ErrorsAreOutcomes DEF Abandon, Go
<1>13. CASE SaveAbandoned(r)
  BY <1>0, <1>13 DEF SaveAbandoned, Stages, Note, End, Release
<1>14. CASE CallReturns(r)
  BY <1>0, <1>14, ZenonT(60) DEF CallReturns, Go, Release
<1>15. CASE EffectNotStarted(r)
  BY <1>0, <1>15 DEF EffectNotStarted, Go
<1>16. CASE CallRaises(r)
  BY <1>0, <1>16 DEF CallRaises, Go
<1>17. CASE SaveUnknown(r)
  BY <1>0, <1>17, ZenonT(60) DEF SaveUnknown, Note, Go, End, Release
<1>18. CASE Reconcile(r)
  BY <1>0, <1>18, ZenonT(60) DEF Reconcile, Note, Go, End, Release
<1>19. CASE SaveSuccess(r)
  BY <1>0, <1>19, ZenonT(60) DEF SaveSuccess, Note, End, Release
<1>20. CASE SaveFailed(r)
  BY <1>0, <1>20 DEF SaveFailed, Note, End, Release
<1>21. CASE Cancel(r)
  <2>1. pc' \in [Runs -> Awaits] /\ outcome' \in [Runs -> Outcomes]
    BY <1>0, <1>21, ZenonT(60) DEF Cancel, Go, End
  <2>2. cancels' \in [Runs -> 0..MaxCancels]
    BY <1>0, <1>21 DEF Cancel
  <2>3. slot' \subseteq Runs /\ active' \subseteq Operations
    BY <1>0, <1>21 DEF Cancel, End, Release
  <2>4. /\ pending' \in [Runs -> Outcomes \cup {"receipt", "ambiguous", "not_started"}]
        /\ local' \in [Runs -> {"none", "succeeded", "failed", "unknown"}]
    BY <1>0, <1>21, ZenonT(60) DEF Cancel, Note
  <2> QED BY <1>0, <1>21, <2>1, <2>2, <2>3, <2>4 DEF Cancel
<1>22. CASE Serve(r)
  BY <1>0, <1>22 DEF Serve
<1>23. CASE Invalidate(r)
  BY <1>0, <1>23 DEF Invalidate
<1>24. CASE ChangeAction(r)
  BY <1>0, <1>24, SMTT(30) DEF ChangeAction
<1> QED BY <1>1, <1>2, <1>3, <1>4, <1>5, <1>6, <1>7, <1>8, <1>9, <1>10, <1>11, <1>12,
          <1>13, <1>14, <1>15, <1>16, <1>17, <1>18, <1>19, <1>20, <1>21, <1>22, <1>23, <1>24 DEF Step

\* ... and what is true at each await of the task,
LEMMA StageStep ==
  ASSUME IInv, NEW r \in Runs,
         Step(r) \/ Cancel(r) \/ Serve(r) \/ Invalidate(r) \/ ChangeAction(r)
  PROVE  Stages'
<1> USE DEF IInv, TypeOK, Stages, BeforeDispatch, Saving, NoVersion
<1>1. CASE StoreTakes(r)
  BY <1>1 DEF StoreTakes, RecordAt, Saving
<1>2. CASE Prepare(r)
  BY <1>2 DEF Prepare, PrepareError, Go, End, Release
<1>3. CASE PersistProposed(r)
  BY <1>3 DEF PersistProposed, SaveReturns, RecordAt, Go
<1>4. CASE RefuseWithoutStore(r)
  BY <1>4 DEF RefuseWithoutStore, End, Release
<1>5. CASE PersistFails(r)
  BY <1>5 DEF PersistFails, SaveRaises, End, Release
<1>6. CASE Checkpoint(r)
  BY <1>6 DEF Checkpoint, Go, End, Release
<1>7. CASE Authorize(r)
  BY <1>7 DEF Authorize, Go, End, Release
<1>8. CASE Approve(r)
  BY <1>8 DEF Approve, SaveReturns, RecordAt, ActionError, Go, End, Release
<1>9. CASE Admit(r)
  BY <1>9 DEF Admit, OperationError, Go, End, Release
<1>10. CASE Dispatch(r)
  BY <1>10 DEF Dispatch, SaveReturns, RecordAt, ActionError, Go
<1>11. CASE DispatchTooLate(r)
  BY <1>11 DEF DispatchTooLate, SaveReturns, RecordAt, ActionError, Go
<1>12. CASE Abandon(r)
  BY <1>12 DEF Abandon, SaveReturns, RecordAt, ActionError, Go
<1>13. CASE SaveAbandoned(r)
  BY <1>13 DEF SaveAbandoned, Note, End, Release
<1>14. CASE CallReturns(r)
  BY <1>14 DEF CallReturns, Go, Release
<1>15. CASE EffectNotStarted(r)
  BY <1>15 DEF EffectNotStarted, Go
<1>16. CASE CallRaises(r)
  BY <1>16 DEF CallRaises, Go
<1>17. CASE SaveUnknown(r)
  BY <1>17 DEF SaveUnknown, Note, Go, End, Release
<1>18. CASE Reconcile(r)
  BY <1>18 DEF Reconcile, Note, Go, End, Release
<1>19. CASE SaveSuccess(r)
  BY <1>19 DEF SaveSuccess, Note, End, Release
<1>20. CASE SaveFailed(r)
  BY <1>20 DEF SaveFailed, Note, End, Release
<1>21. CASE Cancel(r)
  BY <1>21 DEF Cancel, Asking, Saving, Note, Go, End, Release
<1>22. CASE Serve(r)
  BY <1>22 DEF Serve
<1>23. CASE Invalidate(r)
  BY <1>23 DEF Invalidate
<1>24. CASE ChangeAction(r)
  BY <1>24, SMTT(30) DEF ChangeAction
<1> QED BY <1>1, <1>2, <1>3, <1>4, <1>5, <1>6, <1>7, <1>8, <1>9, <1>10, <1>11, <1>12,
          <1>13, <1>14, <1>15, <1>16, <1>17, <1>18, <1>19, <1>20, <1>21, <1>22, <1>23, <1>24 DEF Step

\* ... and which records the store can hold at each await,
LEMMA DurableStep ==
  ASSUME IInv, NEW r \in Runs,
         Step(r) \/ Cancel(r) \/ Serve(r) \/ Invalidate(r) \/ ChangeAction(r)
  PROVE  DurableStages'
<1> USE DEF IInv, TypeOK, DurableStages, Saving
<1>1. CASE StoreTakes(r)
  BY <1>1 DEF StoreTakes, RecordAt, Saving
<1>2. CASE Prepare(r)
  BY <1>2 DEF Prepare, PrepareError, Go, End, Release
<1>3. CASE PersistProposed(r)
  BY <1>3 DEF PersistProposed, SaveReturns, RecordAt, Go
<1>4. CASE RefuseWithoutStore(r)
  BY <1>4 DEF RefuseWithoutStore, End, Release
<1>5. CASE PersistFails(r)
  BY <1>5 DEF PersistFails, SaveRaises, End, Release
<1>6. CASE Checkpoint(r)
  BY <1>6 DEF Checkpoint, Go, End, Release
<1>7. CASE Authorize(r)
  BY <1>7 DEF Authorize, Go, End, Release
<1>8. CASE Approve(r)
  BY <1>8 DEF Approve, SaveReturns, RecordAt, ActionError, Go, End, Release
<1>9. CASE Admit(r)
  BY <1>9 DEF Admit, OperationError, Go, End, Release
<1>10. CASE Dispatch(r)
  BY <1>10 DEF Dispatch, SaveReturns, RecordAt, ActionError, Go
<1>11. CASE DispatchTooLate(r)
  BY <1>11 DEF DispatchTooLate, SaveReturns, RecordAt, ActionError, Go
<1>12. CASE Abandon(r)
  BY <1>12 DEF Abandon, SaveReturns, RecordAt, ActionError, Go
<1>13. CASE SaveAbandoned(r)
  BY <1>13 DEF SaveAbandoned, Note, End, Release
<1>14. CASE CallReturns(r)
  BY <1>14 DEF CallReturns, Go, Release
<1>15. CASE EffectNotStarted(r)
  BY <1>15 DEF EffectNotStarted, Go
<1>16. CASE CallRaises(r)
  BY <1>16 DEF CallRaises, Go
<1>17. CASE SaveUnknown(r)
  BY <1>17 DEF SaveUnknown, Note, Go, End, Release
<1>18. CASE Reconcile(r)
  BY <1>18 DEF Reconcile, Note, Go, End, Release
<1>19. CASE SaveSuccess(r)
  BY <1>19 DEF SaveSuccess, Note, End, Release
<1>20. CASE SaveFailed(r)
  BY <1>20 DEF SaveFailed, Note, End, Release
<1>21. CASE Cancel(r)
  BY <1>21 DEF Cancel, Asking, Saving, Note, Go, End, Release
<1>22. CASE Serve(r)
  BY <1>22 DEF Serve
<1>23. CASE Invalidate(r)
  BY <1>23 DEF Invalidate
<1>24. CASE ChangeAction(r)
  BY <1>24 DEF ChangeAction
<1> QED BY <1>1, <1>2, <1>3, <1>4, <1>5, <1>6, <1>7, <1>8, <1>9, <1>10, <1>11, <1>12,
          <1>13, <1>14, <1>15, <1>16, <1>17, <1>18, <1>19, <1>20, <1>21, <1>22, <1>23, <1>24 DEF Step

\* ... and that the tool got the approved action: only Dispatch sets it, after
\* current_action compared digests.
LEMMA ApprovedStep ==
  ASSUME IInv, NEW r \in Runs,
         Step(r) \/ Cancel(r) \/ Serve(r) \/ Invalidate(r) \/ ChangeAction(r)
  PROVE  ApprovedActionOnly'
<1> USE DEF IInv, TypeOK, Stages, ApprovedActionOnly, BeforeDispatch
<1>1. CASE StoreTakes(r)
  BY <1>1 DEF StoreTakes, RecordAt, Saving
<1>2. CASE Prepare(r)
  BY <1>2 DEF Prepare, PrepareError, Go, End, Release
<1>3. CASE PersistProposed(r)
  BY <1>3 DEF PersistProposed, SaveReturns, RecordAt, Go
<1>4. CASE RefuseWithoutStore(r)
  BY <1>4 DEF RefuseWithoutStore, End, Release
<1>5. CASE PersistFails(r)
  BY <1>5 DEF PersistFails, SaveRaises, End, Release
<1>6. CASE Checkpoint(r)
  BY <1>6 DEF Checkpoint, Go, End, Release
<1>7. CASE Authorize(r)
  BY <1>7, SMTT(30) DEF Authorize, Go, End, Release
<1>8. CASE Approve(r)
  BY <1>8 DEF Approve, SaveReturns, RecordAt, ActionError, Go, End, Release
<1>9. CASE Admit(r)
  BY <1>9 DEF Admit, OperationError, Go, End, Release
<1>10. CASE Dispatch(r)
  BY <1>10 DEF Dispatch, SaveReturns, RecordAt, ActionError, Go
<1>11. CASE DispatchTooLate(r)
  BY <1>11 DEF DispatchTooLate, SaveReturns, RecordAt, ActionError, Go
<1>12. CASE Abandon(r)
  BY <1>12 DEF Abandon, SaveReturns, RecordAt, ActionError, Go
<1>13. CASE SaveAbandoned(r)
  BY <1>13 DEF SaveAbandoned, Note, End, Release
<1>14. CASE CallReturns(r)
  BY <1>14 DEF CallReturns, Go, Release
<1>15. CASE EffectNotStarted(r)
  BY <1>15 DEF EffectNotStarted, Go
<1>16. CASE CallRaises(r)
  BY <1>16 DEF CallRaises, Go
<1>17. CASE SaveUnknown(r)
  BY <1>17 DEF SaveUnknown, Note, Go, End, Release
<1>18. CASE Reconcile(r)
  BY <1>18 DEF Reconcile, Note, Go, End, Release
<1>19. CASE SaveSuccess(r)
  BY <1>19 DEF SaveSuccess, Note, End, Release
<1>20. CASE SaveFailed(r)
  BY <1>20 DEF SaveFailed, Note, End, Release
<1>21. CASE Cancel(r)
  BY <1>21 DEF Cancel, Asking, Saving, Note, Go, End, Release
<1>22. CASE Serve(r)
  BY <1>22 DEF Serve
<1>23. CASE Invalidate(r)
  BY <1>23 DEF Invalidate
<1>24. CASE ChangeAction(r)
  BY <1>24 DEF ChangeAction
<1> QED BY <1>1, <1>2, <1>3, <1>4, <1>5, <1>6, <1>7, <1>8, <1>9, <1>10, <1>11, <1>12,
          <1>13, <1>14, <1>15, <1>16, <1>17, <1>18, <1>19, <1>20, <1>21, <1>22, <1>23, <1>24 DEF Step

\* ... and the truth of every record: a settled state is saved only where the
\* service settled it.
LEMMA TruthfulStep ==
  ASSUME IInv, NEW r \in Runs,
         Step(r) \/ Cancel(r) \/ Serve(r) \/ Invalidate(r) \/ ChangeAction(r)
  PROVE  TruthfulRecords'
<1> USE DEF IInv, TypeOK, Stages, DurableStages, TruthfulRecords, BeforeDispatch
<1>1. CASE StoreTakes(r)
  BY <1>1 DEF StoreTakes, RecordAt, Saving
<1>2. CASE Prepare(r)
  BY <1>2 DEF Prepare, PrepareError, Go, End, Release
<1>3. CASE PersistProposed(r)
  BY <1>3 DEF PersistProposed, SaveReturns, RecordAt, Go
<1>4. CASE RefuseWithoutStore(r)
  BY <1>4 DEF RefuseWithoutStore, End, Release
<1>5. CASE PersistFails(r)
  BY <1>5 DEF PersistFails, SaveRaises, End, Release
<1>6. CASE Checkpoint(r)
  BY <1>6 DEF Checkpoint, Go, End, Release
<1>7. CASE Authorize(r)
  BY <1>7 DEF Authorize, Go, End, Release
<1>8. CASE Approve(r)
  BY <1>8 DEF Approve, SaveReturns, RecordAt, ActionError, Go, End, Release
<1>9. CASE Admit(r)
  BY <1>9 DEF Admit, OperationError, Go, End, Release
<1>10. CASE Dispatch(r)
  BY <1>10 DEF Dispatch, SaveReturns, RecordAt, ActionError, Go
<1>11. CASE DispatchTooLate(r)
  BY <1>11 DEF DispatchTooLate, SaveReturns, RecordAt, ActionError, Go
<1>12. CASE Abandon(r)
  BY <1>12 DEF Abandon, SaveReturns, RecordAt, ActionError, Go
<1>13. CASE SaveAbandoned(r)
  BY <1>13, ZenonT(60) DEF SaveAbandoned, Note, End, Release
<1>14. CASE CallReturns(r)
  BY <1>14 DEF CallReturns, Go, Release
<1>15. CASE EffectNotStarted(r)
  BY <1>15 DEF EffectNotStarted, Go
<1>16. CASE CallRaises(r)
  BY <1>16 DEF CallRaises, Go
<1>17. CASE SaveUnknown(r)
  BY <1>17 DEF SaveUnknown, Note, Go, End, Release
<1>18. CASE Reconcile(r)
  BY <1>18 DEF Reconcile, Note, Go, End, Release
<1>19. CASE SaveSuccess(r)
  BY <1>19 DEF SaveSuccess, Note, End, Release
<1>20. CASE SaveFailed(r)
  BY <1>20 DEF SaveFailed, Note, End, Release
<1>21. CASE Cancel(r)
  BY <1>21 DEF Cancel, Asking, Saving, Note, Go, End, Release
<1>22. CASE Serve(r)
  BY <1>22 DEF Serve
<1>23. CASE Invalidate(r)
  BY <1>23 DEF Invalidate
<1>24. CASE ChangeAction(r)
  BY <1>24 DEF ChangeAction
<1> QED BY <1>1, <1>2, <1>3, <1>4, <1>5, <1>6, <1>7, <1>8, <1>9, <1>10, <1>11, <1>12,
          <1>13, <1>14, <1>15, <1>16, <1>17, <1>18, <1>19, <1>20, <1>21, <1>22, <1>23, <1>24 DEF Step

\* ... and the intent ahead of the effect: only Dispatch sends, after the store
\* returned.
LEMMA WriteAheadStep ==
  ASSUME IInv, NEW r \in Runs,
         Step(r) \/ Cancel(r) \/ Serve(r) \/ Invalidate(r) \/ ChangeAction(r)
  PROVE  WriteAheadIntent'
<1> USE DEF IInv, TypeOK, Stages, DurableStages, WriteAheadIntent, BeforeDispatch
<1>1. CASE StoreTakes(r)
  BY <1>1, SMTT(30) DEF StoreTakes, RecordAt, Saving
<1>2. CASE Prepare(r)
  BY <1>2 DEF Prepare, PrepareError, Go, End, Release
<1>3. CASE PersistProposed(r)
  BY <1>3 DEF PersistProposed, SaveReturns, RecordAt, Go
<1>4. CASE RefuseWithoutStore(r)
  BY <1>4 DEF RefuseWithoutStore, End, Release
<1>5. CASE PersistFails(r)
  BY <1>5 DEF PersistFails, SaveRaises, End, Release
<1>6. CASE Checkpoint(r)
  BY <1>6 DEF Checkpoint, Go, End, Release
<1>7. CASE Authorize(r)
  BY <1>7 DEF Authorize, Go, End, Release
<1>8. CASE Approve(r)
  BY <1>8 DEF Approve, SaveReturns, RecordAt, ActionError, Go, End, Release
<1>9. CASE Admit(r)
  BY <1>9 DEF Admit, OperationError, Go, End, Release
<1>10. CASE Dispatch(r)
  BY <1>10 DEF Dispatch, SaveReturns, RecordAt, ActionError, Go
<1>11. CASE DispatchTooLate(r)
  BY <1>11 DEF DispatchTooLate, SaveReturns, RecordAt, ActionError, Go
<1>12. CASE Abandon(r)
  BY <1>12 DEF Abandon, SaveReturns, RecordAt, ActionError, Go
<1>13. CASE SaveAbandoned(r)
  BY <1>13 DEF SaveAbandoned, Note, End, Release
<1>14. CASE CallReturns(r)
  BY <1>14 DEF CallReturns, Go, Release
<1>15. CASE EffectNotStarted(r)
  BY <1>15 DEF EffectNotStarted, Go
<1>16. CASE CallRaises(r)
  BY <1>16 DEF CallRaises, Go
<1>17. CASE SaveUnknown(r)
  BY <1>17 DEF SaveUnknown, Note, Go, End, Release
<1>18. CASE Reconcile(r)
  BY <1>18 DEF Reconcile, Note, Go, End, Release
<1>19. CASE SaveSuccess(r)
  BY <1>19 DEF SaveSuccess, Note, End, Release
<1>20. CASE SaveFailed(r)
  BY <1>20 DEF SaveFailed, Note, End, Release
<1>21. CASE Cancel(r)
  BY <1>21 DEF Cancel, Asking, Saving, Note, Go, End, Release
<1>22. CASE Serve(r)
  BY <1>22 DEF Serve
<1>23. CASE Invalidate(r)
  BY <1>23 DEF Invalidate
<1>24. CASE ChangeAction(r)
  BY <1>24 DEF ChangeAction
<1> QED BY <1>1, <1>2, <1>3, <1>4, <1>5, <1>6, <1>7, <1>8, <1>9, <1>10, <1>11, <1>12,
          <1>13, <1>14, <1>15, <1>16, <1>17, <1>18, <1>19, <1>20, <1>21, <1>22, <1>23, <1>24 DEF Step

\* The invariant holds before the first await.
LEMMA Initially == Init => IInv
BY HostAssumption, BoundsAssumption
   DEF Init, IInv, TypeOK, Stages, DurableStages, ApprovedActionOnly, TruthfulRecords,
       WriteAheadIntent, Versions, NoVersion, NoGrant, Outcomes, Intents, Awaits, BeforeDispatch

\* Every step of the specification keeps the invariant.
LEMMA StepKeepsIInv == IInv /\ [Next]_vars => IInv'
<1> SUFFICES ASSUME IInv, [Next]_vars PROVE IInv'
  OBVIOUS
<1>1. CASE \E r \in Runs : Step(r) \/ Cancel(r) \/ Serve(r) \/ Invalidate(r) \/ ChangeAction(r)
  <2> PICK r \in Runs :
        Step(r) \/ Cancel(r) \/ Serve(r) \/ Invalidate(r) \/ ChangeAction(r)
    BY <1>1
  <2> QED
    BY TypeStep, StageStep, DurableStep, ApprovedStep, TruthfulStep, WriteAheadStep DEF IInv
<1>2. CASE Tick
  <2>1. TypeOK'
    BY <1>2, BoundsAssumption DEF Tick, IInv, TypeOK
  <2> QED
    BY <1>2, <2>1 DEF Tick, IInv, Stages, DurableStages, ApprovedActionOnly,
                      TruthfulRecords, WriteAheadIntent
<1>3. CASE UNCHANGED vars
  BY <1>3 DEF vars, IInv, TypeOK, Stages, DurableStages, ApprovedActionOnly,
              TruthfulRecords, WriteAheadIntent
<1> QED BY <1>1, <1>2, <1>3 DEF Next, Finished

\* The inductive invariant of the mutation path (runtime.py: _execute_mutation).
THEOREM Invariance == Spec => []IInv
BY Initially, StepKeepsIInv, PTL DEF Spec

\* Every variable keeps its type, for all constants.
THEOREM TypeCorrect == Spec => []TypeOK
BY Invariance, PTL DEF IInv

\* Whatever may have taken effect has a durable record that says so, at every
\* instant, so a crash at any point loses no effect (_persist_write of IN_FLIGHT
\* before _call).
THEOREM IntentWrittenAhead == Spec => []WriteAheadIntent
BY Invariance, PTL DEF IInv

\* The tool is only ever called with the proposed and permitted action (the
\* digest comparison in current_action).
THEOREM OnlyApprovedActions == Spec => []ApprovedActionOnly
BY Invariance, PTL DEF IInv

\* No record, durable or in the run, and no result claims what did not happen
\* (the receipts and the reconciliation of _execute_mutation).
THEOREM RecordsAreTrue == Spec => []TruthfulRecords
BY Invariance, PTL DEF IInv

\* What a dispatch of r requires, as a step.
Revalidated(r) ==
  wire[r] = "idle" /\ wire'[r] # "idle" =>
    /\ fresh[r] /\ live[r] = proposal[r]
    /\ now < Deadline /\ now < grant[r].expires
    /\ "intent_store" \in host => durable[r] = "in_flight"

\* A request leaves only in Dispatch, which has just evaluated current_action.
LEMMA StepRevalidates ==
  ASSUME IInv, [Next]_vars, NEW r \in Runs
  PROVE  Revalidated(r)
<1>1. ASSUME NEW s \in Runs, Dispatch(s)
      PROVE  Revalidated(r)
  <2>1. now < Deadline /\ fresh[s] /\ live[s] = proposal[s] /\ now < grant[s].expires
    <3>1. ActionError(s) = "none"
      BY <1>1 DEF Dispatch
    <3>2. fresh[s] \in BOOLEAN /\ now \in Int /\ Deadline \in Int
      BY BoundsAssumption DEF IInv, TypeOK
    <3> QED BY <3>1, <3>2 DEF ActionError
  <2>2. "intent_store" \in host => durable[s] = "in_flight"
    BY <1>1 DEF Dispatch, SaveReturns, RecordAt
  <2>3. r # s => wire'[r] = wire[r]
    BY <1>1 DEF Dispatch, IInv, TypeOK
  <2> QED BY <2>1, <2>2, <2>3 DEF Revalidated
<1>2. ASSUME NEW s \in Runs, Serve(s)
      PROVE  Revalidated(r)
  BY <1>2 DEF IInv, TypeOK, Revalidated, Serve
<1>3. ASSUME UNCHANGED wire
      PROVE  Revalidated(r)
  BY <1>3 DEF Revalidated
<1> QED BY <1>1, <1>2, <1>3
  DEF Next, Step, vars, Tick, Finished, StoreTakes, Prepare, PersistProposed, RefuseWithoutStore,
      PersistFails, Checkpoint, Authorize, Approve, Admit, DispatchTooLate, Abandon,
      SaveAbandoned, CallReturns, EffectNotStarted, CallRaises, SaveUnknown, Reconcile,
      SaveSuccess, SaveFailed, Cancel, Invalidate, ChangeAction

\* At the dispatch, all the authorization rested on still holds (the recheck
\* after IN_FLIGHT is persisted).
THEOREM DispatchIsRevalidated == Spec => DispatchRevalidated
<1>1. IInv /\ [Next]_vars => [\A r \in Runs : Revalidated(r)]_vars
  BY StepRevalidates
<1> QED BY <1>1, Invariance, PTL DEF Spec, DispatchRevalidated, Revalidated

-----------------------------------------------------------------------------
\* Every host of the instance supplies an intent store.
StoreAlways == \A h \in HostChoices : "intent_store" \in h

\* With a store, each step of the mutation path is a step of the lifecycle of one
\* write, or changes neither the durable record nor the effect.
LEMMA StepRefines ==
  ASSUME IInv, "intent_store" \in host, [Next]_vars
  PROVE  [Lifecycle!Next]_(Lifecycle!vars)
<1> USE DEF IInv, TypeOK, Lifecycle!vars
<1>1. ASSUME NEW r \in Runs, StoreTakes(r)
      PROVE  Lifecycle!Next
  <2> USE <1>1 DEF StoreTakes, RecordAt, Saving, DurableStages, Stages, Lifecycle!Record
  <2>1. CASE pc[r] = "propose"
    <3>1. Lifecycle!Propose(r)
      BY <2>1 DEF Lifecycle!Propose
    <3> QED BY <3>1 DEF Lifecycle!Next
  <2>2. CASE pc[r] = "approve"
    <3>1. Lifecycle!Authorize(r)
      BY <2>2 DEF Lifecycle!Authorize
    <3> QED BY <3>1 DEF Lifecycle!Next
  <2>3. CASE pc[r] = "intent"
    <3>1. Lifecycle!Start(r)
      BY <2>3 DEF Lifecycle!Start
    <3> QED BY <3>1 DEF Lifecycle!Next
  <2>4. CASE pc[r] = "save_unknown"
    <3>1. Lifecycle!Lose(r)
      BY <2>4 DEF Lifecycle!Lose
    <3> QED BY <3>1 DEF Lifecycle!Next
  <2>5. CASE pc[r] = "save_success"
    <3>1. Lifecycle!Succeed(r)
      BY <2>5 DEF Lifecycle!Succeed
    <3> QED BY <3>1 DEF Lifecycle!Next
  <2>6. CASE pc[r] \in {"abandon", "save_failed"}
    <3>1. Lifecycle!Fail(r)
      BY <2>6 DEF Lifecycle!Fail, BeforeDispatch
    <3> QED BY <3>1 DEF Lifecycle!Next
  <2> QED BY <2>1, <2>2, <2>3, <2>4, <2>5, <2>6
<1>2. ASSUME NEW r \in Runs, Dispatch(r)
      PROVE  Lifecycle!Next
  <2>1. Lifecycle!Send(r)
    BY <1>2 DEF Dispatch, SaveReturns, RecordAt, Stages, BeforeDispatch, Lifecycle!Send
  <2> QED BY <2>1 DEF Lifecycle!Next
<1>3. ASSUME NEW r \in Runs, Serve(r)
      PROVE  Lifecycle!Next
  <2>1. Lifecycle!Serve(r)
    BY <1>3 DEF Serve, Lifecycle!Serve
  <2> QED BY <2>1 DEF Lifecycle!Next
<1>4. ASSUME UNCHANGED <<durable, wire>>
      PROVE  UNCHANGED Lifecycle!vars
  BY <1>4
<1> QED BY <1>1, <1>2, <1>3, <1>4
  DEF Next, Step, vars, Tick, Finished, Prepare, PersistProposed, RefuseWithoutStore,
      PersistFails, Checkpoint, Authorize, Approve, Admit, DispatchTooLate, Abandon,
      SaveAbandoned, CallReturns, EffectNotStarted, CallRaises, SaveUnknown, Reconcile,
      SaveSuccess, SaveFailed, Cancel, Invalidate, ChangeAction

\* A host does not change during a run.
LEMMA HostIsFixed ==
  ASSUME [Next]_vars
  PROVE  host' = host
BY DEF Next, Step, vars, Tick, Finished, StoreTakes, Prepare, PersistProposed, RefuseWithoutStore,
      PersistFails, Checkpoint, Authorize, Approve, Admit, Dispatch, DispatchTooLate, Abandon,
      SaveAbandoned, CallReturns, EffectNotStarted, CallRaises, SaveUnknown, Reconcile,
      SaveSuccess, SaveFailed, Cancel, Serve, Invalidate, ChangeAction

\* With an intent store, the mutation path implements WriteLifecycle.
THEOREM StoredWritesFollowLifecycle ==
  ASSUME StoreAlways
  PROVE  Spec => ImplementsLifecycle
<1>1. Init => "intent_store" \in host /\ Lifecycle!Init
  BY DEF StoreAlways, Init, Lifecycle!Init
<1>2. "intent_store" \in host /\ [Next]_vars => ("intent_store" \in host)'
  BY HostIsFixed
<1>3. IInv /\ "intent_store" \in host /\ [Next]_vars => [Lifecycle!Next]_(Lifecycle!vars)
  BY StepRefines
<1> QED BY <1>1, <1>2, <1>3, Invariance, PTL DEF Spec, ImplementsLifecycle, Lifecycle!Spec

-----------------------------------------------------------------------------
\* The permits and the ledger's slots of the tasks inside the block.
InBlock == {"intent", "abandon", "calling", "reconcile",
            "save_unknown", "save_success", "save_failed"}

SlotCount ==
  /\ IsFiniteSet(slot) /\ IsFiniteSet(active)
  /\ Cardinality(slot) = Cardinality(active)
  /\ Cardinality(active) <= ConcurrentOperations
  /\ slot \subseteq Runs
  /\ active = {OperationOf[r] : r \in slot}
  /\ \A r, s \in slot : OperationOf[r] = OperationOf[s] => r = s

SlotStages ==
  /\ \A r \in slot : pc[r] \in InBlock
  /\ \A r \in Runs : pc[r] \in {"intent", "abandon", "calling"} => r \in slot

\* A key is used once: by the task that holds its slot or has dispatched it.
Claims(r) == r \in slot \/ wire[r] # "idle"

KeysUsedOnce ==
  \A r \in Runs :
    Claims(r) => /\ OperationOf[r] \in operations
                 /\ \A s \in Runs : Claims(s) /\ OperationOf[s] = OperationOf[r] => s = r

SlotInv == SlotCount /\ SlotStages /\ KeysUsedOnce

\* Leaving the block returns the permit and the slot together.
LEMMA ReleaseKeepsCount ==
  ASSUME SlotCount, NEW r \in Runs, Release(r)
  PROVE  SlotCount'
<1>1. CASE r \notin slot
  BY <1>1 DEF SlotCount, Release
<1>2. CASE r \in slot
  <2>1. slot' = slot \ {r} /\ active' = active \ {OperationOf[r]} /\ OperationOf[r] \in active
    BY <1>2 DEF SlotCount, Release
  <2>2. /\ IsFiniteSet(slot') /\ Cardinality(slot') = Cardinality(slot) - 1
        /\ IsFiniteSet(active') /\ Cardinality(active') = Cardinality(active) - 1
    BY <1>2, <2>1, FS_RemoveElement DEF SlotCount
  <2>3. Cardinality(active) \in Nat /\ Cardinality(slot) \in Nat
    BY FS_CardinalityType DEF SlotCount
  <2>4. active' = {OperationOf[s] : s \in slot'}
    BY <1>2, <2>1 DEF SlotCount
  <2>5. Cardinality(active') = Cardinality(slot') /\ Cardinality(active') <= ConcurrentOperations
    BY <2>2, <2>3, LimitsAssumption DEF SlotCount
  <2> QED BY <2>1, <2>2, <2>4, <2>5 DEF SlotCount
<1> QED BY <1>1, <1>2

\* Entering it takes both, when the ledger has room and the id is new.
LEMMA EnterKeepsCount ==
  ASSUME SlotCount, NEW r \in Runs, OperationOf[r] \notin active,
         Cardinality(active) < ConcurrentOperations,
         slot' = slot \cup {r}, active' = active \cup {OperationOf[r]}
  PROVE  SlotCount'
<1>1. r \notin slot
  BY DEF SlotCount
<1>2. /\ IsFiniteSet(slot') /\ Cardinality(slot') = Cardinality(slot) + 1
      /\ IsFiniteSet(active') /\ Cardinality(active') = Cardinality(active) + 1
  BY <1>1, FS_AddElement DEF SlotCount
<1>3. Cardinality(active) \in Nat /\ Cardinality(slot) \in Nat
  BY FS_CardinalityType DEF SlotCount
<1>4. active' = {OperationOf[s] : s \in slot'}
  BY <1>1 DEF SlotCount
<1>5. \A t, s \in slot' : OperationOf[t] = OperationOf[s] => t = s
  BY <1>1 DEF SlotCount
<1> QED BY <1>1, <1>2, <1>3, <1>4, <1>5, LimitsAssumption DEF SlotCount

\* No task holds a permit at the start.
LEMMA SlotInitially == Init => SlotInv
BY FS_EmptySet, LimitsAssumption
   DEF Init, SlotInv, SlotCount, SlotStages, KeysUsedOnce, Claims

\* Ending the node gives back what it held.
LEMMA EndKeepsSlots ==
  ASSUME TypeOK, SlotInv, NEW r \in Runs, NEW how, End(r, how),
         wire' = wire, operations \subseteq operations'
  PROVE  SlotInv'
<1>1. SlotCount' /\ slot' \subseteq slot \ {r} /\ slot \ {r} \subseteq slot'
  BY ReleaseKeepsCount DEF End, Release, SlotInv
<1>2. SlotStages'
  BY <1>1 DEF End, TypeOK, SlotInv, SlotStages
<1>3. KeysUsedOnce'
  BY <1>1 DEF SlotInv, KeysUsedOnce, Claims
<1> QED BY <1>1, <1>2, <1>3 DEF SlotInv

\* Moving between awaits holds what it held: inside the block, or outside it.
LEMMA GoKeepsSlots ==
  ASSUME TypeOK, SlotInv, NEW r \in Runs, NEW to, Go(r, to), UNCHANGED gate,
         wire' = wire, operations \subseteq operations',
         r \in slot => to \in InBlock,
         to \in {"intent", "abandon", "calling"} => r \in slot
  PROVE  SlotInv'
<1>1. SlotCount'
  BY DEF SlotInv, SlotCount
<1>2. SlotStages'
  BY DEF Go, TypeOK, SlotInv, SlotStages
<1>3. KeysUsedOnce'
  BY DEF SlotInv, KeysUsedOnce, Claims
<1> QED BY <1>1, <1>2, <1>3 DEF SlotInv

\* Each step of a task keeps permits, slots and keys in agreement.
LEMMA SlotStep ==
  ASSUME TypeOK, SlotInv, NEW r \in Runs,
         Step(r) \/ Cancel(r) \/ Serve(r) \/ Invalidate(r) \/ ChangeAction(r)
  PROVE  SlotInv'
<1>0. pc[r] \notin InBlock => r \notin slot
  BY DEF SlotInv, SlotStages
<1>1. CASE Prepare(r)
  BY <1>1, <1>0, EndKeepsSlots, GoKeepsSlots DEF Prepare, InBlock
<1>2. CASE PersistProposed(r)
  BY <1>2, <1>0, EndKeepsSlots, GoKeepsSlots DEF PersistProposed, InBlock
<1>3. CASE RefuseWithoutStore(r)
  BY <1>3, EndKeepsSlots DEF RefuseWithoutStore
<1>4. CASE PersistFails(r)
  BY <1>4, EndKeepsSlots DEF PersistFails
<1>5. CASE Checkpoint(r)
  BY <1>5, <1>0, EndKeepsSlots, GoKeepsSlots DEF Checkpoint, InBlock
<1>6. CASE Authorize(r)
  BY <1>6, <1>0, EndKeepsSlots, GoKeepsSlots DEF Authorize, InBlock
<1>7. CASE Approve(r)
  BY <1>7, <1>0, EndKeepsSlots, GoKeepsSlots DEF Approve, InBlock
<1>8. CASE SaveAbandoned(r)
  BY <1>8, EndKeepsSlots DEF SaveAbandoned
<1>9. CASE SaveUnknown(r)
  BY <1>9, <1>0, EndKeepsSlots, GoKeepsSlots DEF SaveUnknown, InBlock
<1>10. CASE Reconcile(r)
  BY <1>10, <1>0, EndKeepsSlots, GoKeepsSlots DEF Reconcile, InBlock
<1>11. CASE SaveSuccess(r)
  BY <1>11, EndKeepsSlots DEF SaveSuccess
<1>12. CASE SaveFailed(r)
  BY <1>12, EndKeepsSlots DEF SaveFailed
<1>13. CASE Cancel(r)
  BY <1>13, <1>0, EndKeepsSlots, GoKeepsSlots DEF Cancel, InBlock
<1> USE DEF SlotInv, TypeOK, SlotCount, SlotStages, KeysUsedOnce, Claims, InBlock
<1>14. CASE StoreTakes(r)
  <2>1. SlotCount'
    BY <1>14 DEF StoreTakes
  <2>2. SlotStages'
    BY <1>14 DEF StoreTakes, Saving
  <2>3. KeysUsedOnce'
    BY <1>14 DEF StoreTakes, Saving
  <2> QED BY <2>1, <2>2, <2>3
<1>15. CASE Admit(r)
  <2>1. CASE pc'[r] = "intent"
    <3>1. /\ OperationOf[r] \notin operations /\ operations' = operations \cup {OperationOf[r]}
          /\ slot' = slot \cup {r} /\ active' = active \cup {OperationOf[r]}
          /\ pc' = [pc EXCEPT ![r] = "intent"] /\ wire' = wire
      BY <1>15, <2>1 DEF Admit, OperationError, Go, End
    <3>2. active \subseteq operations
      OBVIOUS
    <3>3. Cardinality(active) < ConcurrentOperations
      BY <1>15, <2>1, LimitsAssumption, FS_CardinalityType DEF Admit, OperationError, End
    <3>4. SlotCount'
      BY <3>1, <3>2, <3>3, EnterKeepsCount
    <3> QED BY <3>1, <3>4
  <2>2. CASE pc'[r] # "intent"
    <3>1. (\E how : End(r, how)) /\ operations \subseteq operations' /\ wire' = wire
      BY <1>15, <2>2 DEF Admit, Go
    <3> QED BY <3>1, EndKeepsSlots
  <2> QED BY <2>1, <2>2
<1>16. CASE Dispatch(r)
  <2>1. SlotCount'
    BY <1>16 DEF Dispatch
  <2>2. SlotStages'
    BY <1>16 DEF Dispatch, Go
  <2>3. KeysUsedOnce'
    BY <1>16 DEF Dispatch, Go
  <2> QED BY <2>1, <2>2, <2>3
<1>17. CASE DispatchTooLate(r)
  <2>1. SlotCount'
    BY <1>17 DEF DispatchTooLate
  <2>2. SlotStages'
    BY <1>17 DEF DispatchTooLate, Go
  <2>3. KeysUsedOnce'
    BY <1>17 DEF DispatchTooLate, Go
  <2> QED BY <2>1, <2>2, <2>3
<1>18. CASE Abandon(r)
  <2>1. SlotCount'
    BY <1>18 DEF Abandon
  <2>2. SlotStages'
    BY <1>18 DEF Abandon, Go
  <2>3. KeysUsedOnce'
    BY <1>18 DEF Abandon, Go
  <2> QED BY <2>1, <2>2, <2>3
<1>19. CASE CallReturns(r)
  <2>1. SlotCount'
    BY <1>19, ReleaseKeepsCount DEF CallReturns, Go, End
  <2>2. SlotStages'
    BY <1>19 DEF CallReturns, Go, Release
  <2>3. KeysUsedOnce'
    BY <1>19 DEF CallReturns, Go, Release
  <2> QED BY <2>1, <2>2, <2>3
<1>20. CASE EffectNotStarted(r)
  <2>1. SlotCount'
    BY <1>20 DEF EffectNotStarted
  <2>2. SlotStages'
    BY <1>20 DEF EffectNotStarted, Go
  <2>3. KeysUsedOnce'
    BY <1>20 DEF EffectNotStarted, Go
  <2> QED BY <2>1, <2>2, <2>3
<1>21. CASE CallRaises(r)
  <2>1. SlotCount'
    BY <1>21 DEF CallRaises
  <2>2. SlotStages'
    BY <1>21 DEF CallRaises, Go
  <2>3. KeysUsedOnce'
    BY <1>21 DEF CallRaises, Go
  <2> QED BY <2>1, <2>2, <2>3
<1>22. CASE Serve(r)
  <2>1. SlotCount'
    BY <1>22 DEF Serve
  <2>2. SlotStages'
    BY <1>22 DEF Serve
  <2>3. KeysUsedOnce'
    BY <1>22 DEF Serve
  <2> QED BY <2>1, <2>2, <2>3
<1>23. CASE Invalidate(r)
  <2>1. SlotCount'
    BY <1>23 DEF Invalidate
  <2>2. SlotStages'
    BY <1>23 DEF Invalidate
  <2>3. KeysUsedOnce'
    BY <1>23 DEF Invalidate
  <2> QED BY <2>1, <2>2, <2>3
<1>24. CASE ChangeAction(r)
  <2>1. SlotCount'
    BY <1>24 DEF ChangeAction
  <2>2. SlotStages'
    BY <1>24 DEF ChangeAction
  <2>3. KeysUsedOnce'
    BY <1>24 DEF ChangeAction
  <2> QED BY <2>1, <2>2, <2>3
<1> QED BY <1>1, <1>2, <1>3, <1>4, <1>5, <1>6, <1>7, <1>8, <1>9, <1>10, <1>11, <1>12,
          <1>13, <1>14, <1>15, <1>16, <1>17, <1>18, <1>19, <1>20, <1>21, <1>22, <1>23, <1>24 DEF Step

\* ... and so does every step of the specification.
LEMMA StepKeepsSlots == TypeOK /\ SlotInv /\ [Next]_vars => SlotInv'
<1> SUFFICES ASSUME TypeOK, SlotInv, [Next]_vars PROVE SlotInv'
  OBVIOUS
<1>1. CASE \E r \in Runs : Step(r) \/ Cancel(r) \/ Serve(r) \/ Invalidate(r) \/ ChangeAction(r)
  BY <1>1, SlotStep
<1>2. CASE UNCHANGED <<pc, slot, active, operations, wire>>
  BY <1>2 DEF SlotInv, SlotCount, SlotStages, KeysUsedOnce, Claims
<1> QED BY <1>1, <1>2 DEF Next, Tick, Finished, vars

\* The inductive invariant of admission (Runtime._semaphore and
\* UsageLedger.operation).
THEOREM SlotsInvariance == Spec => []SlotInv
BY TypeCorrect, SlotInitially, StepKeepsSlots, PTL DEF Spec

\* Neither permits nor slots leak or exceed their limit, on any path out of the
\* block, cancellation included ("async with" in _execute_mutation).
THEOREM SlotsAreSound == Spec => []SlotsMatch
<1>1. SlotInv => SlotsMatch
  BY DEF SlotInv, SlotCount, SlotStages, InBlock, SlotsMatch
<1> QED BY <1>1, SlotsInvariance, PTL

\* One idempotency key reaches the service once, however many tasks and Runtimes
\* use it (UsageLedger.operation never admits an id again).
THEOREM KeysDispatchOnce == Spec => []OneDispatchPerOperation
<1>1. SlotInv => OneDispatchPerOperation
  BY DEF SlotInv, KeysUsedOnce, Claims, OneDispatchPerOperation
<1> QED BY <1>1, SlotsInvariance, PTL

-----------------------------------------------------------------------------
\* A slot is only held by what was counted.
AdmissionInv ==
  /\ IsFiniteSet(writes) /\ IsFiniteSet(toolAttempts)
  /\ \A r \in slot : OperationOf[r] \in writes \cap toolAttempts
  /\ DispatchesAdmitted

\* Admission keeps the counts within their limits.
LEMMA AdmitKeepsLimits ==
  ASSUME AdmissionInv, NEW r \in Runs, Admit(r)
  PROVE  /\ IsFiniteSet(writes') /\ IsFiniteSet(toolAttempts')
         /\ Cardinality(writes') <= WriteLimit /\ Cardinality(toolAttempts') <= ToolAttempts
<1> DEFINE op == OperationOf[r]
<1>1. /\ Cardinality(writes) \in Nat /\ Cardinality(toolAttempts) \in Nat
      /\ op \notin writes => Cardinality(writes \cup {op}) = Cardinality(writes) + 1
      /\ op \notin toolAttempts => Cardinality(toolAttempts \cup {op}) = Cardinality(toolAttempts) + 1
      /\ IsFiniteSet(writes \cup {op}) /\ IsFiniteSet(toolAttempts \cup {op})
  BY FS_AddElement, FS_CardinalityType DEF AdmissionInv
<1>2. /\ op \in writes => writes \cup {op} = writes
      /\ op \in toolAttempts => toolAttempts \cup {op} = toolAttempts
  OBVIOUS
<1>3. \/ writes' = writes
      \/ writes' = writes \cup {op} /\ WritesLeft(r)
  BY DEF Admit
<1>4. \/ toolAttempts' = toolAttempts
      \/ toolAttempts' = toolAttempts \cup {op} /\ ToolsLeft(r)
  BY DEF Admit
<1>5. IsFiniteSet(writes') /\ Cardinality(writes') <= WriteLimit
  <2>1. CASE writes' = writes
    BY <2>1 DEF AdmissionInv, DispatchesAdmitted
  <2>2. CASE op \notin writes /\ writes' = writes \cup {op} /\ WritesLeft(r)
    <3>1. Cardinality(writes) < WriteLimit
      BY <2>2 DEF WritesLeft
    <3>2. IsFiniteSet(writes') /\ Cardinality(writes') = Cardinality(writes) + 1
      BY <1>1, <2>2
    <3> QED BY <1>1, <3>1, <3>2, LimitsAssumption
  <2> QED BY <1>2, <1>3, <2>1, <2>2
<1>6. IsFiniteSet(toolAttempts') /\ Cardinality(toolAttempts') <= ToolAttempts
  <2>1. CASE toolAttempts' = toolAttempts
    BY <2>1 DEF AdmissionInv, DispatchesAdmitted
  <2>2. CASE op \notin toolAttempts /\ toolAttempts' = toolAttempts \cup {op} /\ ToolsLeft(r)
    <3>1. Cardinality(toolAttempts) < ToolAttempts
      BY <2>2 DEF ToolsLeft
    <3>2. IsFiniteSet(toolAttempts') /\ Cardinality(toolAttempts') = Cardinality(toolAttempts) + 1
      BY <1>1, <2>2, SMTT(30)
    <3> QED BY <1>1, <3>1, <3>2, LimitsAssumption
  <2> QED BY <1>2, <1>4, <2>1, <2>2
<1> QED BY <1>5, <1>6

\* Every step keeps the counts, and dispatches only what was counted.
LEMMA StepKeepsAdmissions == TypeOK /\ SlotInv /\ AdmissionInv /\ [Next]_vars => AdmissionInv'
<1> SUFFICES ASSUME TypeOK, SlotInv, AdmissionInv, [Next]_vars PROVE AdmissionInv'
  OBVIOUS
<1> USE DEF AdmissionInv, DispatchesAdmitted
<1>1. ASSUME NEW r \in Runs, Admit(r)
      PROVE  AdmissionInv'
  <2>1. /\ writes \subseteq writes' /\ toolAttempts \subseteq toolAttempts' /\ wire' = wire
        /\ \/ slot' \subseteq slot
           \/ slot' = slot \cup {r} /\ OperationOf[r] \in writes' \cap toolAttempts'
    BY <1>1 DEF Admit, End, Go, Release
  <2> QED BY <1>1, <2>1, AdmitKeepsLimits
<1>2. ASSUME NEW r \in Runs, Dispatch(r)
      PROVE  AdmissionInv'
  <2>1. r \in slot
    BY <1>2 DEF Dispatch, SlotInv, SlotStages
  <2> QED BY <1>2, <2>1 DEF Dispatch, TypeOK
<1>3. ASSUME NEW r \in Runs, Serve(r)
      PROVE  AdmissionInv'
  BY <1>3 DEF Serve, TypeOK
<1>4. ASSUME slot' \subseteq slot, UNCHANGED <<wire, writes, toolAttempts>>
      PROVE  AdmissionInv'
  BY <1>4
<1> QED BY <1>1, <1>2, <1>3, <1>4
  DEF Next, Step, vars, Tick, Finished, StoreTakes, Prepare, PersistProposed, RefuseWithoutStore,
      PersistFails, Checkpoint, Authorize, Approve, DispatchTooLate, Abandon, SaveAbandoned,
      CallReturns, EffectNotStarted, CallRaises, SaveUnknown, Reconcile, SaveSuccess,
      SaveFailed, Cancel, Invalidate, ChangeAction, Go, End, Release

\* Whatever reached a tool was counted first and the counts stay within RunLimits
\* (admit_tool_attempt, admit_write).
THEOREM DispatchesAreAdmitted == Spec => []DispatchesAdmitted
<1>1. Init => AdmissionInv
  BY FS_EmptySet, LimitsAssumption DEF Init, AdmissionInv, DispatchesAdmitted
<1>2. AdmissionInv => DispatchesAdmitted
  BY DEF AdmissionInv
<1> QED BY <1>1, <1>2, StepKeepsAdmissions, TypeCorrect, SlotsInvariance, PTL DEF Spec

-----------------------------------------------------------------------------
\* Behind a permit, a Runtime alone with its ledger finds a slot.
LEMMA SoleRuntimeEnters ==
  ASSUME SlotInv, NEW r \in Runs, \A s, t \in Runs : RuntimeOf[s] = RuntimeOf[t], PermitFree(r)
  PROVE  OperationError(r) # "busy"
<1>1. {s \in slot : RuntimeOf[s] = RuntimeOf[r]} = slot
  BY DEF SlotInv, SlotCount
<1>2. Cardinality(active) < ConcurrentOperations
  BY <1>1 DEF PermitFree, SlotInv, SlotCount
<1>3. Cardinality(active) \in Nat
  BY FS_CardinalityType DEF SlotInv, SlotCount
<1> QED BY <1>2, <1>3, LimitsAssumption DEF OperationError

\* Only Admit can end a task as refused for concurrency.
LEMMA StepKeepsEntering ==
  IInv /\ SlotInv /\ SoleRuntimeNeverRefused /\ [Next]_vars => SoleRuntimeNeverRefused'
<1> SUFFICES ASSUME IInv, SlotInv, SoleRuntimeNeverRefused, [Next]_vars,
                    \A s, t \in Runs : RuntimeOf[s] = RuntimeOf[t], NEW r \in Runs
             PROVE  outcome'[r] # "busy"
  BY DEF SoleRuntimeNeverRefused
<1>0. outcome[r] # "busy" /\ outcome \in [Runs -> Outcomes]
  BY DEF SoleRuntimeNeverRefused, IInv, TypeOK
<1>1. ASSUME NEW s \in Runs, NEW how, how # "busy", End(s, how)
      PROVE  outcome'[r] # "busy"
  BY <1>0, <1>1 DEF End
<1>2. ASSUME NEW s \in Runs, Admit(s)
      PROVE  outcome'[r] # "busy"
  BY <1>0, <1>1, <1>2, SoleRuntimeEnters DEF Admit, Go
<1>3. ASSUME NEW s \in Runs, Prepare(s)
      PROVE  outcome'[r] # "busy"
  BY <1>0, <1>1, <1>3, ErrorsAreOutcomes DEF Prepare, Go
<1>4. ASSUME NEW s \in Runs, Approve(s)
      PROVE  outcome'[r] # "busy"
  BY <1>0, <1>1, <1>4, ErrorsAreOutcomes DEF Approve, Go
<1>5. ASSUME NEW s \in Runs, SaveAbandoned(s)
      PROVE  outcome'[r] # "busy"
  BY <1>0, <1>1, <1>5 DEF SaveAbandoned, IInv, Stages
<1>6. ASSUME NEW s \in Runs,
             \/ RefuseWithoutStore(s) \/ PersistFails(s) \/ Checkpoint(s) \/ Authorize(s)
             \/ SaveUnknown(s) \/ Reconcile(s) \/ SaveSuccess(s) \/ SaveFailed(s) \/ Cancel(s)
      PROVE  outcome'[r] # "busy"
  BY <1>0, <1>1, <1>6 DEF RefuseWithoutStore, PersistFails, Checkpoint, Authorize, SaveUnknown,
     Reconcile, SaveSuccess, SaveFailed, Cancel, Go
<1>7. CASE UNCHANGED outcome
  BY <1>0, <1>7
<1> QED BY <1>2, <1>3, <1>4, <1>5, <1>6, <1>7
  DEF Next, Step, vars, Tick, Finished, StoreTakes, PersistProposed, Dispatch, DispatchTooLate,
      Abandon, CallReturns, EffectNotStarted, CallRaises, Serve, Invalidate, ChangeAction, Go

\* A Runtime alone with its ledger makes concurrent writes wait and never has
\* them refused (the semaphore is acquired before UsageLedger.operation and
\* released after it).
THEOREM SoleRuntimeWaits == Spec => []SoleRuntimeNeverRefused
<1>1. Init => SoleRuntimeNeverRefused
  BY DEF Init, SoleRuntimeNeverRefused
<1> QED BY <1>1, StepKeepsEntering, Invariance, SlotsInvariance, PTL DEF Spec

-----------------------------------------------------------------------------
(* What the lifecycle of a durable write is worth. *)

\* Both promises together with the types are inductive.
Trusted == Lifecycle!TypeOK /\ Lifecycle!WriteAhead /\ Lifecycle!Truthful

USE DEF Trusted, Lifecycle!TypeOK, Lifecycle!Intents, Lifecycle!Effects

\* Nothing is recorded and nothing was sent.
LEMMA TrustedInitially == Lifecycle!Init => Trusted
  BY DEF Lifecycle!Init, Lifecycle!WriteAhead, Lifecycle!Truthful

\* A new record says nothing wrong of the effect as it stands.
LEMMA RecordKeepsTrust ==
  ASSUME Trusted, NEW w \in Runs, NEW from \in SUBSET Lifecycle!Intents, NEW to \in Lifecycle!Intents,
         Lifecycle!Record(w, from, to),
         wire[w] \in {"sent", "applied"} => to \in {"in_flight", "succeeded", "unknown"},
         to = "succeeded" => wire[w] = "applied",
         to = "failed" => wire[w] \in {"idle", "dropped"}
  PROVE  Trusted'
<1>1. Lifecycle!TypeOK'
  BY DEF Lifecycle!Record
<1>2. \A v \in Runs : v # w => durable'[v] = durable[v]
  BY DEF Lifecycle!Record
<1>3. durable'[w] = to /\ wire' = wire
  BY DEF Lifecycle!Record
<1> QED BY <1>1, <1>2, <1>3 DEF Lifecycle!WriteAhead, Lifecycle!Truthful

\* A service touches one request, whose write is in flight, lost or settled.
LEMMA EffectKeepsTrust ==
  ASSUME Trusted, NEW w \in Runs, Lifecycle!Send(w) \/ Lifecycle!Serve(w)
  PROVE  Trusted'
<1>1. Lifecycle!TypeOK' /\ durable' = durable
  BY DEF Lifecycle!Send, Lifecycle!Serve
<1>2. \A v \in Runs : v # w => wire'[v] = wire[v]
  BY DEF Lifecycle!Send, Lifecycle!Serve
<1>3. CASE Lifecycle!Send(w)
  BY <1>1, <1>2, <1>3 DEF Lifecycle!Send, Lifecycle!WriteAhead, Lifecycle!Truthful
<1>4. CASE Lifecycle!Serve(w)
  BY <1>1, <1>2, <1>4 DEF Lifecycle!Serve, Lifecycle!WriteAhead, Lifecycle!Truthful
<1> QED BY <1>3, <1>4

\* Every step keeps the record and the effect in accord.
LEMMA StepKeepsTrust == Trusted /\ [Lifecycle!Next]_(Lifecycle!vars) => Trusted'
<1> SUFFICES ASSUME Trusted, [Lifecycle!Next]_(Lifecycle!vars) PROVE Trusted'
  OBVIOUS
<1>1. CASE UNCHANGED Lifecycle!vars
  BY <1>1 DEF Lifecycle!vars, Lifecycle!WriteAhead, Lifecycle!Truthful
<1>2. CASE Lifecycle!Next
  <2> SUFFICES ASSUME NEW w \in Runs,
                      \/ Lifecycle!Propose(w) \/ Lifecycle!Authorize(w) \/ Lifecycle!Start(w) \/ Lifecycle!Lose(w)
                      \/ Lifecycle!Succeed(w) \/ Lifecycle!Fail(w) \/ Lifecycle!Send(w) \/ Lifecycle!Serve(w)
               PROVE  Trusted'
    BY <1>2 DEF Lifecycle!Next
  <2>1. CASE Lifecycle!Propose(w)
    BY <2>1, RecordKeepsTrust DEF Lifecycle!Propose, Lifecycle!Record, Lifecycle!WriteAhead
  <2>2. CASE Lifecycle!Authorize(w)
    BY <2>2, RecordKeepsTrust DEF Lifecycle!Authorize, Lifecycle!Record, Lifecycle!WriteAhead
  <2>3. CASE Lifecycle!Start(w)
    BY <2>3, RecordKeepsTrust DEF Lifecycle!Start
  <2>4. CASE Lifecycle!Lose(w)
    BY <2>4, RecordKeepsTrust DEF Lifecycle!Lose
  <2>5. CASE Lifecycle!Succeed(w)
    BY <2>5, RecordKeepsTrust DEF Lifecycle!Succeed
  <2>6. CASE Lifecycle!Fail(w)
    BY <2>6, RecordKeepsTrust DEF Lifecycle!Fail
  <2>7. CASE Lifecycle!Send(w) \/ Lifecycle!Serve(w)
    BY <2>7, EffectKeepsTrust
  <2> QED BY <2>1, <2>2, <2>3, <2>4, <2>5, <2>6, <2>7
<1> QED BY <1>1, <1>2

\* A durable record alone tells whether an effect may exist, and is true once it is
\* settled (the order of _persist_write around the call in _execute_mutation).
THEOREM RecordsCanBeTrusted == Lifecycle!Spec => [](Lifecycle!WriteAhead /\ Lifecycle!Truthful)
<1>1. Trusted => Lifecycle!WriteAhead /\ Lifecycle!Truthful
  OBVIOUS
<1> QED BY <1>1, TrustedInitially, StepKeepsTrust, PTL DEF Lifecycle!Spec

\* With an intent store, what is durable is worth as much at every instant of the
\* mutation path: whoever finds it after a crash may trust it.
THEOREM StoredRecordsCanBeTrusted ==
  ASSUME StoreAlways
  PROVE  Spec => [](Lifecycle!WriteAhead /\ Lifecycle!Truthful)
<1>1. Spec => Lifecycle!Spec
  BY StoredWritesFollowLifecycle DEF ImplementsLifecycle
<1> QED BY <1>1, RecordsCanBeTrusted, PTL

-----------------------------------------------------------------------------
(* Progress, as far as it can be stated of steps. *)

\* How far a task has come: the order in which _execute_mutation reaches its
\* awaits, whatever the outcome, and whether the store took the record of one.
Rank ==
  [prepare |-> 0, propose |-> 1, checkpoint |-> 2, authorize |-> 3, approve |-> 4,
   reauthorize |-> 5, queued |-> 6, intent |-> 7, abandon |-> 8, calling |-> 8,
   save_unknown |-> 9, reconcile |-> 10, save_success |-> 11, save_failed |-> 11, done |-> 12]

LastPlace == 2 * Rank["done"]

Place(r) ==
  2 * Rank[pc[r]] + (IF pc[r] \in Saving /\ durable[r] = RecordAt(r) THEN 1 ELSE 0)

\* A step of r takes it further, and no step of anyone takes a task back.
Advances(r) ==
  /\ Place(r)' >= Place(r)
  /\ Step(r) \/ Cancel(r) => Place(r)' > Place(r)

\* No task is further than done.
LEMMA PlaceTypes ==
  ASSUME TypeOK, NEW r \in Runs
  PROVE  Place(r) \in 0..LastPlace /\ (pc[r] # "done" => Place(r) < LastPlace)
<1>1. pc[r] \in Awaits
  BY DEF TypeOK
<1>2. Rank[pc[r]] \in 0..12 /\ (pc[r] # "done" => Rank[pc[r]] < 12) /\ LastPlace = 24
  BY <1>1 DEF Rank, LastPlace, Awaits, BeforeDispatch, Saving
<1>3. pc[r] = "done" => pc[r] \notin Saving
  BY DEF Saving
<1> QED BY <1>2, <1>3 DEF Place

\* Wherever a task goes, it is higher in the order than where it was.
LEMMA HigherIsFurther ==
  ASSUME TypeOK, TypeOK', NEW r \in Runs, Rank[pc[r]] < Rank[pc'[r]]
  PROVE  Place(r) < Place(r)'
<1>1. Rank[pc[r]] \in Int /\ Rank[pc'[r]] \in Int
  <2>1. pc[r] \in Awaits /\ pc'[r] \in Awaits
    BY DEF TypeOK
  <2> QED BY <2>1 DEF Rank, Awaits, BeforeDispatch, Saving
<1>2. Rank[pc[r]] + 1 <= Rank[pc'[r]]
  BY <1>1
<1> QED BY <1>1, <1>2 DEF Place

\* Every step of a task takes that task further.
LEMMA StepTakesFurther ==
  ASSUME TypeOK, TypeOK', NEW r \in Runs, Step(r) \/ Cancel(r)
  PROVE  Place(r) < Place(r)'
<1>1. CASE StoreTakes(r)
  <2>1. pc'[r] = pc[r] /\ durable'[r] = RecordAt(r) /\ durable[r] # RecordAt(r) /\ pc[r] \in Saving
    BY <1>1 DEF StoreTakes, TypeOK
  <2>2. RecordAt(r)' = RecordAt(r)
    BY <1>1 DEF StoreTakes, RecordAt
  <2>3. Rank[pc[r]] \in Int
    BY <2>1 DEF Rank, Saving
  <2> QED BY <2>1, <2>2, <2>3 DEF Place
<1>2. CASE ~ StoreTakes(r)
  <2>1. Rank[pc[r]] < Rank[pc'[r]]
    <3> USE DEF TypeOK, Rank, Go, End, Release
    <3>2. CASE Prepare(r)
      BY <3>2 DEF Prepare
    <3>3. CASE PersistProposed(r)
      BY <3>3 DEF PersistProposed
    <3>4. CASE RefuseWithoutStore(r)
      BY <3>4 DEF RefuseWithoutStore
    <3>5. CASE PersistFails(r)
      BY <3>5 DEF PersistFails
    <3>6. CASE Checkpoint(r)
      BY <3>6 DEF Checkpoint
    <3>7. CASE Authorize(r)
      BY <3>7 DEF Authorize
    <3>8. CASE Approve(r)
      BY <3>8 DEF Approve
    <3>9. CASE Admit(r)
      BY <3>9 DEF Admit
    <3>10. CASE Dispatch(r)
      BY <3>10 DEF Dispatch
    <3>11. CASE DispatchTooLate(r)
      BY <3>11 DEF DispatchTooLate
    <3>12. CASE Abandon(r)
      BY <3>12 DEF Abandon
    <3>13. CASE SaveAbandoned(r)
      BY <3>13 DEF SaveAbandoned
    <3>14. CASE CallReturns(r)
      BY <3>14 DEF CallReturns
    <3>15. CASE EffectNotStarted(r)
      BY <3>15 DEF EffectNotStarted
    <3>16. CASE CallRaises(r)
      BY <3>16 DEF CallRaises
    <3>17. CASE SaveUnknown(r)
      BY <3>17 DEF SaveUnknown
    <3>18. CASE Reconcile(r)
      BY <3>18 DEF Reconcile
    <3>19. CASE SaveSuccess(r)
      BY <3>19 DEF SaveSuccess
    <3>20. CASE SaveFailed(r)
      BY <3>20 DEF SaveFailed
    <3>21. CASE Cancel(r)
      BY <3>21 DEF Cancel, Asking, Saving
    <3> QED BY <1>2, <3>2, <3>3, <3>4, <3>5, <3>6, <3>7, <3>8, <3>9, <3>10, <3>11, <3>12, <3>13,
               <3>14, <3>15, <3>16, <3>17, <3>18, <3>19, <3>20, <3>21 DEF Step
  <2> QED BY <2>1, HigherIsFurther
<1> QED BY <1>1, <1>2

\* The steps of the others and of the world leave a task where it is, ...
LEMMA OthersLeaveInPlace ==
  ASSUME TypeOK, [Next]_vars, NEW r \in Runs, ~ (Step(r) \/ Cancel(r))
  PROVE  pc'[r] = pc[r] /\ durable'[r] = durable[r]
<1> USE DEF TypeOK
<1>1. ASSUME NEW s \in Runs, s # r, Step(s) \/ Cancel(s)
      PROVE  pc'[r] = pc[r] /\ durable'[r] = durable[r]
  <2>1. CASE StoreTakes(s)
    BY <1>1, <2>1, SMTT(30) DEF StoreTakes
  <2>2. CASE ~ StoreTakes(s)
    BY <1>1, <2>2 DEF Step, Prepare, PersistProposed, RefuseWithoutStore, PersistFails,
       Checkpoint, Authorize, Approve, Admit, Dispatch, DispatchTooLate, Abandon, SaveAbandoned,
       CallReturns, EffectNotStarted, CallRaises, SaveUnknown, Reconcile, SaveSuccess,
       SaveFailed, Cancel, Go, End
  <2> QED BY <2>1, <2>2
<1>2. CASE UNCHANGED <<pc, durable>>
  BY <1>2
<1> QED BY <1>1, <1>2 DEF Next, Serve, Invalidate, ChangeAction, Tick, Finished, vars

\* ... so no step takes anyone back.
LEMMA EveryoneAdvances ==
  ASSUME TypeOK, TypeOK', [Next]_vars, NEW r \in Runs
  PROVE  Advances(r)
<1>1. Place(r) \in Int /\ Place(r)' \in Int
  <2>1. Place(r) \in 0..LastPlace
    BY PlaceTypes
  <2>2. pc'[r] \in Awaits
    BY DEF TypeOK
  <2>3. Rank[pc'[r]] \in Int
    BY <2>2 DEF Rank, Awaits, BeforeDispatch, Saving
  <2>4. Place(r)' \in Int
    BY <2>3 DEF Place
  <2> QED BY <2>1, <2>4 DEF LastPlace, Rank
<1>2. CASE Step(r) \/ Cancel(r)
  BY <1>1, <1>2, StepTakesFurther DEF Advances
<1>3. CASE ~ (Step(r) \/ Cancel(r))
  <2>1. Place(r)' = Place(r)
    BY <1>3, OthersLeaveInPlace DEF Place, RecordAt
  <2> QED BY <1>1, <1>3, <2>1 DEF Advances
<1> QED BY <1>2, <1>3

\* Whatever is answered, refused, raised, lost or cancelled, a task takes at most
\* LastPlace steps and is then done, and neither another task nor the world makes
\* it go back (no await of _execute_mutation is retried).
THEOREM MutationsGoForward ==
  Spec => /\ [](\A r \in Runs : Place(r) \in 0..LastPlace
                                /\ (pc[r] # "done" => Place(r) < LastPlace))
          /\ [][\A r \in Runs : Advances(r)]_vars
<1>1. TypeOK => \A r \in Runs : Place(r) \in 0..LastPlace
                                /\ (pc[r] # "done" => Place(r) < LastPlace)
  BY PlaceTypes
<1>2. TypeOK /\ TypeOK' /\ [Next]_vars => [\A r \in Runs : Advances(r)]_vars
  BY EveryoneAdvances
<1> QED BY <1>1, <1>2, TypeCorrect, PTL DEF Spec

\* A task that waits for a permit waits for one that has left the queue: never for
\* a task that ended, and never for one that waits itself (the permit is given
\* back by every way out of the "async with" block).
NobodyWaitsInVain ==
  \A r \in Runs :
    pc[r] = "queued" /\ ~ PermitFree(r) =>
      \E s \in slot : RuntimeOf[s] = RuntimeOf[r] /\ pc[s] \in InBlock

THEOREM PermitsComeBack ==
  ASSUME ConcurrentOperations > 0
  PROVE  Spec => []NobodyWaitsInVain
<1>1. SlotInv => NobodyWaitsInVain
  <2> SUFFICES ASSUME SlotInv, NEW r \in Runs, ~ PermitFree(r)
               PROVE  \E s \in slot : RuntimeOf[s] = RuntimeOf[r] /\ pc[s] \in InBlock
    BY DEF NobodyWaitsInVain
  <2>1. {s \in slot : RuntimeOf[s] = RuntimeOf[r]} # {}
    BY FS_EmptySet, LimitsAssumption DEF PermitFree
  <2> QED BY <2>1 DEF SlotInv, SlotStages
<1> QED BY <1>1, SlotsInvariance, PTL

\* Without a permit to give, only a cancellation takes a task out of the queue: the
\* ledger, which would refuse it, is not asked, and the deadline may pass (the
\* Semaphore(0) a Runtime makes of concurrent_operations 0 in _ledger_for).
THEOREM NoPermitsNoAnswer ==
  ASSUME ConcurrentOperations = 0
  PROVE  Spec => [][\A r \in Runs : pc[r] = "queued" /\ pc'[r] # "queued" => Cancel(r)]_vars
<1>1. ASSUME TypeOK, SlotInv, [Next]_vars, NEW r \in Runs, pc[r] = "queued", pc'[r] # "queued"
      PROVE  Cancel(r)
  <2>1. ~ PermitFree(r)
    <3> DEFINE same == {s \in slot : RuntimeOf[s] = RuntimeOf[r]}
    <3>1. same \subseteq slot /\ IsFiniteSet(slot)
      BY <1>1 DEF SlotInv, SlotCount
    <3> HIDE DEF same
    <3>2. Cardinality(same) \in Nat
      BY <3>1, FS_Subset, FS_CardinalityType
    <3> QED BY <3>2 DEF PermitFree, same
  <2>2. Step(r) \/ Cancel(r)
    BY <1>1, OthersLeaveInPlace
  <2>3. ~ Step(r)
    BY <1>1, <2>1 DEF Step, StoreTakes, Saving, Prepare, PersistProposed, RefuseWithoutStore,
       PersistFails, Checkpoint, Authorize, Approve, Admit, Dispatch, DispatchTooLate, Abandon,
       SaveAbandoned, CallReturns, EffectNotStarted, CallRaises, SaveUnknown, Reconcile,
       SaveSuccess, SaveFailed
  <2> QED BY <2>2, <2>3
<1>2. TypeOK /\ SlotInv /\ [Next]_vars =>
        [\A r \in Runs : pc[r] = "queued" /\ pc'[r] # "queued" => Cancel(r)]_vars
  BY <1>1
<1> QED BY <1>2, TypeCorrect, SlotsInvariance, PTL DEF Spec
=============================================================================
