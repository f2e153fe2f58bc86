------------------------ MODULE RefundLifecycleProofs ------------------------
(* Proofs about RefundLifecycle, for any set of refunds, any legacy history    *)
(* and any number of Event objects.                                            *)
EXTENDS RefundLifecycle, TLAPS

-----------------------------------------------------------------------------
(* provider_data: what the three writers of refund keys do to it.              *)

\* The keys of provider_data never collide.
LEMMA KeysDistinct ==
    /\ SlotKey # LegacyKey
    /\ \A r : /\ SlotKey # TerminalKey(r) /\ SlotKey # ConfirmationKey(r)
              /\ LegacyKey # TerminalKey(r) /\ LegacyKey # ConfirmationKey(r)
    /\ \A r, q : /\ TerminalKey(r) # ConfirmationKey(q)
                 /\ TerminalKey(r) = TerminalKey(q) => r = q
                 /\ ConfirmationKey(r) = ConfirmationKey(q) => r = q
BY DEF SlotKey, LegacyKey, TerminalKey, ConfirmationKey

\* A merged dictionary holds the keys of both; the patch wins.
LEMMA MergeLookup ==
    ASSUME NEW data, NEW patch
    PROVE  /\ DOMAIN ShallowMerge(data, patch) = DOMAIN data \cup DOMAIN patch
           /\ \A k \in DOMAIN patch : ShallowMerge(data, patch)[k] = patch[k]
           /\ \A k \in DOMAIN data \ DOMAIN patch :
                ShallowMerge(data, patch)[k] = data[k]
BY DEF ShallowMerge

\* Merging the patch of a refund event moves the slot to its refund, records
\* the refund if it died, and settles its confirmation; no other refund's
\* history changes.
LEMMA MergeRefundPatch ==
    ASSUME NEW data, WellTyped(data), NEW e \in Event
    PROVE  LET new == ShallowMerge(data, RefundPatch(data, e)) IN
           /\ WellTyped(new)
           /\ \A r \in Refund :
                /\ HoldsSlot(new, r) <=> r = e.refund
                /\ RecordedTerminal(new, r)
                     <=> \/ RecordedTerminal(data, r)
                         \/ r = e.refund /\ e.status \in DeadStatus
                /\ ConfirmationPending(new, r)
                     <=> /\ ConfirmationPending(data, r)
                         /\ ~(r = e.refund /\ e.status \in DeadStatus)
                /\ TerminalKey(r) \in DOMAIN new =>
                     IF r = e.refund /\ e.status \in DeadStatus
                     THEN new[TerminalKey(r)] = e.status
                     ELSE /\ TerminalKey(r) \in DOMAIN data
                          /\ new[TerminalKey(r)] = data[TerminalKey(r)]
<1> DEFINE patch == RefundPatch(data, e)
           new == ShallowMerge(data, patch)
           dies == e.status \in DeadStatus
<1>1. e.refund \in Refund
  BY DEF Event
<1>2. /\ DOMAIN patch = PatchKeys(data, e)
      /\ SlotKey \in DOMAIN patch
      /\ LegacyKey \notin DOMAIN patch
      /\ \A r \in Refund :
           /\ TerminalKey(r) \in DOMAIN patch <=> r = e.refund /\ dies
           /\ ConfirmationKey(r) \in DOMAIN patch
                <=> r = e.refund /\ dies /\ ConfirmationPending(data, r)
  BY KeysDistinct, <1>1 DEF RefundPatch, PatchKeys
<1>3. /\ patch[SlotKey] = e.refund
      /\ \A r \in Refund :
           /\ TerminalKey(r) \in DOMAIN patch => patch[TerminalKey(r)] = e.status
           /\ ConfirmationKey(r) \in DOMAIN patch
                => patch[ConfirmationKey(r)] = FALSE
  <2>1. ASSUME NEW k \in PatchKeys(data, e)
        PROVE  patch[k] = CASE k = SlotKey -> e.refund
                            [] k = TerminalKey(e.refund) -> e.status
                            [] OTHER -> FALSE
    BY DEF RefundPatch
  <2> HIDE DEF patch
  <2> QED BY <2>1, <1>1, <1>2, KeysDistinct
<1>4. DOMAIN patch \subseteq ProviderKey
  BY <1>1 DEF ProviderKey, RefundPatch, PatchKeys
<1>5. /\ DOMAIN new = DOMAIN data \cup DOMAIN patch
      /\ \A k \in DOMAIN patch : new[k] = patch[k]
      /\ \A k \in DOMAIN data \ DOMAIN patch : new[k] = data[k]
  BY MergeLookup
<1> HIDE DEF patch, new
<1>6. WellTyped(new)
  <2>1. DOMAIN new \subseteq ProviderKey
    BY <1>4, <1>5 DEF WellTyped
  <2>2. SlotKey \in DOMAIN new => new[SlotKey] \in Refund
    BY <1>1, <1>2, <1>3, <1>5
  <2>3. LegacyKey \in DOMAIN new => new[LegacyKey] \in SUBSET Legacy
    BY <1>2, <1>5 DEF WellTyped
  <2>4. ASSUME NEW r \in Refund, TerminalKey(r) \in DOMAIN new
        PROVE  new[TerminalKey(r)] \in DeadStatus
    BY <2>4, <1>2, <1>3, <1>5 DEF WellTyped
  <2>5. ASSUME NEW r \in Refund, ConfirmationKey(r) \in DOMAIN new
        PROVE  new[ConfirmationKey(r)] \in BOOLEAN
    BY <2>5, <1>2, <1>3, <1>5 DEF WellTyped
  <2> QED BY <2>1, <2>2, <2>3, <2>4, <2>5 DEF WellTyped
<1>7. ASSUME NEW r \in Refund
      PROVE  /\ HoldsSlot(new, r) <=> r = e.refund
             /\ RecordedTerminal(new, r)
                  <=> RecordedTerminal(data, r) \/ (r = e.refund /\ dies)
             /\ ConfirmationPending(new, r)
                  <=> ConfirmationPending(data, r) /\ ~(r = e.refund /\ dies)
  <2>1. HoldsSlot(new, r) <=> r = e.refund
    BY <1>2, <1>3, <1>5 DEF HoldsSlot
  <2>2. RecordedTerminal(new, r)
          <=> RecordedTerminal(data, r) \/ (r = e.refund /\ dies)
    BY <1>2, <1>5 DEF RecordedTerminal
  <2>3. ConfirmationPending(new, r)
          <=> ConfirmationPending(data, r) /\ ~(r = e.refund /\ dies)
    BY <1>2, <1>3, <1>5 DEF ConfirmationPending
  <2> QED BY <2>1, <2>2, <2>3
<1>8. ASSUME NEW r \in Refund, TerminalKey(r) \in DOMAIN new
      PROVE  IF r = e.refund /\ dies
             THEN new[TerminalKey(r)] = e.status
             ELSE /\ TerminalKey(r) \in DOMAIN data
                  /\ new[TerminalKey(r)] = data[TerminalKey(r)]
  BY <1>8, <1>2, <1>3, <1>5
<1> QED BY <1>6, <1>7, <1>8 DEF new, patch

\* Storing a new refund's id moves the slot and nothing else.
LEMMA MergeStartRefund ==
    ASSUME NEW data, WellTyped(data), NEW q \in Refund
    PROVE  LET new == ShallowMerge(data, StartRefundPatch(q)) IN
           /\ WellTyped(new)
           /\ \A r \in Refund :
                /\ HoldsSlot(new, r) <=> r = q
                /\ RecordedTerminal(new, r) <=> RecordedTerminal(data, r)
                /\ ConfirmationPending(new, r) <=> ConfirmationPending(data, r)
                /\ TerminalKey(r) \in DOMAIN new =>
                     /\ TerminalKey(r) \in DOMAIN data
                     /\ new[TerminalKey(r)] = data[TerminalKey(r)]
<1> DEFINE patch == StartRefundPatch(q)
           new == ShallowMerge(data, patch)
<1>1. DOMAIN patch = {SlotKey} /\ patch[SlotKey] = q
  BY DEF StartRefundPatch
<1>2. /\ DOMAIN new = DOMAIN data \cup DOMAIN patch
      /\ \A k \in DOMAIN patch : new[k] = patch[k]
      /\ \A k \in DOMAIN data \ DOMAIN patch : new[k] = data[k]
  BY MergeLookup
<1> HIDE DEF patch, new
<1>3. WellTyped(new)
  BY <1>1, <1>2, KeysDistinct DEF WellTyped, ProviderKey
<1>4. ASSUME NEW r \in Refund
      PROVE  /\ HoldsSlot(new, r) <=> r = q
             /\ RecordedTerminal(new, r) <=> RecordedTerminal(data, r)
             /\ ConfirmationPending(new, r) <=> ConfirmationPending(data, r)
             /\ TerminalKey(r) \in DOMAIN new =>
                  /\ TerminalKey(r) \in DOMAIN data
                  /\ new[TerminalKey(r)] = data[TerminalKey(r)]
  BY <1>1, <1>2, KeysDistinct
     DEF HoldsSlot, RecordedTerminal, ConfirmationPending
<1> QED BY <1>3, <1>4 DEF new, patch

\* A successful cancel_refund() records its refund, flags it, and leaves the
\* slot and every other refund's history alone.
LEMMA MergeCancelRefund ==
    ASSUME NEW data, WellTyped(data), NEW q \in Refund
    PROVE  LET new == CancelRefundData(data, q) IN
           /\ WellTyped(new)
           /\ \A r \in Refund :
                /\ HoldsSlot(new, r) <=> HoldsSlot(data, r)
                /\ RecordedTerminal(new, r) <=> RecordedTerminal(data, r) \/ r = q
                /\ ConfirmationPending(new, r)
                     <=> ConfirmationPending(data, r) \/ r = q
                /\ TerminalKey(r) \in DOMAIN new =>
                     IF r = q THEN new[TerminalKey(r)] = "canceled"
                     ELSE /\ TerminalKey(r) \in DOMAIN data
                          /\ new[TerminalKey(r)] = data[TerminalKey(r)]
<1> DEFINE keys == {TerminalKey(q), ConfirmationKey(q)}
           patch == [k \in keys |-> IF k = TerminalKey(q) THEN "canceled" ELSE TRUE]
           new == ShallowMerge(data, patch)
<1>1. /\ DOMAIN patch = keys
      /\ patch[TerminalKey(q)] = "canceled"
      /\ patch[ConfirmationKey(q)] = TRUE
  BY KeysDistinct
<1>2. /\ DOMAIN new = DOMAIN data \cup DOMAIN patch
      /\ \A k \in DOMAIN patch : new[k] = patch[k]
      /\ \A k \in DOMAIN data \ DOMAIN patch : new[k] = data[k]
  BY MergeLookup
<1>3. CancelRefundData(data, q) = new
  BY DEF CancelRefundData
<1> HIDE DEF patch, new
<1>4. WellTyped(new)
  <2>1. DOMAIN new \subseteq ProviderKey
    BY <1>1, <1>2 DEF WellTyped, ProviderKey
  <2> QED BY <2>1, <1>1, <1>2, KeysDistinct DEF WellTyped, DeadStatus
<1>5. ASSUME NEW r \in Refund
      PROVE  /\ HoldsSlot(new, r) <=> HoldsSlot(data, r)
             /\ RecordedTerminal(new, r) <=> RecordedTerminal(data, r) \/ r = q
             /\ ConfirmationPending(new, r)
                  <=> ConfirmationPending(data, r) \/ r = q
             /\ TerminalKey(r) \in DOMAIN new =>
                  IF r = q THEN new[TerminalKey(r)] = "canceled"
                  ELSE /\ TerminalKey(r) \in DOMAIN data
                       /\ new[TerminalKey(r)] = data[TerminalKey(r)]
  BY <1>1, <1>2, KeysDistinct
     DEF HoldsSlot, RecordedTerminal, ConfirmationPending
<1> QED BY <1>3, <1>4, <1>5

-----------------------------------------------------------------------------
(* What each action does, in terms of the slot, the records and the flags.     *)

\* A refund that Stripe creates or moves was not dead, so what is recorded and
\* what the events say of dead refunds stays true.
LEMMA StripeKeepsTruth ==
    ASSUME TypeOK, EventsAreTrue, TerminalRecordIsTrue,
           NEW r \in Refund, NEW status \in RefundStatus,
           refund[r] \notin DeadStatus,
           refund' = [refund EXCEPT ![r] = status],
           Emit(r, status)
    PROVE  /\ refund' \in [Refund -> RefundStatus \cup {"none"}]
           /\ events' \subseteq Event
           /\ events \subseteq events'
           /\ EventsAreTrue'
           /\ ~Recorded(r)
           /\ \A q \in Refund \ {r} : refund'[q] = refund[q]
<1>1. [refund |-> r, status |-> status, n |-> 1] \in Event
  BY MaxRepeatsAssumption DEF Event
<1>2. \A q \in Refund : refund'[q] = IF q = r THEN status ELSE refund[q]
  BY DEF TypeOK
<1>3. ~Recorded(r)
  BY DEF TerminalRecordIsTrue
<1>4. EventsAreTrue'
  <2> SUFFICES ASSUME NEW e \in events', e.status \in DeadStatus
               PROVE  refund'[e.refund] = e.status
    BY DEF EventsAreTrue
  <2>1. CASE e \in events
    <3>1. e.refund \in Refund /\ refund[e.refund] = e.status
      BY <2>1 DEF TypeOK, Event, EventsAreTrue
    <3> QED BY <3>1, <1>2
  <2>2. CASE e = [refund |-> r, status |-> status, n |-> 1]
    BY <2>2, <1>2
  <2> QED BY <2>1, <2>2 DEF Emit
<1> QED BY <1>1, <1>2, <1>3, <1>4 DEF TypeOK, Emit

\* The initial states.
LEMMA InitIInv == Init => IInv
<1> SUFFICES ASSUME Init PROVE IInv
  OBVIOUS
<1>1. /\ payment.status = "PAID"
      /\ payment.applied_event_ids = {}
      /\ DOMAIN payment = {"status", "provider_data", "applied_event_ids"}
  BY DEF Init, FreshPayment, UpgradedPayment
<1>2. CASE /\ refund = [r \in Refund |-> "none"]
           /\ events = {}
           /\ payment = FreshPayment
  <2>1. Data = EmptyData /\ DOMAIN Data = {}
    BY <1>2 DEF Data, FreshPayment, EmptyData
  <2>2. \A r \in Refund : ~Recorded(r) /\ ~ConfirmationPending(Data, r)
    BY <2>1 DEF Recorded, RecordedTerminal, ConfirmationPending
  <2>3. WellTyped(Data)
    BY <2>1 DEF WellTyped
  <2> QED BY <1>1, <1>2, <2>1, <2>2, <2>3
       DEF Init, IInv, TypeOK, EventsAreTrue, TerminalRecordIsTrue,
           FlaggedIsRecorded, AppliedIsRecorded, OpenAttemptNotStuck,
           CancelledOnce, AttemptOpen, Data
<1>3. ASSUME NEW q \in Legacy,
             refund = [r \in Refund |-> IF r \in Legacy THEN "failed" ELSE "none"],
             events = [refund : Legacy, status : {"pending", "failed"}, n : {1}],
             payment = UpgradedPayment(q)
      PROVE  IInv
  <2>1. /\ DOMAIN Data = {SlotKey, LegacyKey}
        /\ Data[SlotKey] = q
        /\ Data[LegacyKey] = Legacy
    BY <1>3, KeysDistinct DEF Data, UpgradedPayment, FreshPayment
  <2>2. WellTyped(Data)
    BY <2>1, KeysDistinct, LegacyAssumption DEF WellTyped, ProviderKey
  <2>3. \A r \in Refund : /\ Recorded(r) <=> r \in Legacy
                          /\ TerminalKey(r) \notin DOMAIN Data
                          /\ ~ConfirmationPending(Data, r)
    BY <2>1, KeysDistinct DEF Recorded, RecordedTerminal, ConfirmationPending
  <2>4. TypeOK
    <3>1. events \subseteq Event
      BY <1>3, LegacyAssumption, MaxRepeatsAssumption
         DEF Event, RefundStatus, InFlightStatus, DeadStatus
    <3>2. refund \in [Refund -> RefundStatus \cup {"none"}]
      BY <1>3 DEF RefundStatus, InFlightStatus, DeadStatus
    <3> QED BY <3>1, <3>2, <1>1, <2>2 DEF TypeOK, Init, Data
  <2>5. EventsAreTrue
    BY <1>3, LegacyAssumption DEF EventsAreTrue, DeadStatus
  <2>6. TerminalRecordIsTrue
    BY <1>3, <2>3 DEF TerminalRecordIsTrue, DeadStatus
  <2> QED BY <1>1, <2>3, <2>4, <2>5, <2>6
       DEF IInv, FlaggedIsRecorded, AppliedIsRecorded, OpenAttemptNotStuck,
           CancelledOnce, AttemptOpen
<1> QED BY <1>2, <1>3 DEF Init

-----------------------------------------------------------------------------
(* Each action preserves the inductive invariant. *)

\* A step of Stripe alone that keeps the truth of the events and the records.
LEMMA StripeStep ==
    ASSUME IInv,
           refund' \in [Refund -> RefundStatus \cup {"none"}],
           events' \subseteq Event,
           events \subseteq events',
           EventsAreTrue',
           \A q \in Refund : Recorded(q) => refund'[q] = refund[q],
           UNCHANGED <<delivered, payment>>
    PROVE  IInv'
<1>1. Data' = Data /\ \A q \in Refund : Recorded(q)' <=> Recorded(q)
  BY DEF Data, Recorded
<1>2. TypeOK'
  BY DEF IInv, TypeOK
<1>3. TerminalRecordIsTrue'
  BY <1>1 DEF IInv, TerminalRecordIsTrue, Recorded, RecordedTerminal
<1> QED BY <1>1, <1>2, <1>3
     DEF IInv, FlaggedIsRecorded, AppliedIsRecorded, OpenAttemptNotStuck,
         CancelledOnce, AttemptOpen, Recorded

LEMMA ForeignRefundIInv ==
    ASSUME IInv, NEW r \in Refund, NEW status \in RefundStatus,
           ForeignRefund(r, status)
    PROVE  IInv'
<1>1. /\ refund[r] \notin DeadStatus
      /\ refund' = [refund EXCEPT ![r] = status]
      /\ Emit(r, status)
      /\ UNCHANGED <<delivered, payment>>
  BY DEF ForeignRefund, Create, Fresh, DeadStatus
<1> QED BY <1>1, StripeKeepsTruth, StripeStep DEF IInv

LEMMA StripeMovesIInv ==
    ASSUME IInv, NEW r \in Refund, NEW status \in RefundStatus,
           StripeMoves(r, status)
    PROVE  IInv'
<1>1. /\ refund[r] \notin DeadStatus
      /\ refund' = [refund EXCEPT ![r] = status]
      /\ Emit(r, status)
      /\ UNCHANGED <<delivered, payment>>
  BY DEF StripeMoves, RefundTransitions, DeadStatus
<1> QED BY <1>1, StripeKeepsTruth, StripeStep DEF IInv

LEMMA StripeRepeatsIInv ==
    ASSUME IInv, NEW r \in Refund, StripeRepeats(r)
    PROVE  IInv'
<1>1. PICK n \in 2..MaxRepeats + 1 :
        events' = events \cup {[refund |-> r, status |-> refund[r], n |-> n]}
  BY DEF StripeRepeats
<1>2. /\ refund[r] # "none"
      /\ UNCHANGED <<refund, delivered, payment>>
  BY DEF StripeRepeats
<1>3. [refund |-> r, status |-> refund[r], n |-> n] \in Event
  BY <1>2, MaxRepeatsAssumption DEF Event, IInv, TypeOK
<1>4. EventsAreTrue'
  BY <1>1, <1>2 DEF IInv, EventsAreTrue
<1> QED BY <1>1, <1>2, <1>3, <1>4, StripeStep DEF IInv, TypeOK

\* start_refund() opens an attempt on a refund nothing is recorded of.
LEMMA StartRefundEffect ==
    ASSUME IInv, NEW r \in Refund, NEW status \in RefundStatus,
           StartRefund(r, status)
    PROVE  /\ DOMAIN payment' = {"status", "provider_data", "applied_event_ids"}
           /\ payment'.status = "REFUND_STARTED"
           /\ payment'.applied_event_ids = payment.applied_event_ids
           /\ WellTyped(Data')
           /\ \A q \in Refund :
                /\ HoldsSlot(Data', q) <=> q = r
                /\ Recorded(q)' <=> Recorded(q)
                /\ ConfirmationPending(Data', q) <=> ConfirmationPending(Data, q)
                /\ TerminalKey(q) \in DOMAIN Data' =>
                     /\ TerminalKey(q) \in DOMAIN Data
                     /\ Data'[TerminalKey(q)] = Data[TerminalKey(q)]
           /\ ~Recorded(r)
<1>1. /\ DOMAIN payment' = {"status", "provider_data", "applied_event_ids"}
      /\ payment'.status = "REFUND_STARTED"
      /\ payment'.applied_event_ids = payment.applied_event_ids
      /\ Data' = ShallowMerge(Data, StartRefundPatch(r))
  BY DEF StartRefund, ApplyRefundEvent, AfterRefundEvent, Data, IInv, TypeOK
<1>2. WellTyped(Data)
  BY DEF IInv, TypeOK, Data
<1>3. ~Recorded(r)
  BY DEF StartRefund, Create, Fresh, IInv, TerminalRecordIsTrue, DeadStatus
<1> QED BY <1>1, <1>2, <1>3, MergeStartRefund DEF Recorded, RecordedTerminal

LEMMA StartRefundIInv ==
    ASSUME IInv, NEW r \in Refund, NEW status \in RefundStatus,
           StartRefund(r, status)
    PROVE  IInv'
<1>1. /\ refund[r] \notin DeadStatus
      /\ refund' = [refund EXCEPT ![r] = status]
      /\ Emit(r, status)
      /\ UNCHANGED delivered
  BY DEF StartRefund, Create, Fresh, DeadStatus
<1>2. /\ DOMAIN payment' = {"status", "provider_data", "applied_event_ids"}
      /\ payment'.status = "REFUND_STARTED"
      /\ payment'.applied_event_ids = payment.applied_event_ids
  BY StartRefundEffect
<1>3. /\ WellTyped(Data')
      /\ \A q \in Refund :
           /\ HoldsSlot(Data', q) <=> q = r
           /\ Recorded(q)' <=> Recorded(q)
           /\ ConfirmationPending(Data', q) <=> ConfirmationPending(Data, q)
           /\ TerminalKey(q) \in DOMAIN Data' =>
                /\ TerminalKey(q) \in DOMAIN Data
                /\ Data'[TerminalKey(q)] = Data[TerminalKey(q)]
  BY StartRefundEffect
<1>4. /\ refund' \in [Refund -> RefundStatus \cup {"none"}]
      /\ events' \subseteq Event
      /\ events \subseteq events'
      /\ EventsAreTrue'
      /\ ~Recorded(r)
      /\ \A q \in Refund \ {r} : refund'[q] = refund[q]
  BY <1>1, StripeKeepsTruth DEF IInv
<1>5. TypeOK'
  BY <1>1, <1>2, <1>3, <1>4 DEF IInv, TypeOK, Data
<1>6. TerminalRecordIsTrue'
  BY <1>3, <1>4 DEF IInv, TerminalRecordIsTrue, Recorded, RecordedTerminal
<1>7. FlaggedIsRecorded' /\ AppliedIsRecorded'
  BY <1>2, <1>3 DEF IInv, TypeOK, Event, FlaggedIsRecorded, AppliedIsRecorded
<1>8. OpenAttemptNotStuck'
  BY <1>3, <1>4 DEF OpenAttemptNotStuck
<1>9. CancelledOnce'
  BY <1>2 DEF IInv, CancelledOnce
<1> QED BY <1>4, <1>5, <1>6, <1>7, <1>8, <1>9 DEF IInv

\* Both ways to cancel record the current refund and flag it; only core's flow
\* closes the attempt at once.
LEMMA CancelEffect ==
    ASSUME IInv, NEW r \in Refund, CancelRefund(r) \/ FlowCancelRefund(r)
    PROVE  /\ ApiCancels(r)
           /\ DOMAIN payment' = {"status", "provider_data", "applied_event_ids"}
           /\ payment'.status \in {payment.status, "PAID"}
           /\ payment'.applied_event_ids = payment.applied_event_ids
           /\ Data' = CancelRefundData(Data, r)
<1>1. CASE CancelRefund(r)
  BY <1>1 DEF CancelRefund, Data, IInv, TypeOK
<1>2. CASE FlowCancelRefund(r)
  <2>1. /\ ApiCancels(r)
        /\ DOMAIN payment' = {"status", "provider_data", "applied_event_ids"}
        /\ payment'.status = "PAID"
        /\ payment'.applied_event_ids = payment.applied_event_ids
        /\ Data' = ShallowMerge(CancelRefundData(Data, r), EmptyData)
    BY <1>2 DEF FlowCancelRefund, ApplyRefundEvent, AfterRefundEvent,
                Data, IInv, TypeOK
  <2>2. Data' = CancelRefundData(Data, r)
    BY <2>1 DEF CancelRefundData, ShallowMerge, EmptyData
  <2> QED BY <2>1, <2>2
<1> QED BY <1>1, <1>2

\* The canceled refund was waiting for customer action, so no dead
\* event about it was applied yet.
LEMMA ApiCancelIInv ==
    ASSUME IInv, NEW r \in Refund, ApiCancels(r),
           DOMAIN payment' = {"status", "provider_data", "applied_event_ids"},
           payment'.status \in {payment.status, "PAID"},
           payment'.applied_event_ids = payment.applied_event_ids,
           Data' = CancelRefundData(Data, r)
    PROVE  IInv'
<1>1. /\ refund[r] = "requires_action"
      /\ refund[r] \notin DeadStatus
      /\ refund' = [refund EXCEPT ![r] = "canceled"]
      /\ Emit(r, "canceled")
      /\ UNCHANGED delivered
  BY DEF ApiCancels, DeadStatus
<1>2. /\ WellTyped(Data')
      /\ \A q \in Refund :
           /\ HoldsSlot(Data', q) <=> HoldsSlot(Data, q)
           /\ Recorded(q)' <=> Recorded(q) \/ q = r
           /\ ConfirmationPending(Data', q)
                <=> ConfirmationPending(Data, q) \/ q = r
           /\ TerminalKey(q) \in DOMAIN Data' =>
                IF q = r THEN Data'[TerminalKey(q)] = "canceled"
                ELSE /\ TerminalKey(q) \in DOMAIN Data
                     /\ Data'[TerminalKey(q)] = Data[TerminalKey(q)]
  <2>1. WellTyped(Data)
    BY DEF IInv, TypeOK, Data
  <2> QED BY <2>1, MergeCancelRefund DEF Recorded, RecordedTerminal
<1>3. "canceled" \in RefundStatus /\ "canceled" \in DeadStatus
  BY DEF RefundStatus, DeadStatus
<1>4. /\ refund' \in [Refund -> RefundStatus \cup {"none"}]
      /\ events' \subseteq Event
      /\ events \subseteq events'
      /\ EventsAreTrue'
      /\ ~Recorded(r)
      /\ \A q \in Refund \ {r} : refund'[q] = refund[q]
      /\ refund'[r] = "canceled"
  BY <1>1, <1>3, StripeKeepsTruth DEF IInv, TypeOK
<1>5. TypeOK'
  BY <1>1, <1>2, <1>4 DEF IInv, TypeOK, Data
<1>6. TerminalRecordIsTrue'
  BY <1>2, <1>3, <1>4 DEF IInv, TerminalRecordIsTrue
<1>7. FlaggedIsRecorded'
  BY <1>2 DEF IInv, FlaggedIsRecorded
<1>8. AppliedIsRecorded'
  <2> SUFFICES ASSUME NEW e \in payment.applied_event_ids,
                      e.status \in DeadStatus
               PROVE  Recorded(e.refund)' /\ ~ConfirmationPending(Data', e.refund)
    BY DEF AppliedIsRecorded
  <2>1. e \in events /\ e.refund \in Refund
    BY DEF IInv, TypeOK, Event
  <2>2. e.refund # r
    BY <1>1, <2>1 DEF IInv, EventsAreTrue
  <2> QED BY <1>2, <2>1, <2>2 DEF IInv, AppliedIsRecorded
<1>9. OpenAttemptNotStuck'
  BY <1>2 DEF IInv, TypeOK, OpenAttemptNotStuck, AttemptOpen
<1>10. CancelledOnce'
  BY DEF IInv, CancelledOnce
<1> QED BY <1>4, <1>5, <1>6, <1>7, <1>8, <1>9, <1>10 DEF IInv

\* A webhook that is neither dropped nor a duplicate.  What is applied is
\* either the first event of a refund not yet recorded, or the confirmation of
\* the current refund's cancellation.
LEMMA AppliedCallbackEffect ==
    ASSUME IInv, NEW e \in events,
           ~IgnoresRefundEvent(Data, e),
           e \notin payment.applied_event_ids,
           payment' = ApplyRefundUpdate(payment, RefundUpdate(Data, e))
    PROVE  /\ e \in Event /\ e.refund \in Refund /\ e.status \in RefundStatus
           /\ DOMAIN payment' = {"status", "provider_data", "applied_event_ids"}
           /\ payment'.status = AfterRefundEvent(RefundPaymentEvent(e.status))
           /\ payment'.applied_event_ids = payment.applied_event_ids \cup {e}
           /\ WellTyped(Data')
           /\ \A r \in Refund :
                /\ HoldsSlot(Data', r) <=> r = e.refund
                /\ Recorded(r)'
                     <=> Recorded(r) \/ (r = e.refund /\ e.status \in DeadStatus)
                /\ ConfirmationPending(Data', r)
                     <=> /\ ConfirmationPending(Data, r)
                         /\ ~(r = e.refund /\ e.status \in DeadStatus)
                /\ TerminalKey(r) \in DOMAIN Data' =>
                     IF r = e.refund /\ e.status \in DeadStatus
                     THEN Data'[TerminalKey(r)] = e.status
                     ELSE /\ TerminalKey(r) \in DOMAIN Data
                          /\ Data'[TerminalKey(r)] = Data[TerminalKey(r)]
           /\ Recorded(e.refund) =>
                /\ ConfirmationPending(Data, e.refund)
                /\ HoldsSlot(Data, e.refund)
                /\ e.status \in DeadStatus
<1>1. e \in Event /\ e.refund \in Refund /\ e.status \in RefundStatus
  BY DEF IInv, TypeOK, Event
<1>2. /\ DOMAIN payment' = {"status", "provider_data", "applied_event_ids"}
      /\ payment'.status = AfterRefundEvent(RefundPaymentEvent(e.status))
      /\ payment'.applied_event_ids = payment.applied_event_ids \cup {e}
      /\ Data' = ShallowMerge(Data, RefundPatch(Data, e))
  BY DEF ApplyRefundUpdate, RefundUpdate, ApplyRefundEvent, Data, IInv, TypeOK
<1>3. WellTyped(Data)
  BY DEF IInv, TypeOK, Data
<1>4. Recorded(e.refund) =>
        /\ ConfirmationPending(Data, e.refund)
        /\ HoldsSlot(Data, e.refund)
        /\ e.status \in DeadStatus
  BY DEF IgnoresRefundEvent, ConfirmsCurrentCancellation, Recorded, RecordedTerminal
<1> QED BY <1>1, <1>2, <1>3, <1>4, MergeRefundPatch DEF Recorded, RecordedTerminal

LEMMA AppliedCallbackIInv ==
    ASSUME IInv, NEW e \in events,
           delivered' = delivered \cup {e},
           ~IgnoresRefundEvent(Data, e),
           e \notin payment.applied_event_ids,
           payment' = ApplyRefundUpdate(payment, RefundUpdate(Data, e)),
           UNCHANGED <<refund, events>>
    PROVE  IInv'
<1>1. e \in Event /\ e.refund \in Refund /\ e.status \in RefundStatus
  BY AppliedCallbackEffect
<1>2. /\ DOMAIN payment' = {"status", "provider_data", "applied_event_ids"}
      /\ payment'.status = AfterRefundEvent(RefundPaymentEvent(e.status))
      /\ payment'.applied_event_ids = payment.applied_event_ids \cup {e}
  BY AppliedCallbackEffect
<1>3. /\ WellTyped(Data')
      /\ \A r \in Refund :
           /\ HoldsSlot(Data', r) <=> r = e.refund
           /\ Recorded(r)'
                <=> Recorded(r) \/ (r = e.refund /\ e.status \in DeadStatus)
           /\ ConfirmationPending(Data', r)
                <=> /\ ConfirmationPending(Data, r)
                    /\ ~(r = e.refund /\ e.status \in DeadStatus)
           /\ TerminalKey(r) \in DOMAIN Data' =>
                IF r = e.refund /\ e.status \in DeadStatus
                THEN Data'[TerminalKey(r)] = e.status
                ELSE /\ TerminalKey(r) \in DOMAIN Data
                     /\ Data'[TerminalKey(r)] = Data[TerminalKey(r)]
  BY AppliedCallbackEffect
<1>4. Recorded(e.refund) =>
        /\ ConfirmationPending(Data, e.refund)
        /\ HoldsSlot(Data, e.refund)
        /\ e.status \in DeadStatus
  BY AppliedCallbackEffect
<1>5. e.status \in DeadStatus => payment'.status = "PAID"
  BY <1>2 DEF AfterRefundEvent, RefundPaymentEvent, DeadStatus, InFlightStatus
<1>6. TypeOK'
  <2>1. payment'.status \in {"PAID", "REFUND_STARTED"}
    BY <1>2 DEF AfterRefundEvent
  <2> QED BY <2>1, <1>2, <1>3 DEF IInv, TypeOK, Data
<1>7. EventsAreTrue'
  BY DEF IInv, EventsAreTrue
<1>8. TerminalRecordIsTrue'
  BY <1>1, <1>3 DEF IInv, TerminalRecordIsTrue, EventsAreTrue
<1>9. FlaggedIsRecorded'
  BY <1>3 DEF IInv, FlaggedIsRecorded
<1>10. AppliedIsRecorded'
  <2> SUFFICES ASSUME NEW f \in payment.applied_event_ids \cup {e},
                      f.status \in DeadStatus
               PROVE  Recorded(f.refund)' /\ ~ConfirmationPending(Data', f.refund)
    BY <1>2 DEF AppliedIsRecorded
  <2>1. f.refund \in Refund
    BY <1>1 DEF IInv, TypeOK, Event
  <2> QED BY <1>3, <2>1 DEF IInv, AppliedIsRecorded
<1>11. OpenAttemptNotStuck'
  BY <1>3, <1>4, <1>5 DEF OpenAttemptNotStuck, AttemptOpen
<1>12. CancelledOnce'
  <2>1. ASSUME NEW f \in payment.applied_event_ids,
               f.refund = e.refund, f.status \in DeadStatus
        PROVE  FALSE
    BY <2>1, <1>4 DEF IInv, AppliedIsRecorded
  <2> QED BY <1>2, <2>1 DEF IInv, CancelledOnce
<1> QED BY <1>6, <1>7, <1>8, <1>9, <1>10, <1>11, <1>12 DEF IInv

\* A webhook that changes nothing but the delivery log.
LEMMA IdleCallbackIInv ==
    ASSUME IInv, NEW e \in events,
           delivered' = delivered \cup {e},
           UNCHANGED <<refund, events, payment>>
    PROVE  IInv'
<1>1. Data' = Data /\ \A q \in Refund : Recorded(q)' <=> Recorded(q)
  BY DEF Data, Recorded
<1>2. TypeOK'
  BY DEF IInv, TypeOK
<1>3. EventsAreTrue' /\ TerminalRecordIsTrue'
  BY <1>1 DEF IInv, EventsAreTrue, TerminalRecordIsTrue
<1> QED BY <1>1, <1>2, <1>3
     DEF IInv, FlaggedIsRecorded, AppliedIsRecorded, OpenAttemptNotStuck,
         CancelledOnce, AttemptOpen, Recorded

LEMMA CallbackIInv ==
    ASSUME IInv, NEW e \in events, Callback(e)
    PROVE  IInv'
<1>1. CASE \/ IgnoresRefundEvent(Data, e)
           \/ e \in payment.applied_event_ids
  BY <1>1, IdleCallbackIInv
     DEF Callback, ApplyRefundUpdate, RefundUpdate, Data
<1>2. CASE ~IgnoresRefundEvent(Data, e) /\ e \notin payment.applied_event_ids
  BY <1>2, AppliedCallbackIInv DEF Callback, Data
<1> QED BY <1>1, <1>2

\* Every step preserves the inductive invariant.
LEMMA NextIInv == IInv /\ [Next]_vars => IInv'
<1> SUFFICES ASSUME IInv, [Next]_vars PROVE IInv'
  OBVIOUS
<1>1. ASSUME NEW r \in Refund, NEW status \in RefundStatus,
             \/ StartRefund(r, status)
             \/ ForeignRefund(r, status)
             \/ StripeMoves(r, status)
      PROVE  IInv'
  BY <1>1, StartRefundIInv, ForeignRefundIInv, StripeMovesIInv
<1>2. ASSUME NEW r \in Refund, CancelRefund(r) \/ FlowCancelRefund(r)
      PROVE  IInv'
  BY <1>2, CancelEffect, ApiCancelIInv
<1>3. ASSUME NEW r \in Refund, StripeRepeats(r)
      PROVE  IInv'
  BY <1>3, StripeRepeatsIInv
<1>4. ASSUME NEW e \in events, Callback(e)
      PROVE  IInv'
  BY <1>4, CallbackIInv
<1>5. CASE UNCHANGED vars
  BY <1>5 DEF vars, IInv, TypeOK, EventsAreTrue, TerminalRecordIsTrue,
              FlaggedIsRecorded, AppliedIsRecorded, OpenAttemptNotStuck,
              CancelledOnce, Recorded, Data, AttemptOpen
<1> QED BY <1>1, <1>2, <1>3, <1>4, <1>5 DEF Next

-----------------------------------------------------------------------------
(* The theorems. *)

\* The inductive invariant holds in every reachable state.
THEOREM InductiveInvariant == Spec => []IInv
BY InitIInv, NextIInv, PTL DEF Spec

\* Every variable keeps its type.
THEOREM TypeCorrect == Spec => []TypeOK
<1>1. IInv => TypeOK
  BY DEF IInv
<1> QED BY <1>1, InductiveInvariant, PTL

\* Only refunds Stripe gave up on are ever shut out.
THEOREM RecordsAreTrue == Spec => []TerminalRecordIsTrue
<1>1. IInv => TerminalRecordIsTrue
  BY DEF IInv
<1> QED BY <1>1, InductiveInvariant, PTL

\* No attempt is left open on a dead refund with nothing to close it.
THEOREM NeverStuck == Spec => []OpenAttemptNotStuck
<1>1. IInv => OpenAttemptNotStuck
  BY DEF IInv
<1> QED BY <1>1, InductiveInvariant, PTL

\* One webhook per refund at most applies REFUND_CANCELLED.
THEOREM AtMostOneCancellation == Spec => []CancelledOnce
<1>1. IInv => CancelledOnce
  BY DEF IInv
<1> QED BY <1>1, InductiveInvariant, PTL

-----------------------------------------------------------------------------
(* Refinement: the refund code implements the abstract attempt. *)

LEMMA InitImplements == Init => Attempt!Init
<1> SUFFICES ASSUME Init PROVE Attempt!Init
  OBVIOUS
<1>1. AttemptOpen = FALSE
  BY DEF Init, FreshPayment, UpgradedPayment, AttemptOpen
<1>2. \A r, q \in Refund : HoldsSlot(Data, r) /\ HoldsSlot(Data, q) => r = q
  BY DEF HoldsSlot
<1>3. {r \in Refund : HoldsSlot(Data, r)} \in {{}} \cup {{r} : r \in Refund}
  <2>1. CASE \E r \in Refund : HoldsSlot(Data, r)
    <3>1. PICK r \in Refund : HoldsSlot(Data, r)
      BY <2>1
    <3>2. {q \in Refund : HoldsSlot(Data, q)} = {r}
      BY <3>1, <1>2
    <3> QED BY <3>2
  <2>2. CASE ~\E r \in Refund : HoldsSlot(Data, r)
    <3>1. {q \in Refund : HoldsSlot(Data, q)} = {}
      BY <2>2
    <3> QED BY <3>1
  <2> QED BY <2>1, <2>2
<1> QED BY <1>1, <1>3 DEF Attempt!Init

\* A step that leaves the payment alone is a stutter of the attempt.
LEMMA PaymentStutters ==
    ASSUME UNCHANGED payment
    PROVE  UNCHANGED Attempt!vars
BY DEF Attempt!vars, Data, Recorded, AttemptOpen

LEMMA StartRefundImplements ==
    ASSUME IInv, NEW r \in Refund, NEW status \in RefundStatus,
           StartRefund(r, status)
    PROVE  Attempt!Request(r)
<1>1. r \notin {q \in Refund : Recorded(q)}
  BY StartRefundEffect
<1>2. {q \in Refund : HoldsSlot(Data', q)} = {r}
  BY StartRefundEffect
<1>3. AttemptOpen' = TRUE
  BY StartRefundEffect DEF AttemptOpen
<1>4. {q \in Refund : Recorded(q)}' = {q \in Refund : Recorded(q)}
  BY StartRefundEffect
<1> QED BY <1>1, <1>2, <1>3, <1>4 DEF Attempt!Request

LEMMA AppliedCallbackImplements ==
    ASSUME IInv, NEW e \in events,
           ~IgnoresRefundEvent(Data, e),
           e \notin payment.applied_event_ids,
           payment' = ApplyRefundUpdate(payment, RefundUpdate(Data, e))
    PROVE  Attempt!Next
<1> DEFINE r == e.refund
           dead == {q \in Refund : Recorded(q)}
           current == {q \in Refund : HoldsSlot(Data, q)}
<1>1. r \in Refund /\ e.status \in RefundStatus
  BY AppliedCallbackEffect
<1>2. current' = {r}
  BY AppliedCallbackEffect
<1>3. dead' = IF e.status \in DeadStatus THEN dead \cup {r} ELSE dead
  BY AppliedCallbackEffect
<1>4. /\ e.status \in InFlightStatus => AttemptOpen' = TRUE
      /\ e.status \notin InFlightStatus => AttemptOpen' = FALSE
  BY AppliedCallbackEffect
     DEF AttemptOpen, AfterRefundEvent, RefundPaymentEvent, RefundStatus,
         InFlightStatus, DeadStatus
<1>5. r \in dead => current = {r} /\ e.status \in DeadStatus
  BY AppliedCallbackEffect DEF HoldsSlot
<1> HIDE DEF r, dead, current
<1>6. CASE e.status \in InFlightStatus
  <2>1. e.status \notin DeadStatus
    BY <1>6 DEF InFlightStatus, DeadStatus
  <2>2. Attempt!Request(r)
    BY <1>2, <1>3, <1>4, <1>5, <1>6, <2>1
       DEF Attempt!Request, dead, current
  <2> QED BY <1>1, <2>2 DEF Attempt!Next
<1>7. CASE e.status = "succeeded"
  <2>1. e.status \notin DeadStatus /\ e.status \notin InFlightStatus
    BY <1>7 DEF InFlightStatus, DeadStatus
  <2>2. Attempt!Settle(r)
    BY <1>2, <1>3, <1>4, <1>5, <2>1 DEF Attempt!Settle, dead, current
  <2> QED BY <1>1, <2>2 DEF Attempt!Next
<1>8. CASE e.status \in DeadStatus
  <2>1. e.status \notin InFlightStatus
    BY <1>8 DEF InFlightStatus, DeadStatus
  <2>2. CASE r \notin dead
    <3>1. Attempt!Fail(r)
      BY <1>2, <1>3, <1>4, <1>8, <2>1, <2>2 DEF Attempt!Fail, dead, current
    <3> QED BY <1>1, <3>1 DEF Attempt!Next
  <2>3. CASE r \in dead
    <3>1. dead \cup {r} = dead
      BY <2>3
    <3>2. Attempt!Confirm(r)
      BY <1>2, <1>3, <1>4, <1>5, <1>8, <2>1, <2>3, <3>1
         DEF Attempt!Confirm, dead, current
    <3> QED BY <1>1, <3>2 DEF Attempt!Next
  <2> QED BY <2>2, <2>3
<1> QED BY <1>1, <1>6, <1>7, <1>8 DEF RefundStatus

LEMMA CancelImplements ==
    ASSUME IInv, NEW r \in Refund, CancelRefund(r) \/ FlowCancelRefund(r)
    PROVE  Attempt!Cancel(r)
<1>1. /\ HoldsSlot(Data, r)
      /\ refund[r] = "requires_action"
  BY CancelEffect DEF ApiCancels, Data
<1>2. ~Recorded(r)
  BY <1>1 DEF IInv, TerminalRecordIsTrue, DeadStatus
<1>3. \A q \in Refund : /\ HoldsSlot(Data', q) <=> HoldsSlot(Data, q)
                        /\ Recorded(q)' <=> Recorded(q) \/ q = r
  <2>1. WellTyped(Data)
    BY DEF IInv, TypeOK, Data
  <2> QED BY <2>1, CancelEffect, MergeCancelRefund DEF Recorded, RecordedTerminal
<1>4. {q \in Refund : HoldsSlot(Data, q)} = {r}
  BY <1>1 DEF HoldsSlot
<1>5. {q \in Refund : HoldsSlot(Data, q)}' = {q \in Refund : HoldsSlot(Data, q)}
  BY <1>3
<1>6. {q \in Refund : Recorded(q)}' = {q \in Refund : Recorded(q)} \cup {r}
  BY <1>3
<1>7. AttemptOpen' \in {AttemptOpen, FALSE}
  BY CancelEffect DEF AttemptOpen
<1> QED BY <1>2, <1>4, <1>5, <1>6, <1>7 DEF Attempt!Cancel

LEMMA NextImplements ==
    IInv /\ [Next]_vars => [Attempt!Next]_(Attempt!vars)
<1> SUFFICES ASSUME IInv, [Next]_vars
             PROVE  Attempt!Next \/ UNCHANGED Attempt!vars
  OBVIOUS
<1>1. ASSUME NEW r \in Refund, NEW status \in RefundStatus,
             StartRefund(r, status)
      PROVE  Attempt!Next
  BY <1>1, StartRefundImplements DEF Attempt!Next
<1>2. ASSUME NEW r \in Refund, CancelRefund(r) \/ FlowCancelRefund(r)
      PROVE  Attempt!Next
  BY <1>2, CancelImplements DEF Attempt!Next
<1>3. ASSUME NEW e \in events, Callback(e)
      PROVE  Attempt!Next \/ UNCHANGED Attempt!vars
  <2>1. CASE \/ IgnoresRefundEvent(Data, e)
             \/ e \in payment.applied_event_ids
    <3>1. UNCHANGED payment
      BY <1>3, <2>1 DEF Callback, ApplyRefundUpdate, RefundUpdate, Data
    <3> QED BY <3>1, PaymentStutters
  <2>2. CASE ~IgnoresRefundEvent(Data, e) /\ e \notin payment.applied_event_ids
    BY <1>3, <2>2, AppliedCallbackImplements DEF Callback, Data
  <2> QED BY <2>1, <2>2
<1>4. CASE UNCHANGED payment
  BY <1>4, PaymentStutters
<1> QED BY <1>1, <1>2, <1>3, <1>4
     DEF Next, ForeignRefund, StripeMoves, StripeRepeats, vars

\* Webhooks, cancellations and retries behave as the abstract attempt.
THEOREM Implements == Spec => ImplementsRefundAttempt
<1>1. Spec => Attempt!Init /\ [][Attempt!Next]_(Attempt!vars)
  BY InitImplements, NextImplements, InductiveInvariant, PTL DEF Spec
<1> QED BY <1>1 DEF ImplementsRefundAttempt, Attempt!Spec

-----------------------------------------------------------------------------
(* No outcome is lost. *)

\* What a payment owes to an event that was delivered.
Heeded(e) ==
    /\ e.status \in DeadStatus =>
         Recorded(e.refund) /\ ~(AttemptOpen /\ HoldsSlot(Data, e.refund))
    /\ e.status = "succeeded" =>
         Recorded(e.refund) \/ e \in payment.applied_event_ids

AllHeeded == \A e \in delivered : Heeded(e)

\* Stripe tells how each refund ended.
Announced ==
    \A r \in Refund : refund[r] \in DeadStatus \cup {"succeeded"} =>
        \E e \in events : e.refund = r /\ e.status = refund[r]

LEMMA AnnouncedStep ==
    ASSUME IInv, Announced, NEW r \in Refund, NEW status,
           refund' = [refund EXCEPT ![r] = status], Emit(r, status)
    PROVE  Announced'
<1> SUFFICES ASSUME NEW q \in Refund, refund'[q] \in DeadStatus \cup {"succeeded"}
             PROVE  \E e \in events' : e.refund = q /\ e.status = refund'[q]
  BY DEF Announced
<1>1. CASE q = r
  <2>1. [refund |-> r, status |-> status, n |-> 1] \in events'
    BY DEF Emit
  <2>2. refund'[q] = status
    BY <1>1 DEF IInv, TypeOK
  <2> QED BY <1>1, <2>1, <2>2
<1>2. CASE q # r
  <2>1. refund'[q] = refund[q]
    BY <1>2 DEF IInv, TypeOK
  <2> QED BY <2>1 DEF Announced, Emit
<1> QED BY <1>1, <1>2

\* A dead refund was neither started nor canceled by this step.
LEMMA DeadEventIsOfAnother ==
    ASSUME IInv, NEW e \in delivered, NEW r \in Refund, refund[r] \notin DeadStatus
    PROVE  e.refund \in Refund /\ (e.status \in DeadStatus => e.refund # r)
BY DEF IInv, TypeOK, Event, EventsAreTrue

LEMMA StartRefundHeeds ==
    ASSUME IInv, AllHeeded, NEW r \in Refund, NEW status \in RefundStatus,
           StartRefund(r, status)
    PROVE  AllHeeded'
<1>1. refund[r] \notin DeadStatus /\ UNCHANGED delivered
  BY DEF StartRefund, Create, Fresh, DeadStatus
<1>2. /\ payment'.applied_event_ids = payment.applied_event_ids
      /\ \A q \in Refund : /\ HoldsSlot(Data', q) <=> q = r
                           /\ Recorded(q)' <=> Recorded(q)
  BY StartRefundEffect
<1>3. ASSUME NEW e \in delivered PROVE Heeded(e)'
  <2>1. e.refund \in Refund /\ (e.status \in DeadStatus => e.refund # r)
    BY <1>1, DeadEventIsOfAnother
  <2> QED BY <1>2, <2>1 DEF AllHeeded, Heeded
<1> QED BY <1>1, <1>3 DEF AllHeeded

LEMMA CancelHeeds ==
    ASSUME IInv, AllHeeded, NEW r \in Refund, CancelRefund(r) \/ FlowCancelRefund(r)
    PROVE  AllHeeded'
<1>1. /\ ApiCancels(r) /\ payment'.status \in {payment.status, "PAID"}
      /\ payment'.applied_event_ids = payment.applied_event_ids
      /\ Data' = CancelRefundData(Data, r)
  BY CancelEffect
<1>2. UNCHANGED delivered
  BY <1>1 DEF ApiCancels
<1>3. \A q \in Refund : /\ HoldsSlot(Data', q) <=> HoldsSlot(Data, q)
                        /\ Recorded(q) => Recorded(q)'
  <2>1. WellTyped(Data)
    BY DEF IInv, TypeOK, Data
  <2> QED BY <1>1, <2>1, MergeCancelRefund DEF Recorded, RecordedTerminal
<1>4. AttemptOpen' => AttemptOpen
  BY <1>1 DEF AttemptOpen
<1>5. ASSUME NEW e \in delivered PROVE Heeded(e)'
  <2>1. e.refund \in Refund
    BY DEF IInv, TypeOK, Event
  <2> QED BY <1>1, <1>3, <1>4, <2>1 DEF AllHeeded, Heeded
<1> QED BY <1>2, <1>5 DEF AllHeeded

\* Events are only dropped when what they say is known.
LEMMA DroppedIsHeeded ==
    ASSUME IInv, NEW e \in events,
           IgnoresRefundEvent(Data, e) \/ e \in payment.applied_event_ids
    PROVE  Heeded(e)
<1>1. e.refund \in Refund /\ e.status \in RefundStatus
  BY DEF IInv, TypeOK, Event
<1>2. CASE e \in payment.applied_event_ids
  <2>1. ASSUME e.status \in DeadStatus
        PROVE  Recorded(e.refund) /\ ~ConfirmationPending(Data, e.refund)
    BY <1>2, <2>1 DEF IInv, AppliedIsRecorded
  <2> QED BY <1>1, <1>2, <2>1 DEF Heeded, IInv, OpenAttemptNotStuck
<1>3. CASE IgnoresRefundEvent(Data, e)
  <2>1. Recorded(e.refund) /\ ~ConfirmsCurrentCancellation(Data, e)
    BY <1>1, <1>3 DEF IgnoresRefundEvent, Recorded, RecordedTerminal
  <2>2. ASSUME e.status \in DeadStatus, AttemptOpen, HoldsSlot(Data, e.refund)
        PROVE  FALSE
    <3>1. ConfirmationPending(Data, e.refund)
      BY <1>1, <2>1, <2>2 DEF IInv, OpenAttemptNotStuck
    <3> QED BY <2>1, <2>2, <3>1 DEF ConfirmsCurrentCancellation
  <2> QED BY <2>1, <2>2 DEF Heeded
<1> QED BY <1>2, <1>3

LEMMA CallbackHeeds ==
    ASSUME IInv, AllHeeded, NEW e \in events, Callback(e)
    PROVE  AllHeeded'
<1>1. delivered' = delivered \cup {e}
  BY DEF Callback
<1>2. CASE IgnoresRefundEvent(Data, e) \/ e \in payment.applied_event_ids
  <2>1. UNCHANGED payment
    BY <1>2 DEF Callback, ApplyRefundUpdate, RefundUpdate, Data
  <2>2. Heeded(e)
    BY <1>2, DroppedIsHeeded
  <2> QED BY <1>1, <2>1, <2>2 DEF AllHeeded, Heeded, Recorded, Data, AttemptOpen
<1>3. CASE ~IgnoresRefundEvent(Data, e) /\ e \notin payment.applied_event_ids
  <2>1. payment' = ApplyRefundUpdate(payment, RefundUpdate(Data, e))
    BY <1>3 DEF Callback, Data
  <2>2. /\ e.refund \in Refund
        /\ payment'.status = AfterRefundEvent(RefundPaymentEvent(e.status))
        /\ payment'.applied_event_ids = payment.applied_event_ids \cup {e}
        /\ \A q \in Refund :
             /\ HoldsSlot(Data', q) <=> q = e.refund
             /\ Recorded(q)'
                  <=> Recorded(q) \/ (q = e.refund /\ e.status \in DeadStatus)
        /\ Recorded(e.refund) => e.status \in DeadStatus
    BY <1>3, <2>1, AppliedCallbackEffect
  <2>3. e.status \in DeadStatus => ~AttemptOpen'
    BY <2>2 DEF AfterRefundEvent, RefundPaymentEvent, DeadStatus, InFlightStatus,
       AttemptOpen
  <2>4. Heeded(e)'
    BY <2>2, <2>3 DEF Heeded
  \* A dead refund's slot is only taken again to be confirmed.
  <2>5. ASSUME NEW f \in delivered PROVE Heeded(f)'
    <3>1. f.refund \in Refund
      BY DEF IInv, TypeOK, Event
    <3>2. Heeded(f)
      BY DEF AllHeeded
    <3> QED BY <2>2, <2>3, <3>1, <3>2 DEF Heeded
  <2> QED BY <1>1, <2>4, <2>5 DEF AllHeeded
<1> QED BY <1>2, <1>3

LEMMA OutcomesNext ==
    ASSUME IInv, AllHeeded, Announced, [Next]_vars
    PROVE  AllHeeded' /\ Announced'
<1>1. ASSUME NEW r \in Refund, NEW status \in RefundStatus,
             ForeignRefund(r, status) \/ StripeMoves(r, status)
      PROVE  AllHeeded' /\ Announced'
  <2>1. /\ refund' = [refund EXCEPT ![r] = status] /\ Emit(r, status)
        /\ UNCHANGED <<delivered, payment>>
    BY <1>1 DEF ForeignRefund, StripeMoves, Create
  <2> QED BY <2>1, AnnouncedStep DEF AllHeeded, Heeded, Recorded, Data, AttemptOpen
<1>2. ASSUME NEW r \in Refund, NEW status \in RefundStatus, StartRefund(r, status)
      PROVE  AllHeeded' /\ Announced'
  <2>1. refund' = [refund EXCEPT ![r] = status] /\ Emit(r, status)
    BY <1>2 DEF StartRefund, Create
  <2> QED BY <1>2, <2>1, AnnouncedStep, StartRefundHeeds
<1>3. ASSUME NEW r \in Refund, CancelRefund(r) \/ FlowCancelRefund(r)
      PROVE  AllHeeded' /\ Announced'
  <2>1. refund' = [refund EXCEPT ![r] = "canceled"] /\ Emit(r, "canceled")
    BY <1>3 DEF CancelRefund, FlowCancelRefund, ApiCancels
  <2> QED BY <1>3, <2>1, AnnouncedStep, CancelHeeds
<1>4. ASSUME NEW r \in Refund, StripeRepeats(r)
      PROVE  AllHeeded' /\ Announced'
  <2>1. events \subseteq events' /\ UNCHANGED <<refund, delivered, payment>>
    BY <1>4 DEF StripeRepeats
  <2> QED BY <2>1 DEF Announced, AllHeeded, Heeded, Recorded, Data, AttemptOpen
<1>5. ASSUME NEW e \in events, Callback(e)
      PROVE  AllHeeded' /\ Announced'
  <2>1. UNCHANGED <<refund, events>>
    BY <1>5 DEF Callback
  <2> QED BY <1>5, <2>1, CallbackHeeds DEF Announced
<1>6. CASE UNCHANGED vars
  BY <1>6 DEF vars, Announced, AllHeeded, Heeded, Recorded, Data, AttemptOpen
<1> QED BY <1>1, <1>2, <1>3, <1>4, <1>5, <1>6 DEF Next

LEMMA OutcomesInit ==
    ASSUME Init
    PROVE  AllHeeded /\ Announced
<1>1. delivered = {}
  BY DEF Init
<1>2. ASSUME NEW r \in Refund, refund[r] \in DeadStatus \cup {"succeeded"}
      PROVE  \E e \in events : e.refund = r /\ e.status = refund[r]
  <2>1. /\ r \in Legacy /\ refund[r] = "failed"
        /\ events = [refund : Legacy, status : {"pending", "failed"}, n : {1}]
    BY <1>2, LegacyAssumption DEF Init, DeadStatus
  <2>2. [refund |-> r, status |-> "failed", n |-> 1] \in events
    BY <2>1
  <2> QED BY <2>1, <2>2
<1> QED BY <1>1, <1>2 DEF AllHeeded, Announced

\* Whatever arrives late, twice or out of order, the payment knows how each of its
\* refunds ended once Stripe's events about it are delivered.
THEOREM OutcomesNeverLost == Spec => []NoOutcomeLost
<1>1. Spec => [](AllHeeded /\ Announced)
  BY OutcomesInit, OutcomesNext, InductiveInvariant, PTL DEF Spec
<1>2. AllHeeded /\ Announced => NoOutcomeLost
  <2> SUFFICES ASSUME AllHeeded, Announced, NEW r \in Refund,
                      refund[r] \in DeadStatus \cup {"succeeded"},
                      ~ToCome(r, refund[r])
               PROVE  /\ refund[r] \in DeadStatus =>
                           Recorded(r) /\ ~(AttemptOpen /\ HoldsSlot(Data, r))
                      /\ refund[r] = "succeeded" =>
                           \/ Recorded(r)
                           \/ \E e \in payment.applied_event_ids :
                                e.refund = r /\ e.status = "succeeded"
    BY DEF NoOutcomeLost
  <2>1. PICK e \in events : e.refund = r /\ e.status = refund[r]
    BY DEF Announced
  <2>2. e \in delivered
    BY <2>1 DEF ToCome
  <2>3. Heeded(e)
    BY <2>2 DEF AllHeeded
  <2> QED BY <2>1, <2>3 DEF Heeded
<1> QED BY <1>1, <1>2, PTL
=============================================================================
