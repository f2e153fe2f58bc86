-------------------------- MODULE RefundStaleProofs --------------------------
(* Proofs about RefundStaleMapping, for any set of refunds, any legacy history *)
(* and any number of Event objects and of updates waiting at once: whatever    *)
(* overtakes an update, the terminal records stay true and are never lost.     *)
EXTENDS RefundStaleMapping, RefundLifecycleProofs

-----------------------------------------------------------------------------
(* The inductive invariant. *)

\* A patch only speaks of refunds that are dead, says how they died, and leaves
\* the nested dictionary alone.  It can therefore be applied at any later time.
PatchIsTrue(patch) ==
    /\ WellTyped(patch)
    /\ LegacyKey \notin DOMAIN patch
    /\ \A r \in Refund :
         TerminalKey(r) \in DOMAIN patch => patch[TerminalKey(r)] = refund[r]

MappedIsTrue ==
    \A update \in mapped :
        /\ update.provider_event_id \in delivered \cup {NoEvent}
        /\ PatchIsTrue(update.provider_data)

StaleInv ==
    /\ TypeOK
    /\ EventsAreTrue
    /\ TerminalRecordIsTrue
    /\ MappedIsTrue

RecordsKept == \A r \in Refund : Recorded(r) => Recorded(r)'

-----------------------------------------------------------------------------
(* Patches. *)

\* A true patch stays true, as dead refunds stay dead.
LEMMA PatchStaysTrue ==
    ASSUME NEW patch, PatchIsTrue(patch),
           \A q \in Refund : refund[q] \in DeadStatus => refund'[q] = refund[q]
    PROVE  PatchIsTrue(patch)'
BY DEF PatchIsTrue, WellTyped

\* What a webhook about a refund is mapped to is true, now and later.
LEMMA RefundPatchIsTrue ==
    ASSUME NEW data, NEW e \in Event,
           e.status \in DeadStatus => refund[e.refund] = e.status
    PROVE  PatchIsTrue(RefundPatch(data, e))
<1> DEFINE patch == RefundPatch(data, e)
<1>1. e.refund \in Refund
  BY DEF Event
<1>2. /\ DOMAIN patch = PatchKeys(data, e)
      /\ DOMAIN patch \subseteq ProviderKey
      /\ LegacyKey \notin DOMAIN patch
      /\ \A r \in Refund :
           /\ TerminalKey(r) \in DOMAIN patch
                => r = e.refund /\ e.status \in DeadStatus
           /\ ConfirmationKey(r) \in DOMAIN patch => r = e.refund
  BY <1>1, KeysDistinct DEF RefundPatch, PatchKeys, ProviderKey
<1>3. ASSUME NEW k \in DOMAIN patch
      PROVE  patch[k] = CASE k = SlotKey -> e.refund
                          [] k = TerminalKey(e.refund) -> e.status
                          [] OTHER -> FALSE
  BY DEF RefundPatch
<1> HIDE DEF patch
<1>4. SlotKey \in DOMAIN patch => patch[SlotKey] \in Refund
  BY <1>1, <1>3, KeysDistinct
<1>5. ASSUME NEW r \in Refund, TerminalKey(r) \in DOMAIN patch
      PROVE  /\ patch[TerminalKey(r)] \in DeadStatus
             /\ patch[TerminalKey(r)] = refund[r]
  BY <1>2, <1>3, <1>5, KeysDistinct
<1>6. ASSUME NEW r \in Refund, ConfirmationKey(r) \in DOMAIN patch
      PROVE  patch[ConfirmationKey(r)] \in BOOLEAN
  BY <1>2, <1>3, <1>6, KeysDistinct
<1> QED BY <1>2, <1>4, <1>5, <1>6 DEF PatchIsTrue, WellTyped, patch

\* The answer of start_refund() only moves the slot.
LEMMA StartRefundPatchIsTrue ==
    ASSUME NEW r \in Refund
    PROVE  PatchIsTrue(StartRefundPatch(r))
BY KeysDistinct DEF StartRefundPatch, PatchIsTrue, WellTyped, ProviderKey

\* Merging a true patch keeps every record, and adds only true ones.
LEMMA MergeTruePatch ==
    ASSUME TerminalRecordIsTrue, WellTyped(Data),
           NEW patch, PatchIsTrue(patch),
           UNCHANGED refund, Data' = ShallowMerge(Data, patch)
    PROVE  WellTyped(Data') /\ TerminalRecordIsTrue' /\ RecordsKept
<1> DEFINE new == ShallowMerge(Data, patch)
<1>1. /\ DOMAIN new = DOMAIN Data \cup DOMAIN patch
      /\ \A k \in DOMAIN patch : new[k] = patch[k]
      /\ \A k \in DOMAIN Data \ DOMAIN patch : new[k] = Data[k]
  BY MergeLookup
<1> HIDE DEF new
<1>2. WellTyped(new)
  BY <1>1 DEF PatchIsTrue, WellTyped
<1>3. ASSUME NEW r \in Refund
      PROVE  /\ RecordedTerminal(Data, r) => RecordedTerminal(new, r)
             /\ RecordedTerminal(new, r)
                  => RecordedTerminal(Data, r) \/ TerminalKey(r) \in DOMAIN patch
  BY <1>1 DEF PatchIsTrue, RecordedTerminal
<1>4. ASSUME NEW r \in Refund, TerminalKey(r) \in DOMAIN patch
      PROVE  refund[r] \in DeadStatus /\ new[TerminalKey(r)] = refund[r]
  BY <1>1, <1>4 DEF PatchIsTrue, WellTyped
<1>5. ASSUME NEW r \in Refund, TerminalKey(r) \in DOMAIN new
      PROVE  new[TerminalKey(r)] = refund[r]
  BY <1>1, <1>4, <1>5 DEF TerminalRecordIsTrue
<1>6. ASSUME NEW r \in Refund, RecordedTerminal(new, r)
      PROVE  refund[r] \in DeadStatus
  BY <1>3, <1>4, <1>6 DEF TerminalRecordIsTrue, Recorded, RecordedTerminal
<1>7. Data' = new
  BY DEF new
<1>8. TerminalRecordIsTrue'
  BY <1>5, <1>6, <1>7 DEF TerminalRecordIsTrue, Recorded, RecordedTerminal
<1> QED BY <1>2, <1>3, <1>7, <1>8 DEF RecordsKept, Recorded, RecordedTerminal

-----------------------------------------------------------------------------
(* Each action preserves the invariant and every record. *)

\* Stripe moves, and at most the answer of a start_refund() joins the updates.
LEMMA StripeStaleStep ==
    ASSUME StaleInv,
           refund' \in [Refund -> RefundStatus \cup {"none"}],
           events' \subseteq Event,
           events \subseteq events',
           EventsAreTrue',
           \A q \in Refund : refund[q] \in DeadStatus => refund'[q] = refund[q],
           UNCHANGED <<delivered, payment>>,
           \A update \in mapped' :
              \/ update \in mapped
              \/ /\ update.provider_event_id = NoEvent
                 /\ \E r \in Refund : update.provider_data = StartRefundPatch(r)
    PROVE  StaleInv' /\ RecordsKept
<1>1. Data' = Data /\ \A q \in Refund : Recorded(q)' <=> Recorded(q)
  BY DEF Data, Recorded
<1>2. TypeOK'
  BY DEF StaleInv, TypeOK
<1>3. TerminalRecordIsTrue'
  <2>1. ASSUME NEW q \in Refund, Recorded(q)
        PROVE  refund'[q] = refund[q]
    BY <2>1 DEF StaleInv, TerminalRecordIsTrue
  <2> QED BY <1>1, <2>1
       DEF StaleInv, TerminalRecordIsTrue, Recorded, RecordedTerminal
<1>4. MappedIsTrue'
  <2> SUFFICES ASSUME NEW update \in mapped'
               PROVE  /\ update.provider_event_id \in delivered \cup {NoEvent}
                      /\ PatchIsTrue(update.provider_data)'
    BY DEF MappedIsTrue
  <2>1. CASE update \in mapped
    <3>1. PatchIsTrue(update.provider_data)
      BY <2>1 DEF StaleInv, MappedIsTrue
    <3> QED BY <2>1, <3>1, PatchStaysTrue DEF StaleInv, MappedIsTrue
  <2>2. ASSUME NEW r \in Refund,
               update.provider_event_id = NoEvent,
               update.provider_data = StartRefundPatch(r)
        PROVE  PatchIsTrue(update.provider_data)'
    <3>1. PatchIsTrue(StartRefundPatch(r))
      BY StartRefundPatchIsTrue
    <3> QED BY <2>2, <3>1, PatchStaysTrue
  <2> QED BY <2>1, <2>2 DEF StaleInv, MappedIsTrue
<1> QED BY <1>1, <1>2, <1>3, <1>4 DEF StaleInv, RecordsKept

\* A refund that is created or moved on was not dead.
LEMMA LiveRefundStep ==
    ASSUME StaleInv, NEW r \in Refund, NEW status \in RefundStatus,
           refund[r] \notin DeadStatus,
           refund' = [refund EXCEPT ![r] = status],
           Emit(r, status)
    PROVE  /\ refund' \in [Refund -> RefundStatus \cup {"none"}]
           /\ events' \subseteq Event
           /\ events \subseteq events'
           /\ EventsAreTrue'
           /\ ~Recorded(r)
           /\ \A q \in Refund : refund[q] \in DeadStatus => refund'[q] = refund[q]
           /\ \A q \in Refund \ {r} : refund'[q] = refund[q]
BY StripeKeepsTruth DEF StaleInv

LEMMA StripeMovesStale ==
    ASSUME StaleInv, NEW r \in Refund, NEW status \in RefundStatus,
           ForeignRefund(r, status) \/ StripeMoves(r, status),
           UNCHANGED mapped
    PROVE  StaleInv' /\ RecordsKept
<1>1. /\ refund[r] \notin DeadStatus
      /\ refund' = [refund EXCEPT ![r] = status]
      /\ Emit(r, status)
      /\ UNCHANGED <<delivered, payment>>
  BY DEF ForeignRefund, Create, Fresh, StripeMoves, RefundTransitions, DeadStatus
<1> QED BY <1>1, LiveRefundStep, StripeStaleStep

LEMMA StripeRepeatsStale ==
    ASSUME StaleInv, NEW r \in Refund, StripeRepeats(r), UNCHANGED mapped
    PROVE  StaleInv' /\ RecordsKept
<1>1. PICK n \in 2..MaxRepeats + 1 :
        events' = events \cup {[refund |-> r, status |-> refund[r], n |-> n]}
  BY DEF StripeRepeats
<1>2. /\ refund[r] # "none"
      /\ UNCHANGED <<refund, delivered, payment>>
  BY DEF StripeRepeats
<1>3. [refund |-> r, status |-> refund[r], n |-> n] \in Event
  BY <1>2, MaxRepeatsAssumption DEF Event, StaleInv, TypeOK
<1>4. EventsAreTrue'
  BY <1>1, <1>2 DEF StaleInv, EventsAreTrue
<1>5. /\ refund' \in [Refund -> RefundStatus \cup {"none"}]
      /\ events' \subseteq Event
      /\ events \subseteq events'
  BY <1>1, <1>2, <1>3 DEF StaleInv, TypeOK
<1> QED BY <1>2, <1>4, <1>5, StripeStaleStep

LEMMA BeginStartRefundStale ==
    ASSUME StaleInv, NEW r \in Refund, NEW status \in RefundStatus,
           BeginStartRefund(r, status)
    PROVE  StaleInv' /\ RecordsKept
<1>1. /\ refund[r] \notin DeadStatus
      /\ refund' = [refund EXCEPT ![r] = status]
      /\ Emit(r, status)
      /\ UNCHANGED <<delivered, payment>>
  BY DEF BeginStartRefund, Create, Fresh, DeadStatus
<1>2. mapped' = mapped \cup {[payment_event     |-> "REFUND_REQUESTED",
                              provider_event_id |-> NoEvent,
                              provider_data     |-> StartRefundPatch(r)]}
  BY DEF BeginStartRefund
<1>3. ASSUME NEW update \in mapped'
      PROVE  \/ update \in mapped
             \/ /\ update.provider_event_id = NoEvent
                /\ update.provider_data = StartRefundPatch(r)
  BY <1>2
<1>4. /\ refund' \in [Refund -> RefundStatus \cup {"none"}]
      /\ events' \subseteq Event
      /\ events \subseteq events'
      /\ EventsAreTrue'
      /\ \A q \in Refund : refund[q] \in DeadStatus => refund'[q] = refund[q]
  BY <1>1, LiveRefundStep
<1> QED BY <1>1, <1>3, <1>4, StripeStaleStep

\* Both ways to cancel: the refund dies and is recorded in one step.
LEMMA CancelStale ==
    ASSUME StaleInv, NEW r \in Refund,
           CancelRefund(r) \/ FlowCancelRefund(r),
           UNCHANGED mapped
    PROVE  StaleInv' /\ RecordsKept
<1>1. /\ ApiCancels(r)
      /\ DOMAIN payment' = {"status", "provider_data", "applied_event_ids"}
      /\ payment'.status \in {payment.status, "PAID"}
      /\ payment'.applied_event_ids = payment.applied_event_ids
      /\ Data' = CancelRefundData(Data, r)
  <2>1. CASE CancelRefund(r)
    BY <2>1 DEF CancelRefund, Data, StaleInv, TypeOK
  <2>2. CASE FlowCancelRefund(r)
    <3>1. /\ ApiCancels(r)
          /\ DOMAIN payment' = {"status", "provider_data", "applied_event_ids"}
          /\ payment'.status = "PAID"
          /\ payment'.applied_event_ids = payment.applied_event_ids
          /\ Data' = ShallowMerge(CancelRefundData(Data, r), EmptyData)
      BY <2>2 DEF FlowCancelRefund, ApplyRefundEvent, AfterRefundEvent,
                  Data, StaleInv, TypeOK
    <3>2. Data' = CancelRefundData(Data, r)
      BY <3>1 DEF CancelRefundData, ShallowMerge, EmptyData
    <3> QED BY <3>1, <3>2
  <2> QED BY <2>1, <2>2
<1>2. /\ refund[r] \notin DeadStatus
      /\ refund' = [refund EXCEPT ![r] = "canceled"]
      /\ Emit(r, "canceled")
      /\ UNCHANGED delivered
      /\ "canceled" \in RefundStatus
  BY <1>1 DEF ApiCancels, DeadStatus, RefundStatus
<1>3. /\ refund' \in [Refund -> RefundStatus \cup {"none"}]
      /\ events' \subseteq Event
      /\ events \subseteq events'
      /\ EventsAreTrue'
      /\ \A q \in Refund : refund[q] \in DeadStatus => refund'[q] = refund[q]
      /\ \A q \in Refund \ {r} : refund'[q] = refund[q]
      /\ refund'[r] = "canceled"
  BY <1>2, LiveRefundStep DEF StaleInv, TypeOK
<1>4. WellTyped(Data)
  BY DEF StaleInv, TypeOK, Data
<1>5. /\ WellTyped(Data')
      /\ \A q \in Refund :
           /\ Recorded(q)' <=> Recorded(q) \/ q = r
           /\ TerminalKey(q) \in DOMAIN Data' =>
                IF q = r THEN Data'[TerminalKey(q)] = "canceled"
                ELSE /\ TerminalKey(q) \in DOMAIN Data
                     /\ Data'[TerminalKey(q)] = Data[TerminalKey(q)]
  BY <1>1, <1>4, MergeCancelRefund DEF Recorded, RecordedTerminal
<1>6. TypeOK'
  BY <1>1, <1>2, <1>3, <1>5 DEF StaleInv, TypeOK, Data
<1>7. TerminalRecordIsTrue'
  BY <1>3, <1>5 DEF StaleInv, TerminalRecordIsTrue, DeadStatus
<1>8. MappedIsTrue'
  <2> SUFFICES ASSUME NEW update \in mapped
               PROVE  /\ update.provider_event_id \in delivered \cup {NoEvent}
                      /\ PatchIsTrue(update.provider_data)'
    BY <1>2 DEF MappedIsTrue
  <2>1. PatchIsTrue(update.provider_data)
    BY DEF StaleInv, MappedIsTrue
  <2> QED BY <1>3, <2>1, PatchStaysTrue DEF StaleInv, MappedIsTrue
<1> QED BY <1>3, <1>5, <1>6, <1>7, <1>8 DEF StaleInv, RecordsKept

\* Mapping an event: what is mapped tells what the event tells.
LEMMA MapCallbackStale ==
    ASSUME StaleInv, NEW e \in events, MapCallback(e)
    PROVE  StaleInv' /\ RecordsKept
<1>1. /\ mapped' = mapped \cup {RefundUpdate(Data, e)}
      /\ delivered' = delivered \cup {e}
      /\ UNCHANGED <<refund, events, payment>>
  BY DEF MapCallback, Data
<1>2. e \in Event /\ (e.status \in DeadStatus => refund[e.refund] = e.status)
  BY DEF StaleInv, TypeOK, EventsAreTrue
<1>3. PatchIsTrue(RefundPatch(Data, e))
  BY <1>2, RefundPatchIsTrue
<1>4. Data' = Data /\ \A q \in Refund : Recorded(q)' <=> Recorded(q)
  BY <1>1 DEF Data, Recorded
<1>5. TypeOK' /\ EventsAreTrue' /\ TerminalRecordIsTrue'
  BY <1>1, <1>4 DEF StaleInv, TypeOK, EventsAreTrue, TerminalRecordIsTrue
<1>6. MappedIsTrue'
  <2> SUFFICES ASSUME NEW update \in mapped'
               PROVE  /\ update.provider_event_id \in delivered' \cup {NoEvent}
                      /\ PatchIsTrue(update.provider_data)'
    BY DEF MappedIsTrue
  <2>1. PatchIsTrue(update.provider_data)
    BY <1>1, <1>3 DEF StaleInv, MappedIsTrue, RefundUpdate
  <2>2. update.provider_event_id \in delivered' \cup {NoEvent}
    BY <1>1 DEF StaleInv, MappedIsTrue, RefundUpdate
  <2> QED BY <1>1, <2>1, <2>2, PatchStaysTrue
<1> QED BY <1>4, <1>5, <1>6 DEF StaleInv, RecordsKept

\* Applying an update, however much was saved since it was mapped.
LEMMA ApplyMappedStale ==
    ASSUME StaleInv, NEW update \in mapped, ApplyMapped(update)
    PROVE  StaleInv' /\ RecordsKept
<1> DEFINE id == update.provider_event_id
           patch == update.provider_data
<1>1. /\ id \in delivered \cup {NoEvent}
      /\ PatchIsTrue(patch)
  BY DEF StaleInv, MappedIsTrue
<1>2. mapped' \subseteq mapped /\ UNCHANGED <<refund, events, delivered>>
  BY DEF ApplyMapped
<1>3. WellTyped(Data)
  BY DEF StaleInv, TypeOK, Data
<1>4. EventsAreTrue'
  BY <1>2 DEF StaleInv, EventsAreTrue
<1>5. MappedIsTrue'
  <2> SUFFICES ASSUME NEW other \in mapped
               PROVE  /\ other.provider_event_id \in delivered \cup {NoEvent}
                      /\ PatchIsTrue(other.provider_data)'
    BY <1>2 DEF MappedIsTrue
  <2>1. PatchIsTrue(other.provider_data)
    BY DEF StaleInv, MappedIsTrue
  <2> QED BY <1>2, <2>1, PatchStaysTrue DEF StaleInv, MappedIsTrue
<1>6. CASE id # NoEvent /\ id \in payment.applied_event_ids
  <2>1. UNCHANGED payment
    BY <1>6 DEF ApplyMapped, ApplyRefundUpdate
  <2>2. Data' = Data /\ \A q \in Refund : Recorded(q)' <=> Recorded(q)
    BY <2>1 DEF Data, Recorded
  <2>3. TypeOK' /\ TerminalRecordIsTrue'
    BY <1>2, <2>1, <2>2 DEF StaleInv, TypeOK, TerminalRecordIsTrue
  <2> QED BY <1>4, <1>5, <2>2, <2>3 DEF StaleInv, RecordsKept
<1>7. CASE id = NoEvent \/ id \notin payment.applied_event_ids
  <2>1. /\ DOMAIN payment' = {"status", "provider_data", "applied_event_ids"}
        /\ payment'.status = AfterRefundEvent(update.payment_event)
        /\ payment'.applied_event_ids \subseteq delivered
        /\ Data' = ShallowMerge(Data, patch)
    <3>1. CASE id = NoEvent
      BY <3>1 DEF ApplyMapped, ApplyRefundEvent, Data, StaleInv, TypeOK
    <3>2. CASE id # NoEvent
      BY <1>1, <1>7, <3>2
         DEF ApplyMapped, ApplyRefundUpdate, ApplyRefundEvent, Data, StaleInv, TypeOK
    <3> QED BY <3>1, <3>2
  <2>2. payment'.status \in {"PAID", "REFUND_STARTED"}
    BY <2>1 DEF AfterRefundEvent
  <2>3. WellTyped(Data') /\ TerminalRecordIsTrue' /\ RecordsKept
    BY <1>1, <1>2, <1>3, <2>1, MergeTruePatch DEF StaleInv
  <2>4. TypeOK'
    BY <1>2, <2>1, <2>2, <2>3 DEF StaleInv, TypeOK, Data
  <2> QED BY <1>4, <1>5, <2>3, <2>4 DEF StaleInv
<1> QED BY <1>6, <1>7

LEMMA StaleInitInv == StaleInit => StaleInv
BY InitIInv DEF StaleInit, StaleInv, IInv, MappedIsTrue

LEMMA StaleNextInv == StaleInv /\ [StaleNext]_staleVars => StaleInv' /\ RecordsKept
<1> SUFFICES ASSUME StaleInv, [StaleNext]_staleVars
             PROVE  StaleInv' /\ RecordsKept
  OBVIOUS
<1>1. ASSUME NEW r \in Refund, NEW status \in RefundStatus,
             ForeignRefund(r, status) \/ StripeMoves(r, status),
             UNCHANGED mapped
      PROVE  StaleInv' /\ RecordsKept
  BY <1>1, StripeMovesStale
<1>2. ASSUME NEW r \in Refund,
             CancelRefund(r) \/ FlowCancelRefund(r) \/ StripeRepeats(r),
             UNCHANGED mapped
      PROVE  StaleInv' /\ RecordsKept
  BY <1>2, CancelStale, StripeRepeatsStale
<1>3. ASSUME NEW r \in Refund, NEW status \in RefundStatus,
             BeginStartRefund(r, status)
      PROVE  StaleInv' /\ RecordsKept
  BY <1>3, BeginStartRefundStale
<1>4. ASSUME NEW e \in events, MapCallback(e)
      PROVE  StaleInv' /\ RecordsKept
  BY <1>4, MapCallbackStale
<1>5. ASSUME NEW update \in mapped, ApplyMapped(update)
      PROVE  StaleInv' /\ RecordsKept
  BY <1>5, ApplyMappedStale
<1>6. CASE UNCHANGED staleVars
  <2>1. UNCHANGED <<refund, events, delivered, payment, mapped>>
    BY <1>6 DEF staleVars, vars
  <2>2. Data' = Data /\ \A q \in Refund : Recorded(q)' <=> Recorded(q)
    BY <2>1 DEF Data, Recorded
  <2>3. TypeOK' /\ EventsAreTrue' /\ TerminalRecordIsTrue'
    BY <2>1, <2>2 DEF StaleInv, TypeOK, EventsAreTrue, TerminalRecordIsTrue
  <2>4. MappedIsTrue'
    BY <2>1 DEF StaleInv, MappedIsTrue, PatchIsTrue
  <2> QED BY <2>2, <2>3, <2>4 DEF StaleInv, RecordsKept
<1> QED BY <1>1, <1>2, <1>3, <1>4, <1>5, <1>6 DEF StaleNext

-----------------------------------------------------------------------------
(* The theorems. *)

LEMMA StaleInvariant == StaleSpec => []StaleInv
BY StaleInitInv, StaleNextInv, PTL DEF StaleSpec

\* Every waiting update keeps its type, and comes from a delivered event or from
\* start_refund().
THEOREM StaleTypeCorrect == StaleSpec => []StaleTypeOK
<1>1. StaleInv => StaleTypeOK
  BY DEF StaleInv, MappedIsTrue, PatchIsTrue, StaleTypeOK
<1> QED BY <1>1, StaleInvariant, PTL

\* Without any serialization of callbacks, a terminal record is still true.
THEOREM StaleRecordsAreTrue == StaleSpec => []TerminalRecordIsTrue
<1>1. StaleInv => TerminalRecordIsTrue
  BY DEF StaleInv
<1> QED BY <1>1, StaleInvariant, PTL

\* And none is ever forgotten, whatever snapshot an update was mapped from.
THEOREM StaleRecordsKept == StaleSpec => TerminalRecordsKept
<1>1. StaleInv /\ [StaleNext]_staleVars
        => [\A r \in Refund : Recorded(r) => Recorded(r)']_vars
  BY StaleNextInv DEF RecordsKept
<1> QED BY <1>1, StaleInvariant, PTL DEF StaleSpec, TerminalRecordsKept
=============================================================================
