------------------------------ MODULE TradeProofs ------------------------------
(***************************************************************************)
(* Purchases, tickets and payouts after any history of calls.              *)
(*                                                                         *)
(* What a call may do to the configuration and the revenue split of an     *)
(* event, and what follows for the money paid out: an event is settled     *)
(* once, and its recipients are paid the settlement and no more.           *)
(*                                                                         *)
(* A request is used once, an event never oversells, the owner index lists *)
(* every ticket once under its owner, and a listing is always by the       *)
(* present owner.                                                          *)
(***************************************************************************)
EXTENDS BooksProofs, SequenceTheorems

-----------------------------------------------------------------------------
(* The life of an event's configuration.                                   *)

\* The configuration of an event just created, or synced late.
NewConfig(terms) ==
  [terms |-> terms, sold_count |-> 0, admin_delay_extension_ledgers |-> 0,
   cancel_ledger |-> None, withdrawable_ratio_bps |-> None, organizer_withdrawn |-> FALSE]

\* A split only ever arrives with the configuration.
Created(e) ==
  /\ config[e] = None
  /\ \E terms \in SyncedTerms :
       /\ config'[e] = NewConfig(terms)
       /\ \/ splits'[e] = splits[e]
          \/ splits[e] = <<>> /\ ValidSplits(splits'[e], terms.organizer)

SoldOne(e) ==
  \E p \in PaymentParams :
    /\ p.event = e /\ CreatePayment(p)
    /\ config'[e] = [config[e] EXCEPT !.sold_count = @ + 1]

CancelledNow(e) ==
  /\ config[e].cancel_ledger = None
  /\ config'[e] = [config[e] EXCEPT
       !.cancel_ledger = now, !.withdrawable_ratio_bps = CancellationRatio(config[e].terms)]

LatchedNow(e) ==
  /\ ~config[e].organizer_withdrawn
  /\ splits[e] = <<>>
  /\ config'[e] = [config[e] EXCEPT !.organizer_withdrawn = TRUE]

\* What becomes of the configuration of event e in a step.
ConfigFate(e) ==
  \/ Created(e)
  \/ config'[e] = config[e] /\ splits'[e] = splits[e]
  \/ /\ config[e] # None /\ splits'[e] = splits[e]
     /\ \/ \E terms \in SyncedTerms : config'[e] = [config[e] EXCEPT !.terms = terms]
        \/ \E d \in DelayExtensions :
             config'[e] = [config[e] EXCEPT !.admin_delay_extension_ledgers = @ + d]
        \/ SoldOne(e) \/ CancelledNow(e) \/ LatchedNow(e)

LEMMA ConfigStored ==
  ASSUME RecordsTypeOK, NEW e \in Events, NEW terms \in SyncedTerms, StoreConfig(e, terms)
  PROVE  /\ \A d \in Events \ {e} : config'[d] = config[d]
         /\ \/ config[e] = None /\ config'[e] = NewConfig(terms)
            \/ config[e] # None /\ config'[e] = [config[e] EXCEPT !.terms = terms]
BY DEF StoreConfig, NewConfig, RecordsTypeOK, EventTypeOK

LEMMA EventContractFates ==
  ASSUME RecordsTypeOK, NEW e \in Events, EventContractCall(e), NEW d \in Events
  PROVE  ConfigFate(d)
<1>1. ASSUME NEW terms \in SyncedTerms, SyncEventConfig(e, terms) PROVE ConfigFate(d)
  <2>1. StoreConfig(e, terms) /\ UNCHANGED splits
    BY <1>1 DEF SyncEventConfig
  <2>2. QED
    BY <2>1, ConfigStored DEF ConfigFate, Created
<1>2. ASSUME NEW terms \in SyncedTerms, NEW rows \in SplitTables,
             config[e] = None, SyncNewEvent(e, terms, rows)
      PROVE  ConfigFate(d)
  <2>1. StoreConfig(e, terms)
    BY <1>2 DEF SyncNewEvent
  <2>2. UNCHANGED splits \/ StoreSplits(e, rows, terms.organizer)
    BY <1>2 DEF SyncNewEvent
  <2>3. CASE UNCHANGED splits
    BY <2>1, <2>3, ConfigStored DEF ConfigFate, Created
  <2>4. CASE StoreSplits(e, rows, terms.organizer)
    <3>1. /\ splits[e] = <<>> /\ splits'[e] = rows /\ ValidSplits(rows, terms.organizer)
          /\ \A c \in Events \ {e} : splits'[c] = splits[c]
      BY <2>4 DEF StoreSplits, RecordsTypeOK, SplitTypeOK
    <3>2. QED
      BY <1>2, <2>1, <3>1, ConfigStored DEF ConfigFate, Created
  <2>5. QED
    BY <2>2, <2>3, <2>4
<1>3. ASSUME OpenToEventContract(e), CancelEvent(e) PROVE ConfigFate(d)
  <2>1. /\ config[e] # None /\ UNCHANGED splits
        /\ config' = [config EXCEPT
             ![e].cancel_ledger = now,
             ![e].withdrawable_ratio_bps = CancellationRatio(config[e].terms)]
    BY <1>3 DEF CancelEvent
  <2>2. config[e].cancel_ledger = None
    BY <1>3, <2>1 DEF OpenToEventContract
  <2>3. /\ config'[e] = [config[e] EXCEPT !.cancel_ledger = now,
                          !.withdrawable_ratio_bps = CancellationRatio(config[e].terms)]
        /\ \A c \in Events \ {e} : config'[c] = config[c]
    BY <2>1 DEF RecordsTypeOK, EventTypeOK, EventConfig
  <2>4. QED
    BY <2>1, <2>2, <2>3 DEF ConfigFate, CancelledNow
<1>4. ASSUME NEW terms \in SyncedTerms, SyncAndResume(e, terms) PROVE ConfigFate(d)
  <2>1. StoreConfig(e, terms) /\ UNCHANGED splits
    BY <1>4 DEF SyncAndResume
  <2>2. QED
    BY <2>1, ConfigStored DEF ConfigFate, Created
<1>5. ASSUME UNCHANGED <<config, splits>> PROVE ConfigFate(d)
  BY <1>5 DEF ConfigFate
<1>6. QED
  BY <1>1, <1>2, <1>3, <1>4, <1>5
     DEF EventContractCall, SyncEventPrivacy, PostponeEvent

LEMMA PurchaseFates ==
  ASSUME RecordsTypeOK, NEW p \in PaymentParams, CreatePayment(p), NEW d \in Events
  PROVE  ConfigFate(d)
<1>1. p.event \in Events
  BY RequestTypes
<1>2. /\ config' = IF config[p.event] = None THEN config
                   ELSE [config EXCEPT ![p.event].sold_count = @ + 1]
      /\ UNCHANGED splits
  BY DEF CreatePayment, splitVars
<1>3. CASE config[p.event] = None
  BY <1>2, <1>3 DEF ConfigFate
<1>4. CASE config[p.event] # None
  <2>1. /\ config'[p.event] = [config[p.event] EXCEPT !.sold_count = @ + 1]
        /\ \A c \in Events \ {p.event} : config'[c] = config[c]
    BY <1>1, <1>2, <1>4 DEF RecordsTypeOK, EventTypeOK, EventConfig
  <2>2. QED
    BY <1>2, <1>4, <2>1 DEF ConfigFate, SoldOne
<1>5. QED
  BY <1>3, <1>4

LEMMA LatchFates ==
  ASSUME RecordsTypeOK, NEW e \in Events, NoSplits(e), ~Latched(e), Latch(e),
         UNCHANGED splits, NEW d \in Events
  PROVE  ConfigFate(d)
<1>1. CASE config[e] = None
  BY <1>1 DEF Latch, ConfigFate
<1>2. CASE config[e] # None
  <2>1. /\ config'[e] = [config[e] EXCEPT !.organizer_withdrawn = TRUE]
        /\ \A c \in Events \ {e} : config'[c] = config[c]
    BY <1>2 DEF Latch, RecordsTypeOK, EventTypeOK
  <2>2. QED
    BY <1>2, <2>1 DEF ConfigFate, LatchedNow, Latched, NoSplits
<1>3. QED
  BY <1>1, <1>2

LEMMA PayoutFates ==
  ASSUME RecordsTypeOK, NEW d \in Events
  PROVE  /\ \A e \in Events : EscrowCall(e) => ConfigFate(d)
         /\ \A e \in Events, u \in Users : SplitCall(e, u) => ConfigFate(d)
<1>1. ASSUME UNCHANGED <<config, splits>> PROVE ConfigFate(d)
  BY <1>1 DEF ConfigFate
<1>2. ASSUME NEW e \in Events, Withdraw(e) \/ WithdrawRevenue(e) PROVE ConfigFate(d)
  <2>1. NoSplits(e) /\ ~Latched(e) /\ Latch(e) /\ UNCHANGED splits
    BY <1>2 DEF Withdraw, WithdrawRevenue, Latched, splitVars
  <2>2. QED
    BY <2>1, LatchFates
<1>3. ASSUME NEW e \in Events, EscrowCall(e), ~Withdraw(e), ~WithdrawRevenue(e)
      PROVE  UNCHANGED <<config, splits>>
  BY <1>3 DEF EscrowCall, ProcessDisputeTimeouts, WithdrawToken, WithdrawAllTokens,
              ReleaseIfExpired, WithdrawPlatformRevenue, eventVars, splitVars
<1>4. ASSUME NEW e \in Events, NEW u \in Users, SplitCall(e, u)
      PROVE  UNCHANGED <<config, splits>>
  BY <1>4 DEF SplitCall, WithdrawSplit, ReassignFlaggedShare, FlagCohost, ReleaseFlaggedShare,
              eventVars
<1>5. QED
  BY <1>1, <1>2, <1>3, <1>4

\* No call does anything else to the configuration of an event.
LEMMA ConfigFates ==
  ASSUME RecordsTypeOK, [Next]_vars, NEW d \in Events
  PROVE  ConfigFate(d)
<1>1. ASSUME UNCHANGED <<config, splits>> PROVE ConfigFate(d)
  BY <1>1 DEF ConfigFate
<1>2. CASE Tick
  BY <1>1, <1>2 DEF Tick, eventVars, splitVars
<1>3. ASSUME NEW e \in Events,
             \/ \E s \in AdminStatuses : SetEventStatus(e, s)
             \/ \E u \in Users, end \in EndTimes : SetEventEndTime(e, u, end)
      PROVE  ConfigFate(d)
  BY <1>1, <1>3 DEF SetEventStatus, SetEventEndTime
<1>4. ASSUME \/ \E bps \in FeeRates : SetPlatformFee(bps)
             \/ \E s \in PauseSwitch : SetPaused(s)
             \/ \E t \in Tokens : AddSupportedToken(t)
      PROVE  ConfigFate(d)
  BY <1>1, <1>4 DEF SetPlatformFee, SetPaused, AddSupportedToken, eventVars
<1>5. ASSUME NEW e \in Events, NEW n \in DelayExtensions, ExtendWithdrawalDelay(e, n)
      PROVE  ConfigFate(d)
  <2>1. /\ config[e] # None /\ UNCHANGED splits
        /\ config'[e] = [config[e] EXCEPT !.admin_delay_extension_ledgers = @ + n]
        /\ \A c \in Events \ {e} : config'[c] = config[c]
    BY <1>5 DEF ExtendWithdrawalDelay, RecordsTypeOK, EventTypeOK
  <2>2. QED
    BY <2>1 DEF ConfigFate
<1>6. ASSUME NEW i \in PaymentIds, RefundCall(i) PROVE ConfigFate(d)
  <2>1. PICK amount \in Int, s \in {"Held", "Refunded"} : RefundOf(i, amount, s)
    BY <1>6, RefundCalls
  <2>2. QED
    BY <1>1, <2>1 DEF RefundOf, RefundFrame, eventVars, splitVars
<1>7. ASSUME NEW i \in PaymentIds,
             \/ ApproveRefund(i) \/ RejectDispute(i) \/ RaiseDispute(i) \/ ResaleCall(i)
             \/ \E c \in EmailCommitments : BindEmailCommitment(i, c)
             \/ \E u \in Users : BuyResaleTicket(i, u)
      PROVE  ConfigFate(d)
  BY <1>1, <1>7, ZenonT(30) DEF ApproveRefund, RejectDispute, RaiseDispute, ResaleCall,
       ListTicketForResale, DelistTicket, BindEmailCommitment, BuyResaleTicket,
       eventVars, splitVars
<1>8. CASE AdminCall
  BY <1>3, <1>4, <1>5, <1>6, <1>7, <1>8, PayoutFates, ConstantsAssumption, Zenon
     DEF AdminCall, RefundCall, EscrowCall, SplitCall
<1>9. CASE AttendeeCall
  BY <1>6, <1>7, <1>9, EntryPoints, PurchaseFates, Zenon DEF AttendeeCall, RefundCall, ResaleCall
<1>10. CASE PayoutCall
  BY <1>10, PayoutFates, Zenon DEF PayoutCall, EscrowCall, SplitCall
<1>11. CASE UNCHANGED vars
  BY <1>1, <1>11 DEF vars, eventVars, splitVars
<1>12. QED
  BY <1>2, <1>8, <1>9, <1>10, <1>11, EventContractFates DEF Next

\* What outlives every step, once an event has a configuration: its split, its
\* latch, and the moment and the ratio of its cancellation.
LEMMA ConfigEvolves ==
  ASSUME RecordsTypeOK, [Next]_vars, NEW e \in Events, config[e] # None
  PROVE  /\ config'[e] \in EventConfig /\ config'[e] # None
         /\ splits'[e] = splits[e]
         /\ config[e].organizer_withdrawn => config'[e].organizer_withdrawn
         /\ config[e].cancel_ledger # None =>
              /\ config'[e].cancel_ledger = config[e].cancel_ledger
              /\ config'[e].withdrawable_ratio_bps = config[e].withdrawable_ratio_bps
         /\ \/ config'[e].cancel_ledger # None
            \/ config'[e].withdrawable_ratio_bps = config[e].withdrawable_ratio_bps
         /\ config'[e].terms \in SyncedTerms \cup {config[e].terms}
<1>1. config[e] \in EventConfig /\ ConfigFate(e)
  BY ConfigFates, ConfigCounters DEF RecordsTypeOK
<1>2. now \in Nat /\ CancellationRatio(config[e].terms) \in Bps
  <2>1. config[e].terms \in Terms /\ now \in Nat
    BY <1>1 DEF EventConfig, RecordsTypeOK, AdminTypeOK
  <2>2. QED
    BY <2>1, RatioIsBps
<1> DEFINE ratio == CancellationRatio(config[e].terms)
<1> HIDE DEF ratio
<1>3. ASSUME NEW c, c = config'[e], c \in EventConfig PROVE config'[e] # None
  BY <1>3, NoneAssumption
<1>4. CASE config'[e] = config[e] /\ splits'[e] = splits[e]
  BY <1>1, <1>4
<1>5. ASSUME NEW terms \in SyncedTerms, config'[e] = [config[e] EXCEPT !.terms = terms]
      PROVE  /\ config'[e] \in EventConfig
             /\ config'[e].organizer_withdrawn = config[e].organizer_withdrawn
             /\ config'[e].cancel_ledger = config[e].cancel_ledger
             /\ config'[e].withdrawable_ratio_bps = config[e].withdrawable_ratio_bps
             /\ config'[e].terms = terms
  <2>1. terms \in Terms
    BY ConstantsAssumption
  <2>2. QED
    BY <1>1, <1>5, <2>1 DEF EventConfig
<1>6. ASSUME \/ \E d \in DelayExtensions :
                  config'[e] = [config[e] EXCEPT !.admin_delay_extension_ledgers = @ + d]
             \/ SoldOne(e)
      PROVE  /\ config'[e] \in EventConfig
             /\ config'[e].organizer_withdrawn = config[e].organizer_withdrawn
             /\ config'[e].cancel_ledger = config[e].cancel_ledger
             /\ config'[e].withdrawable_ratio_bps = config[e].withdrawable_ratio_bps
             /\ config'[e].terms = config[e].terms
  <2>1. \A d \in DelayExtensions : d \in Nat
    BY ConstantsAssumption
  <2>2. config[e].sold_count \in Nat /\ config[e].admin_delay_extension_ledgers \in Nat
    BY <1>1 DEF EventConfig
  <2>3. \E n \in Nat : \/ config'[e] = [config[e] EXCEPT !.admin_delay_extension_ledgers = n]
                      \/ config'[e] = [config[e] EXCEPT !.sold_count = n]
    <3>1. CASE SoldOne(e)
      <4>1. config'[e] = [config[e] EXCEPT !.sold_count = config[e].sold_count + 1]
        BY <1>1, <3>1 DEF SoldOne, EventConfig
      <4>2. config[e].sold_count + 1 \in Nat
        BY <2>2
      <4>3. QED
        BY <4>1, <4>2
    <3>2. ASSUME NEW d \in DelayExtensions,
                 config'[e] = [config[e] EXCEPT !.admin_delay_extension_ledgers = @ + d]
          PROVE  \E n \in Nat : config'[e] = [config[e] EXCEPT !.admin_delay_extension_ledgers = n]
      <4>1. config'[e] = [config[e] EXCEPT !.admin_delay_extension_ledgers =
                            config[e].admin_delay_extension_ledgers + d]
        BY <1>1, <3>2 DEF EventConfig
      <4>2. config[e].admin_delay_extension_ledgers + d \in Nat
        BY <2>1, <2>2
      <4>3. QED
        BY <4>1, <4>2
    <3>3. QED
      BY <1>6, <3>1, <3>2
  <2>4. QED
    BY <1>1, <2>3 DEF EventConfig
<1>7. ASSUME LatchedNow(e)
      PROVE  /\ config'[e] \in EventConfig
             /\ config'[e].organizer_withdrawn
             /\ config'[e].cancel_ledger = config[e].cancel_ledger
             /\ config'[e].withdrawable_ratio_bps = config[e].withdrawable_ratio_bps
             /\ config'[e].terms = config[e].terms
  BY <1>1, <1>7 DEF EventConfig, LatchedNow
<1>8. ASSUME CancelledNow(e)
      PROVE  /\ config'[e] \in EventConfig
             /\ config[e].cancel_ledger = None
             /\ config'[e].cancel_ledger # None
             /\ config'[e].organizer_withdrawn = config[e].organizer_withdrawn
             /\ config'[e].terms = config[e].terms
  <2>1. /\ config'[e] = [config[e] EXCEPT !.cancel_ledger = now, !.withdrawable_ratio_bps = ratio]
        /\ config[e].cancel_ledger = None
    BY <1>8 DEF CancelledNow, ratio
  <2>2. ratio \in Bps /\ now # None
    BY <1>2, ConstantsAssumption DEF ratio
  <2>3. QED
    BY <1>1, <1>2, <2>1, <2>2 DEF EventConfig
<1>9. splits'[e] = splits[e]
  BY <1>1 DEF ConfigFate, Created
<1>10. QED
  BY <1>1, <1>3, <1>4, <1>5, <1>6, <1>7, <1>8, <1>9 DEF ConfigFate, Created

-----------------------------------------------------------------------------
(* An event is settled once.                                               *)

\* Inductive: the latch of withdraw and the settlement of a split exclude each
\* other because no split can arrive after the configuration.
SettleInv ==
  \A e \in Events :
    /\ config[e] = None => splits[e] = <<>>
    /\ settlement[e] # None => splits[e] # <<>>
    /\ Latched(e) => splits[e] = <<>>

\* The books of a split change by the calls about it only.
LEMMA SplitSteps ==
  ASSUME BooksInv, [Next]_vars
  PROVE  \/ UNCHANGED <<settlement, splitWithdrawn, splitFlagged>>
         \/ \E e \in Events, u \in Users : SplitCall(e, u)
<1> DEFINE Kept == UNCHANGED <<settlement, splitWithdrawn, splitFlagged>>
<1>1. CASE Quiet
  BY <1>1 DEF Quiet
<1>2. ASSUME NEW p \in PaymentParams, CreatePayment(p) PROVE Kept
  BY <1>2 DEF CreatePayment, splitVars
<1>3. ASSUME NEW i \in PaymentIds, RefundCall(i) PROVE Kept
  BY <1>3, RefundCalls DEF RefundOf, RefundFrame, splitVars, BooksInv, DisputeInv
<1>4. ASSUME NEW i \in PaymentIds,
             \/ ApproveRefund(i) \/ RejectDispute(i) \/ RaiseDispute(i) \/ ResaleCall(i)
             \/ \E c \in EmailCommitments : BindEmailCommitment(i, c)
             \/ \E u \in Users : BuyResaleTicket(i, u)
      PROVE  Kept
  BY <1>4, ZenonT(30) DEF ApproveRefund, RejectDispute, RaiseDispute, ResaleCall,
                          ListTicketForResale, DelistTicket, BindEmailCommitment,
                          BuyResaleTicket, splitVars
<1>5. ASSUME NEW d \in Events, EscrowCall(d) PROVE Kept
  BY <1>5 DEF EscrowCall, ProcessDisputeTimeouts, Withdraw, WithdrawRevenue, WithdrawToken,
              WithdrawAllTokens, ReleaseIfExpired, WithdrawPlatformRevenue, splitVars
<1>6. QED
  BY <1>1, <1>2, <1>3, <1>4, <1>5, StepKinds

\* A settlement is made by a recipient of the split, and then stays.
LEMMA SettlementSteps ==
  ASSUME BooksInv, [Next]_vars, NEW e \in Events
  PROVE  \/ settlement'[e] = settlement[e]
         \/ settlement[e] = None /\ splits[e] # <<>>
<1>1. ASSUME NEW d \in Events, NEW u \in Users, SplitCall(d, u)
      PROVE  settlement'[e] = settlement[e] \/ (settlement[e] = None /\ splits[e] # <<>>)
  <2>1. CASE SharePaid(d, u)
    <3>1. EnsureSplitSettled(d) /\ splits[d] # <<>>
      BY <2>1 DEF SharePaid, Recipients
    <3>2. \/ UNCHANGED settlement
          \/ settlement[d] = None /\ \E net : settlement' = [settlement EXCEPT ![d] = net]
      BY <3>1, Settlements DEF Settled
    <3>3. QED
      BY <3>1, <3>2 DEF BooksInv, MoneyTypeOK
  <2>2. QED
    BY <1>1, <2>1, SplitCalls
<1>2. QED
  BY <1>1, SplitSteps

LEMMA SettleInvariant == Spec => []SettleInv
<1>1. Init => SettleInv
  BY DEF Init, SettleInv, Latched
<1>2. BooksInv /\ BooksInv' /\ SettleInv /\ [Next]_vars => SettleInv'
  <2> SUFFICES ASSUME BooksInv, BooksInv', SettleInv, [Next]_vars, NEW e \in Events
               PROVE  /\ config'[e] = None => splits'[e] = <<>>
                      /\ settlement'[e] # None => splits'[e] # <<>>
                      /\ (config'[e] # None /\ config'[e].organizer_withdrawn) =>
                           splits'[e] = <<>>
    BY DEF SettleInv, Latched
  <2>1. RecordsTypeOK
    BY DEF BooksInv, DisputeInv
  <2>2. ConfigFate(e)
    BY <2>1, ConfigFates
  <2>3. settlement'[e] # None => splits[e] # <<>>
    BY SettlementSteps DEF SettleInv
  <2>4. CASE config[e] # None
    <3>1. config'[e] # None /\ splits'[e] = splits[e]
      BY <2>1, <2>4, ConfigEvolves
    <3>2. CASE splits[e] = <<>>
      BY <2>3, <3>1, <3>2
    <3>3. CASE splits[e] # <<>>
      <4>1. ~config[e].organizer_withdrawn
        BY <2>4, <3>3 DEF SettleInv, Latched
      <4>2. ~config'[e].organizer_withdrawn
        <5>1. config[e] \in EventConfig
          BY <2>1, <2>4, ConfigCounters DEF RecordsTypeOK
        <5>2. QED
          BY <2>2, <2>4, <3>3, <4>1, <5>1
             DEF ConfigFate, Created, SoldOne, CancelledNow, LatchedNow, EventConfig
      <4>3. QED
        BY <3>1, <3>3, <4>2
    <3>4. QED
      BY <3>2, <3>3
  <2>5. CASE config[e] = None /\ config'[e] = config[e] /\ splits'[e] = splits[e]
    BY <2>3, <2>5 DEF SettleInv
  <2>6. CASE Created(e)
    <3>1. config[e] = None /\ splits[e] = <<>> /\ settlement'[e] = None
      BY <2>3, <2>6 DEF Created, SettleInv
    <3>2. PICK terms \in SyncedTerms : config'[e] = NewConfig(terms)
      BY <2>6 DEF Created
    <3>3. ~config'[e].organizer_withdrawn /\ config'[e] # None
      <4>1. NewConfig(terms) \in EventConfig
        BY ConstantsAssumption DEF NewConfig, EventConfig
      <4>2. NewConfig(terms).organizer_withdrawn = FALSE
        BY DEF NewConfig
      <4>3. QED
        BY <3>2, <4>1, <4>2, NoneAssumption
    <3>4. QED
      BY <3>1, <3>3
  <2>7. QED
    BY <2>2, <2>4, <2>5, <2>6 DEF ConfigFate
<1>3. QED
  BY <1>1, <1>2, BooksInvariant, PTL DEF Spec

\* A fee is taken from the escrow of an event that is not settled yet, or from
\* the price of a resale.
LEMMA FeeSteps ==
  ASSUME BooksInv, SettleInv, [Next]_vars, NEW e \in Events
  PROVE  \/ platformRevenue'[e] <= platformRevenue[e]
         \/ resaleListing' # resaleListing
         \/ ~Latched(e) /\ settlement[e] = None
<1>0. platformRevenue[e] \in Nat
  BY DEF BooksInv, MoneyTypeOK
<1>1. ASSUME UNCHANGED platformRevenue PROVE platformRevenue'[e] <= platformRevenue[e]
  BY <1>0, <1>1
<1>2. CASE Quiet
  BY <1>1, <1>2 DEF Quiet, bookVars
<1>3. ASSUME NEW p \in PaymentParams, CreatePayment(p) PROVE UNCHANGED platformRevenue
  BY <1>3 DEF CreatePayment
<1>4. ASSUME NEW i \in PaymentIds, RefundCall(i) PROVE UNCHANGED platformRevenue
  BY <1>4, RefundCalls DEF RefundOf, RefundFromRevenue, BookRefund, BooksInv, DisputeInv
<1>5. ASSUME NEW i \in PaymentIds,
             \/ ApproveRefund(i) \/ RejectDispute(i) \/ RaiseDispute(i) \/ ResaleCall(i)
             \/ \E c \in EmailCommitments : BindEmailCommitment(i, c)
      PROVE  UNCHANGED platformRevenue
  BY <1>5 DEF ApproveRefund, BookRefund, RejectDispute, RaiseDispute, ResaleCall,
              ListTicketForResale, DelistTicket, BindEmailCommitment, bookVars
<1>6. ASSUME NEW i \in PaymentIds, NEW u \in Users, BuyResaleTicket(i, u)
      PROVE  resaleListing' # resaleListing
  BY <1>6 DEF BuyResaleTicket, TransferTicket, BooksInv, DisputeInv, RecordsTypeOK, TicketTypeOK
<1>7. ASSUME NEW d \in Events, Withdraw(d) \/ WithdrawRevenue(d)
      PROVE  \/ platformRevenue'[e] <= platformRevenue[e]
             \/ ~Latched(e) /\ settlement[e] = None
  <2>1. /\ splits[d] = <<>> /\ ~Latched(d)
        /\ \E fee : AccruePlatformFee(d, fee)
    BY <1>7 DEF Withdraw, WithdrawRevenue, NoSplits, Latched
  <2>2. settlement[d] = None
    BY <2>1 DEF SettleInv
  <2>3. CASE d = e
    BY <2>1, <2>2, <2>3
  <2>4. CASE d # e
    <3>1. platformRevenue'[e] = platformRevenue[e]
      BY <2>1, <2>4 DEF AccruePlatformFee, BooksInv, MoneyTypeOK
    <3>2. QED
      BY <1>0, <3>1
  <2>5. QED
    BY <2>3, <2>4
<1>8. ASSUME NEW d \in Events, WithdrawPlatformRevenue(d)
      PROVE  platformRevenue'[e] <= platformRevenue[e]
  <2>1. platformRevenue' = [platformRevenue EXCEPT ![d] = 0]
    BY <1>8 DEF WithdrawPlatformRevenue
  <2>2. platformRevenue'[e] = IF d = e THEN 0 ELSE platformRevenue[e]
    BY <2>1 DEF BooksInv, MoneyTypeOK
  <2>3. QED
    BY <1>0, <2>2
<1>9. ASSUME NEW d \in Events,
             \/ ProcessDisputeTimeouts(d) \/ (\E t \in Tokens : WithdrawToken(d, t))
             \/ WithdrawAllTokens(d) \/ ReleaseIfExpired(d)
      PROVE  UNCHANGED platformRevenue
  BY <1>9 DEF ProcessDisputeTimeouts, WithdrawToken, WithdrawAllTokens, ReleaseIfExpired
<1>10. ASSUME NEW d \in Events, NEW u \in Users, SplitCall(d, u)
       PROVE  \/ platformRevenue'[e] <= platformRevenue[e]
              \/ ~Latched(e) /\ settlement[e] = None
  <2>1. CASE SharePaid(d, u)
    <3>1. EnsureSplitSettled(d) /\ splits[d] # <<>>
      BY <2>1 DEF SharePaid, Recipients
    <3>2. ~Latched(d)
      BY <3>1 DEF SettleInv
    <3>3. \/ UNCHANGED platformRevenue
          \/ settlement[d] = None /\ \E fee : AccruePlatformFee(d, fee)
      BY <3>1, Settlements DEF Settled
    <3>4. CASE settlement[d] = None /\ \E fee : AccruePlatformFee(d, fee)
      <4>1. CASE d = e
        BY <3>2, <3>4, <4>1
      <4>2. CASE d # e
        <5>1. platformRevenue'[e] = platformRevenue[e]
          BY <3>4, <4>2 DEF AccruePlatformFee, BooksInv, MoneyTypeOK
        <5>2. QED
          BY <1>0, <5>1
      <4>3. QED
        BY <4>1, <4>2
    <3>5. QED
      BY <1>1, <3>3, <3>4
  <2>2. CASE UNCHANGED <<payments, disputeVars, bookVars, splits, settlement, splitWithdrawn>>
    BY <1>1, <2>2 DEF bookVars
  <2>3. QED
    BY <1>10, <2>1, <2>2, SplitCalls
<1>11. QED
  BY <1>1, <1>2, <1>3, <1>4, <1>5, <1>6, <1>7, <1>8, <1>9, <1>10, StepKinds DEF EscrowCall

\* withdraw, withdraw_revenue and the split settlement settle an event at most
\* once between them, for every order of syncs, payouts, refunds and sales.
THEOREM EventsSettledOnce == Spec => SettledOnce
<1>1. BooksInv /\ SettleInv /\ [Next]_vars =>
        [\A e \in Events :
           /\ Latched(e) => Latched(e)'
           /\ settlement[e] # None => settlement'[e] = settlement[e]
           /\ (Latched(e) \/ settlement[e] # None) =>
                \/ platformRevenue'[e] <= platformRevenue[e]
                \/ resaleListing' # resaleListing]_vars
  <2> SUFFICES ASSUME BooksInv, SettleInv, [Next]_vars, NEW e \in Events
               PROVE  /\ Latched(e) => Latched(e)'
                      /\ settlement[e] # None => settlement'[e] = settlement[e]
                      /\ (Latched(e) \/ settlement[e] # None) =>
                           \/ platformRevenue'[e] <= platformRevenue[e]
                           \/ resaleListing' # resaleListing
    OBVIOUS
  <2>1. Latched(e) => Latched(e)'
    BY ConfigEvolves DEF Latched, BooksInv, DisputeInv
  <2>2. QED
    BY <2>1, SettlementSteps, FeeSteps
<1>2. QED
  BY <1>1, BooksInvariant, SettleInvariant, PTL DEF Spec, SettledOnce

-----------------------------------------------------------------------------
(* The shares of a split.                                                  *)

\* Inductive: who was paid, and that nobody was paid anything but its share.
PaidInv ==
  \A e \in Events :
    /\ splits[e] # <<>> => \E organizer : ValidSplits(splits[e], organizer)
    /\ \A u \in Users :
         splitWithdrawn[e][u] # 0 =>
           /\ settlement[e] # None /\ u \in Recipients(e)
           /\ splitWithdrawn[e][u] = RecipientShare(e, u, settlement[e])
    /\ \A u \in Users : splitFlagged[e][u] => splitWithdrawn[e][u] = 0

\* A share is paid to a recipient that was not paid yet; nobody else's book,
\* settlement or flag changes.
LEMMA ShareSteps ==
  ASSUME BooksInv, [Next]_vars, NEW e \in Events, NEW u \in Users
  PROVE  \/ splitWithdrawn'[e][u] = splitWithdrawn[e][u]
         \/ /\ splitWithdrawn[e][u] = 0 /\ u \in Recipients(e)
            /\ splits'[e] = splits[e] /\ settlement'[e] # None
            /\ splitWithdrawn'[e][u] = RecipientShare(e, u, settlement'[e])
<1>1. ASSUME NEW d \in Events, NEW v \in Users, SharePaid(d, v)
      PROVE  \/ splitWithdrawn'[e][u] = splitWithdrawn[e][u]
             \/ /\ splitWithdrawn[e][u] = 0 /\ u \in Recipients(e)
                /\ splits'[e] = splits[e] /\ settlement'[e] # None
                /\ splitWithdrawn'[e][u] = RecipientShare(e, u, settlement'[e])
  <2> DEFINE share == RecipientShare(d, v, settlement'[d])
  <2>1. /\ splitWithdrawn' = [splitWithdrawn EXCEPT ![d][v] = share]
        /\ splitWithdrawn[d][v] = 0 /\ v \in Recipients(d) /\ UNCHANGED splits
    BY <1>1 DEF SharePaid, PayShare
  <2>2. settlement'[d] # None
    <3>1. settlement'[d] \in Nat
      BY <1>1, SettlementTypes DEF SharePaid
    <3>2. QED
      BY <3>1, ConstantsAssumption
  <2>3. CASE d = e /\ v = u
    BY <2>1, <2>2, <2>3 DEF BooksInv, MoneyTypeOK
  <2>4. CASE ~ (d = e /\ v = u)
    <3> HIDE DEF share
    <3>1. splitWithdrawn'[e][u] = splitWithdrawn[e][u]
      BY <2>1, <2>4 DEF BooksInv, MoneyTypeOK
    <3>2. QED
      BY <3>1
  <2>5. QED
    BY <2>3, <2>4
<1>2. QED
  BY <1>1, SplitSteps, SplitCalls

\* A flag is raised against a recipient that was not paid, and is taken down
\* before its share is reassigned.
LEMMA FlagSteps ==
  ASSUME BooksInv, [Next]_vars, NEW e \in Events, NEW u \in Users,
         splitFlagged[e][u] => splitWithdrawn[e][u] = 0, splitFlagged'[e][u]
  PROVE  splitWithdrawn'[e][u] = 0
<1>1. CASE UNCHANGED <<settlement, splitWithdrawn, splitFlagged>>
  BY <1>1
<1>2. ASSUME NEW d \in Events, NEW v \in Users, FlagCohost(d, v) PROVE splitWithdrawn'[e][u] = 0
  <2>1. /\ splitFlagged' = [splitFlagged EXCEPT ![d][v] = TRUE]
        /\ splitWithdrawn[d][v] = 0 /\ UNCHANGED splitWithdrawn
    BY <1>2 DEF FlagCohost
  <2>2. CASE d = e /\ v = u
    BY <2>1, <2>2
  <2>3. CASE ~ (d = e /\ v = u)
    <3>1. splitFlagged'[e][u] = splitFlagged[e][u]
      BY <2>1, <2>3 DEF BooksInv, DisputeInv, RecordsTypeOK, SplitTypeOK
    <3>2. QED
      BY <2>1, <3>1
  <2>4. QED
    BY <2>2, <2>3
<1>3. ASSUME NEW d \in Events, NEW v \in Users,
             \/ UNCHANGED splitWithdrawn
             \/ \E share : splitWithdrawn' = [splitWithdrawn EXCEPT ![d][v] = share],
             splitFlagged' = [splitFlagged EXCEPT ![d][v] = FALSE]
      PROVE  splitWithdrawn'[e][u] = 0
  <2>1. ~ (d = e /\ v = u)
    BY <1>3 DEF BooksInv, DisputeInv, RecordsTypeOK, SplitTypeOK
  <2>2. splitFlagged'[e][u] = splitFlagged[e][u]
    BY <1>3, <2>1 DEF BooksInv, DisputeInv, RecordsTypeOK, SplitTypeOK
  <2>3. splitWithdrawn'[e][u] = splitWithdrawn[e][u]
    BY <1>3, <2>1 DEF BooksInv, MoneyTypeOK
  <2>4. QED
    BY <2>2, <2>3
<1>4. ASSUME NEW d \in Events, NEW v \in Users, WithdrawSplit(d, v)
      PROVE  splitWithdrawn'[e][u] = 0
  <2>1. /\ ~splitFlagged[d][v] /\ UNCHANGED splitFlagged
        /\ \E share : splitWithdrawn' = [splitWithdrawn EXCEPT ![d][v] = share]
    BY <1>4 DEF WithdrawSplit, PayShare
  <2>2. ~ (d = e /\ v = u)
    BY <2>1
  <2>3. splitWithdrawn'[e][u] = splitWithdrawn[e][u]
    BY <2>1, <2>2 DEF BooksInv, MoneyTypeOK
  <2>4. QED
    BY <2>1, <2>3
<1>5. ASSUME NEW d \in Events, NEW v \in Users,
             ReleaseFlaggedShare(d, v) \/ ReassignFlaggedShare(d, v)
      PROVE  splitWithdrawn'[e][u] = 0
  BY <1>3, <1>5 DEF ReleaseFlaggedShare, ReassignFlaggedShare, PayShare
<1>6. QED
  BY <1>1, <1>2, <1>4, <1>5, SplitSteps DEF SplitCall

LEMMA PaidInvariant == Spec => []PaidInv
<1>1. Init => PaidInv
  BY DEF Init, PaidInv
<1>2. BooksInv /\ SettleInv /\ PaidInv /\ [Next]_vars => PaidInv'
  <2> SUFFICES ASSUME BooksInv, SettleInv, PaidInv, [Next]_vars, NEW e \in Events
               PROVE  /\ splits'[e] # <<>> => \E organizer : ValidSplits(splits'[e], organizer)
                      /\ \A u \in Users :
                           splitWithdrawn'[e][u] # 0 =>
                             /\ settlement'[e] # None /\ (u \in Recipients(e))'
                             /\ splitWithdrawn'[e][u] = RecipientShare(e, u, settlement[e])'
                      /\ \A u \in Users : splitFlagged'[e][u] => splitWithdrawn'[e][u] = 0
    BY DEF PaidInv
  <2>1. splits'[e] = splits[e] \/ \E organizer : ValidSplits(splits'[e], organizer)
    BY ConfigFates DEF ConfigFate, Created, BooksInv, DisputeInv
  <2>2. splits[e] # <<>> => splits'[e] = splits[e]
    BY ConfigFates DEF ConfigFate, Created, BooksInv, DisputeInv
  <2>3. ASSUME NEW u \in Users, splitWithdrawn'[e][u] # 0
        PROVE  /\ settlement'[e] # None /\ (u \in Recipients(e))'
               /\ splitWithdrawn'[e][u] = RecipientShare(e, u, settlement[e])'
    <3>1. ASSUME splits'[e] = splits[e]
          PROVE  /\ (u \in Recipients(e))' <=> u \in Recipients(e)
                 /\ RecipientShare(e, u, settlement[e])' = RecipientShare(e, u, settlement'[e])
      BY <3>1 DEF Recipients, RecipientShare, Primary
    <3>2. CASE splitWithdrawn'[e][u] = splitWithdrawn[e][u]
      <4>1. /\ settlement[e] # None /\ u \in Recipients(e)
            /\ splitWithdrawn[e][u] = RecipientShare(e, u, settlement[e])
        BY <2>3, <3>2 DEF PaidInv
      <4>2. splits[e] # <<>> /\ settlement'[e] = settlement[e]
        BY <4>1, SettlementSteps DEF SettleInv
      <4>3. QED
        BY <2>2, <3>1, <3>2, <4>1, <4>2
    <3>3. CASE /\ u \in Recipients(e) /\ splits'[e] = splits[e] /\ settlement'[e] # None
               /\ splitWithdrawn'[e][u] = RecipientShare(e, u, settlement'[e])
      BY <3>1, <3>3
    <3>4. QED
      BY <3>2, <3>3, ShareSteps
  <2>4. \A u \in Users : splitFlagged'[e][u] => splitWithdrawn'[e][u] = 0
    BY FlagSteps DEF PaidInv
  <2>5. QED
    BY <2>1, <2>3, <2>4 DEF PaidInv
<1>3. QED
  BY <1>1, <1>2, BooksInvariant, SettleInvariant, PTL DEF Spec

\* However flags, rulings and withdrawals interleave, a flagged recipient was
\* not paid.
THEOREM FlaggedSharesStayFrozen == Spec => []FlaggedShareFrozen
<1>1. PaidInv => FlaggedShareFrozen
  BY DEF PaidInv, FlaggedShareFrozen
<1>2. QED
  BY <1>1, PaidInvariant, PTL


-----------------------------------------------------------------------------
(* What the shares of a split add up to.                                   *)

\* The parts of a settlement by row: the first row takes what flooring the
\* others leaves.
Part(e, net, k) ==
  IF k = 1
  THEN net - SumFunction([j \in 2..Len(splits[e]) |-> Share(net, splits[e][j].basis_points)])
  ELSE Share(net, splits[e][k].basis_points)

\* A part rounded down.
IsFloor(part, net, points) == part \in Nat /\ 10000 * part <= net * points

LEMMA FlooredShares ==
  ASSUME NEW net \in Nat, NEW points \in Nat
  PROVE  IsFloor(Share(net, points), net, points)
<1>1. net * points \in Nat
  OBVIOUS
<1>2. QED
  BY <1>1 DEF Share, IsFloor

LEMMA SplitRows ==
  ASSUME BooksInv, NEW e \in Events, NEW organizer, ValidSplits(splits[e], organizer)
  PROVE  /\ Len(splits[e]) \in Nat \ {0} /\ DOMAIN splits[e] = 1..Len(splits[e])
         /\ \A k \in DOMAIN splits[e] : splits[e][k] \in SplitRow
<1>1. splits[e] \in Seq(SplitRow)
  BY DEF BooksInv, DisputeInv, RecordsTypeOK, SplitTypeOK
<1>2. QED
  BY <1>1, ElementOfSeq DEF ValidSplits

\* What a settlement of net gives: the floors of the rows after the first, the
\* parts of all rows, and the share of each user.
FloorsOf(e, net) ==
  [j \in 2..Len(splits[e]) |-> Share(net, splits[e][j].basis_points)]
PartsOf(e, net) == [k \in DOMAIN splits[e] |-> Part(e, net, k)]
SharesOf(e, net) ==
  [u \in Users |-> IF u \in Recipients(e) THEN RecipientShare(e, u, net) ELSE 0]

\* The floors of the other rows never exceed the settlement, whatever it is.
LEMMA FloorsFit ==
  ASSUME BooksInv, NEW e \in Events, NEW organizer, ValidSplits(splits[e], organizer),
         NEW net \in Nat
  PROVE  /\ FloorsOf(e, net) \in [2..Len(splits[e]) -> Nat]
         /\ SumFunction(FloorsOf(e, net)) \in 0..net
<1> DEFINE n == Len(splits[e])
           K == 2..n
           floors == [j \in K |-> Share(net, splits[e][j].basis_points)]
           bps == [j \in K |-> splits[e][j].basis_points]
           all == [j \in DOMAIN splits[e] |-> splits[e][j].basis_points]
           low == [j \in K |-> 10000 * floors[j]]
           high == [j \in K |-> net * bps[j]]
<1>1. /\ n \in Nat \ {0} /\ DOMAIN splits[e] = 1..n
      /\ \A k \in DOMAIN splits[e] : splits[e][k].basis_points \in Nat
  BY SplitRows DEF SplitRow
<1>2. K \subseteq DOMAIN splits[e] /\ DOMAIN splits[e] = K \cup {1} /\ 1 \notin K
  BY <1>1
<1>3. \A j \in K : /\ splits[e][j].basis_points \in Nat
                   /\ IsFloor(Share(net, splits[e][j].basis_points), net,
                              splits[e][j].basis_points)
  BY <1>1, <1>2, FlooredShares
<1>4. IsFiniteSet(K)
  <2>1. 2 \in Int /\ n \in Int
    BY <1>1
  <2>2. QED
    BY <2>1, FS_Interval
<1>5. /\ floors \in [K -> Nat] /\ bps \in [K -> Nat]
      /\ floors \in [K -> Int] /\ bps \in [K -> Int]
  BY <1>3 DEF IsFloor
<1>6. /\ low \in [K -> Int] /\ high \in [K -> Int]
      /\ \A j \in K : low[j] <= high[j]
  <2>1. \A j \in K : /\ floors[j] \in Nat /\ bps[j] \in Nat
                     /\ IsFloor(floors[j], net, bps[j])
    BY <1>3 DEF IsFloor
  <2> HIDE DEF K, floors, bps
  <2>2. \A j \in K : 10000 * floors[j] \in Int /\ net * bps[j] \in Int
    BY <2>1
  <2>3. QED
    BY <2>1, <2>2 DEF IsFloor
<1>7. all \in [K \cup {1} -> Int] /\ (\A j \in K : bps[j] = all[j]) /\ all[1] \in Nat
  BY <1>1, <1>2
<1>8. SumFunction(all) = 10000
  BY DEF ValidSplits
<1>9. /\ \A j \in K : low[j] = 10000 * floors[j]
      /\ \A j \in K : high[j] = net * bps[j]
  OBVIOUS
<1> HIDE DEF n, K, floors, bps, all, low, high
<1>10. SumFunction(floors) \in Nat /\ SumFunction(bps) \in Nat
  BY <1>4, <1>5, SumOfNaturals
<1>11. SumFunction(all) = SumFunction(bps) + all[1]
  BY <1>2, <1>4, <1>5, <1>7, SumExtended
<1>12. /\ SumFunction(low) = 10000 * SumFunction(floors)
       /\ SumFunction(high) = net * SumFunction(bps)
  BY <1>4, <1>5, <1>6, <1>9, SumScaled
<1>13. SumFunction(low) <= SumFunction(high)
  BY <1>4, <1>6, SumMonotone
<1>14. SumFunction(bps) <= 10000
  BY <1>7, <1>8, <1>10, <1>11
<1>15. net * SumFunction(bps) <= net * 10000
  BY <1>10, <1>14
<1>16. SumFunction(floors) <= net
  BY <1>10, <1>12, <1>13, <1>15
<1>17. QED
  BY <1>5, <1>10, <1>16 DEF floors, K, n, FloorsOf

\* The parts of a settlement are natural numbers and leave nothing over.
LEMMA PartsAddUp ==
  ASSUME BooksInv, NEW e \in Events, NEW organizer, ValidSplits(splits[e], organizer),
         NEW net \in Nat
  PROVE  /\ PartsOf(e, net) \in [DOMAIN splits[e] -> Nat]
         /\ SumFunction(PartsOf(e, net)) = net
<1> DEFINE n == Len(splits[e])
           K == 2..n
           floors == [j \in K |-> Share(net, splits[e][j].basis_points)]
           parts == [k \in DOMAIN splits[e] |-> Part(e, net, k)]
<1>1. n \in Nat \ {0} /\ DOMAIN splits[e] = 1..n
  BY SplitRows
<1>2. DOMAIN splits[e] = K \cup {1} /\ 1 \notin K
  BY <1>1
<1>3. floors \in [K -> Nat] /\ SumFunction(floors) \in 0..net
  BY FloorsFit DEF FloorsOf
<1>4. /\ \A k \in K : Part(e, net, k) = floors[k]
      /\ Part(e, net, 1) = net - SumFunction(floors)
  BY <1>2 DEF Part
<1>5. parts[1] = net - SumFunction(floors) /\ \A k \in K : floors[k] = parts[k]
  BY <1>2, <1>4
<1>6. parts \in [K \cup {1} -> Nat]
  <2>1. \A k \in K : floors[k] \in Nat
    BY <1>3
  <2>2. \A k \in K : Part(e, net, k) \in Nat
    BY <1>4, <2>1
  <2>3. Part(e, net, 1) \in Nat
    <3> HIDE DEF floors
    <3>1. QED
      BY <1>3, <1>4
  <2>4. QED
    BY <1>2, <2>2, <2>3
<1>7. IsFiniteSet(K)
  <2>1. 2 \in Int /\ n \in Int
    BY <1>1
  <2>2. QED
    BY <2>1, FS_Interval
<1> HIDE DEF n, K, floors, parts
<1>8. floors \in [K -> Int] /\ parts \in [K \cup {1} -> Int]
  BY <1>3, <1>6
<1>9. SumFunction(parts) = SumFunction(floors) + parts[1]
  BY <1>2, <1>5, <1>7, <1>8, SumExtended
<1>10. SumFunction(parts) = net
  BY <1>3, <1>5, <1>9
<1>11. QED
  BY <1>2, <1>6, <1>10 DEF parts, PartsOf

\* Recipient by recipient, the shares are those parts.
LEMMA SharesAddUp ==
  ASSUME BooksInv, NEW e \in Events, NEW organizer, ValidSplits(splits[e], organizer),
         NEW net \in Nat
  PROVE  SharesOf(e, net) \in [Users -> Nat] /\ SumFunction(SharesOf(e, net)) = net
<1> DEFINE K == DOMAIN splits[e]
           m == [k \in K |-> splits[e][k].recipient]
           parts == [k \in K |-> Part(e, net, k)]
           shares == [u \in Users |-> IF u \in Recipients(e)
                                      THEN RecipientShare(e, u, net) ELSE 0]
<1>1. /\ Len(splits[e]) \in Nat \ {0} /\ K = 1..Len(splits[e])
      /\ \A k \in K : splits[e][k].recipient \in Users
  BY SplitRows DEF SplitRow
<1>2. \A j, k \in K : splits[e][j].recipient = splits[e][k].recipient => j = k
  BY DEF ValidSplits
<1>3. parts \in [K -> Nat] /\ SumFunction(parts) = net
  BY PartsAddUp DEF PartsOf
<1>4. \A k \in K : RecipientShare(e, splits[e][k].recipient, net) = Part(e, net, k)
  <2> SUFFICES ASSUME NEW k \in K
               PROVE  RecipientShare(e, splits[e][k].recipient, net) = Part(e, net, k)
    OBVIOUS
  <2>1. 1 \in K /\ Primary(e) = splits[e][1].recipient
    BY <1>1 DEF Primary
  <2>2. CASE k = 1
    BY <2>1, <2>2 DEF RecipientShare, Part
  <2>3. CASE k # 1
    <3>1. splits[e][k].recipient # Primary(e)
      BY <1>2, <2>1, <2>3
    <3>2. (CHOOSE j \in K : splits[e][j].recipient = splits[e][k].recipient) = k
      BY <1>2
    <3>3. QED
      BY <2>3, <3>1, <3>2 DEF RecipientShare, Part
  <2>4. QED
    BY <2>2, <2>3
<1>5. \A u \in Recipients(e) : \E k \in K : u = splits[e][k].recipient
  BY DEF Recipients
<1>6. \A k \in K : splits[e][k].recipient \in Recipients(e)
  BY DEF Recipients
<1>7. \A k \in K : parts[k] = shares[m[k]]
  BY <1>1, <1>4, <1>6
<1>8. shares \in [Users -> Nat]
  <2> SUFFICES ASSUME NEW u \in Recipients(e) PROVE RecipientShare(e, u, net) \in Nat
    OBVIOUS
  <2>1. PICK k \in K : u = splits[e][k].recipient
    BY <1>5
  <2>2. QED
    BY <1>3, <1>4, <2>1
<1>9. /\ m \in [K -> Users] /\ (\A j, k \in K : m[j] = m[k] => j = k)
      /\ \A u \in Users : (\A k \in K : m[k] # u) => shares[u] = 0
  BY <1>1, <1>2, <1>5
<1>10. IsFiniteSet(K)
  <2>1. 1 \in Int /\ Len(splits[e]) \in Int /\ K = 1..Len(splits[e])
    BY <1>1
  <2> HIDE DEF K
  <2>2. QED
    BY <2>1, FS_Interval
<1> HIDE DEF K, m, parts, shares
<1>11. shares \in [Users -> Int] /\ parts \in [K -> Int]
  BY <1>3, <1>8
<1>12. SumFunction(shares) = SumFunction(parts)
  BY <1>7, <1>9, <1>10, <1>11, SumReindexed, FiniteAssumption
<1>13. QED
  BY <1>3, <1>8, <1>12 DEF shares, SharesOf

\* The recipients of a split are paid no more than the settlement between
\* them, and all of it once each was paid, whatever the rows and the dust.
THEOREM SharesPaidExactly == Spec => []SplitPaidExactly
<1>1. BooksInv /\ PaidInv => SplitPaidExactly
  <2> SUFFICES ASSUME BooksInv, PaidInv, NEW e \in Events
               PROVE  LET paid == SumFunction(splitWithdrawn[e]) IN
                      /\ paid > 0 => settlement[e] # None /\ paid <= settlement[e]
                      /\ (splits[e] # <<>> /\ \A u \in Recipients(e) : splitWithdrawn[e][u] > 0) =>
                           paid = settlement[e]
    BY DEF SplitPaidExactly
  <2> DEFINE w == splitWithdrawn[e]
             paid == SumFunction(w)
  <2>1. w \in [Users -> Nat] /\ settlement[e] \in Nat \cup {None}
    BY DEF BooksInv, MoneyTypeOK
  <2>2. w \in [Users -> Int]
    BY <2>1
  <2>3. ASSUME settlement[e] # None, splits[e] # <<>>
        PROVE  /\ paid <= settlement[e]
               /\ (\A u \in Recipients(e) : w[u] > 0) => paid = settlement[e]
    <3> DEFINE net == settlement[e]
               shares == [u \in Users |-> IF u \in Recipients(e)
                                          THEN RecipientShare(e, u, net) ELSE 0]
    <3>1. PICK organizer : ValidSplits(splits[e], organizer)
      BY <2>3 DEF PaidInv
    <3>2. net \in Nat
      BY <2>1, <2>3
    <3>3. shares \in [Users -> Nat] /\ SumFunction(shares) = net
      BY <3>1, <3>2, SharesAddUp DEF SharesOf
    <3>4. \A u \in Users : w[u] # 0 => u \in Recipients(e) /\ w[u] = RecipientShare(e, u, net)
      BY DEF PaidInv
    <3>5. \A u \in Users : w[u] # 0 => w[u] = shares[u]
      BY <3>4
    <3>6. \A u \in Users : w[u] <= shares[u]
      BY <2>1, <3>3, <3>5
    <3>7. (\A u \in Recipients(e) : w[u] > 0) => \A u \in Users : shares[u] <= w[u]
      <4> SUFFICES ASSUME \A u \in Recipients(e) : w[u] > 0, NEW u \in Users
                   PROVE  shares[u] <= w[u]
        OBVIOUS
      <4>1. CASE u \in Recipients(e)
        <5>1. w[u] # 0
          BY <2>1, <4>1
        <5>2. QED
          BY <2>1, <3>5, <5>1
      <4>2. CASE u \notin Recipients(e)
        BY <2>1, <4>2
      <4>3. QED
        BY <4>1, <4>2
    <3> HIDE DEF shares, net, w
    <3>8. shares \in [Users -> Int]
      BY <3>3
    <3>9. SumFunction(w) <= SumFunction(shares)
      BY <2>2, <3>6, <3>8, SumMonotone, FiniteAssumption
    <3>10. (\A u \in Users : shares[u] <= w[u]) => SumFunction(shares) <= SumFunction(w)
      BY <2>2, <3>8, SumMonotone, FiniteAssumption
    <3>11. SumFunction(w) \in Int
      BY <2>2, SumType, FiniteAssumption
    <3>12. QED
      BY <3>2, <3>3, <3>7, <3>9, <3>10, <3>11 DEF net
  <2>4. ASSUME NEW u \in Users, w[u] # 0 PROVE settlement[e] # None /\ splits[e] # <<>>
    BY <2>4 DEF PaidInv, Recipients
  <2>5. (\A u \in Users : w[u] = 0) => paid = 0
    <3> HIDE DEF w
    <3>1. QED
      BY <2>2, SumOfZeros, FiniteAssumption
  <2>6. ASSUME splits[e] # <<>>, \A u \in Recipients(e) : w[u] > 0
        PROVE  settlement[e] # None
    <3>1. PICK organizer : ValidSplits(splits[e], organizer)
      BY <2>6 DEF PaidInv
    <3>2. 1 \in DOMAIN splits[e] /\ splits[e][1] \in SplitRow
      BY <3>1, SplitRows
    <3>3. Primary(e) \in Users /\ Primary(e) \in Recipients(e)
      BY <3>2 DEF Primary, Recipients, SplitRow
    <3>4. w[Primary(e)] # 0
      BY <2>1, <2>6, <3>3
    <3>5. QED
      BY <2>4, <3>3, <3>4
  <2>7. QED
    BY <2>3, <2>4, <2>5, <2>6
<1>2. QED
  BY <1>1, BooksInvariant, PaidInvariant, PTL

-----------------------------------------------------------------------------
(* Calls that sell, and calls that do not.                                 *)

\* No request is used and no payment made.
NoSale ==
  /\ UNCHANGED saleVars
  /\ \A i \in PaymentIds : payments[i] = None => payments'[i] = None

\* Every call but a purchase.
LEMMA SaleSteps ==
  ASSUME BooksInv, [Next]_vars
  PROVE  NoSale \/ \E p \in PaymentParams : CreatePayment(p)
<1>1. ASSUME UNCHANGED <<saleVars, payments>> PROVE NoSale
  BY <1>1 DEF NoSale
<1>2. ASSUME NEW e \in Events, UNCHANGED payments \/ ReleaseTimedOut(e), UNCHANGED saleVars
      PROVE  NoSale
  BY <1>2, UntouchedByRelease DEF NoSale, Untouched
<1>3. ASSUME NEW i \in PaymentIds, payments[i] # None, UNCHANGED saleVars,
             \A j \in PaymentIds \ {i} : payments'[j] = payments[j]
      PROVE  NoSale
  BY <1>3 DEF NoSale
<1>4. CASE Quiet
  BY <1>1, <1>4 DEF Quiet
<1>5. ASSUME NEW i \in PaymentIds,
             \/ \E c \in EmailCommitments : BindEmailCommitment(i, c)
             \/ RefundCall(i) \/ ApproveRefund(i) \/ RaiseDispute(i) \/ RejectDispute(i)
      PROVE  NoSale
  <2>1. RefundCall(i) => /\ payments[i] # None /\ UNCHANGED saleVars
                         /\ \A j \in PaymentIds \ {i} : payments'[j] = payments[j]
    BY RefundCalls, ZenonT(30) DEF RefundOf, RefundFrame, Refunded, HasStatus,
                       BooksInv, DisputeInv, RecordsTypeOK, SaleTypeOK
  <2>2. \/ \E c \in EmailCommitments : BindEmailCommitment(i, c)
        \/ ApproveRefund(i) \/ RaiseDispute(i) \/ RejectDispute(i)
        => /\ payments[i] # None /\ UNCHANGED saleVars
           /\ \A j \in PaymentIds \ {i} : payments'[j] = payments[j]
    BY DEF BindEmailCommitment, ApproveRefund, RaiseDispute, RejectDispute, Refunded, HasStatus,
           BooksInv, DisputeInv, RecordsTypeOK, SaleTypeOK
  <2>3. QED
    BY <1>3, <1>5, <2>1, <2>2
<1>6. ASSUME NEW i \in PaymentIds, ResaleCall(i) \/ \E u \in Users : BuyResaleTicket(i, u)
      PROVE  NoSale
  BY <1>1, <1>6 DEF ResaleCall, ListTicketForResale, DelistTicket, BuyResaleTicket
<1>7. ASSUME NEW e \in Events, EscrowCall(e) PROVE NoSale
  <2>1. UNCHANGED saleVars
    BY <1>7, Zenon DEF EscrowCall, ProcessDisputeTimeouts, Withdraw, WithdrawRevenue,
         WithdrawToken, WithdrawAllTokens, ReleaseIfExpired, WithdrawPlatformRevenue, PayoutFrame
  <2>2. UNCHANGED payments \/ ReleaseTimedOut(e)
    <3>1. WithdrawPlatformRevenue(e) => UNCHANGED payments
      BY DEF WithdrawPlatformRevenue, PayoutFrame
    <3>2. QED
      BY <1>7, <3>1, EscrowCalls DEF ProcessDisputeTimeouts, PaidOut, Drained
  <2>3. QED
    BY <1>2, <2>1, <2>2
<1>8. ASSUME NEW e \in Events, NEW u \in Users, SplitCall(e, u) PROVE NoSale
  <2>1. UNCHANGED saleVars
    BY <1>8, Zenon DEF SplitCall, WithdrawSplit, ReassignFlaggedShare, FlagCohost,
         ReleaseFlaggedShare, PayoutFrame
  <2>2. UNCHANGED payments \/ ReleaseTimedOut(e)
    BY <1>8, SplitCalls, Settlements DEF SharePaid, Settled
  <2>3. QED
    BY <1>2, <2>1, <2>2
<1>9. QED
  BY <1>4, <1>5, <1>6, <1>7, <1>8, StepKinds

-----------------------------------------------------------------------------
(* The owner index.                                                        *)

\* What the index promises: of each ticket, one slot, of its owner's list.
Indexes(index, own) ==
  /\ \A i \in PaymentIds, u \in Users :
       own[i] = u <=> \E k \in DOMAIN index[u] : index[u][k] = i
  /\ \A u \in Users : \A j, k \in DOMAIN index[u] :
       index[u][j] = index[u][k] => j = k

Owners == [PaymentIds -> Users \cup {None}]
OwnerIndexes == [Users -> Seq(PaymentIds)]

\* A new ticket in the last slot.
LEMMA AddedTicket ==
  ASSUME NEW index \in OwnerIndexes, NEW own \in Owners, Indexes(index, own),
         NEW u \in Users, NEW i \in PaymentIds, own[i] = None
  PROVE  Indexes(AddOwnerTicket(index, u, i), [own EXCEPT ![i] = u])
<1> DEFINE list == index[u]
           n == Len(list)
           after == AddOwnerTicket(index, u, i)
           owners == [own EXCEPT ![i] = u]
<1>1. /\ list \in Seq(PaymentIds) /\ n \in Nat /\ DOMAIN list = 1..n
      /\ \A k \in DOMAIN list : list[k] \in PaymentIds
  BY ElementOfSeq DEF OwnerIndexes
<1>2. /\ DOMAIN after[u] = 1..(n + 1) /\ after[u][n + 1] = i
      /\ \A k \in 1..n : after[u][k] = list[k]
  <2>1. after[u] = Append(list, i)
    BY DEF AddOwnerTicket, OwnerIndexes
  <2>2. QED
    BY <1>1, <2>1
<1>3. \A v \in Users \ {u} : after[v] = index[v]
  BY DEF AddOwnerTicket, OwnerIndexes
<1>4. owners[i] = u /\ \A j \in PaymentIds \ {i} : owners[j] = own[j]
  BY DEF Owners
<1>5. \A v \in Users : \A k \in DOMAIN index[v] : index[v][k] # i
  BY ConstantsAssumption DEF Indexes
<1> HIDE DEF after, owners
<1>6. ASSUME NEW j \in PaymentIds, NEW v \in Users
      PROVE  owners[j] = v <=> \E k \in DOMAIN after[v] : after[v][k] = j
  <2>1. CASE v # u
    <3>1. (owners[j] = v) <=> (own[j] = v)
      BY <1>4, <2>1, ConstantsAssumption
    <3>2. QED
      BY <1>3, <2>1, <3>1 DEF Indexes
  <2>2. CASE v = u /\ j = i
    BY <1>1, <1>2, <1>4, <2>2
  <2>3. CASE v = u /\ j # i
    <3>1. (\E k \in DOMAIN after[u] : after[u][k] = j) <=> (\E k \in DOMAIN list : list[k] = j)
      BY <1>1, <1>2, <2>3
    <3>2. QED
      BY <1>4, <2>3, <3>1 DEF Indexes
  <2>4. QED
    BY <2>1, <2>2, <2>3
<1>7. ASSUME NEW v \in Users, NEW j \in DOMAIN after[v], NEW k \in DOMAIN after[v],
             after[v][j] = after[v][k]
      PROVE  j = k
  <2>1. CASE v # u
    BY <1>3, <1>7, <2>1 DEF Indexes
  <2>2. CASE v = u
    <3>1. \A l, m \in DOMAIN list : list[l] = list[m] => l = m
      BY DEF Indexes
    <3>2. \A l \in DOMAIN list : list[l] # i
      BY <1>5
    <3>3. /\ j \in 1..(n + 1) /\ k \in 1..(n + 1) /\ after[u][j] = after[u][k]
          /\ \A l \in 1..n : after[u][l] # i /\ after[u][l] = list[l]
      BY <1>1, <1>2, <1>7, <2>2, <3>2
    <3>4. j \in 1..n <=> k \in 1..n
      BY <1>1, <1>2, <3>3
    <3>5. CASE j \in 1..n
      BY <1>1, <3>1, <3>3, <3>4, <3>5
    <3>6. CASE j \notin 1..n
      BY <1>1, <3>3, <3>4, <3>6
    <3>7. QED
      BY <3>5, <3>6
  <2>3. QED
    BY <2>1, <2>2
<1>8. QED
  BY <1>6, <1>7 DEF Indexes, after, owners

\* The last ticket moves into the slot of the one that leaves.
LEMMA RemovedTicket ==
  ASSUME NEW index \in OwnerIndexes, NEW own \in Owners, Indexes(index, own),
         NEW u \in Users, NEW i \in PaymentIds, own[i] = u
  PROVE  Indexes(RemoveOwnerTicket(index, u, i), [own EXCEPT ![i] = None])
<1> DEFINE list == index[u]
           n == Len(list)
           after == RemoveOwnerTicket(index, u, i)
           owners == [own EXCEPT ![i] = None]
<1>1. /\ list \in Seq(PaymentIds) /\ n \in Nat /\ DOMAIN list = 1..n
      /\ \A k \in DOMAIN list : list[k] \in PaymentIds
  BY ElementOfSeq DEF OwnerIndexes
<1>2. PICK slot \in 1..n : list[slot] = i
  BY <1>1 DEF Indexes
<1>3. \A j, k \in 1..n : list[j] = list[k] => j = k
  BY <1>1 DEF Indexes
<1>4. after = [index EXCEPT ![u] =
                 [k \in 1..(n - 1) |-> IF k = slot THEN list[n] ELSE list[k]]]
  <2> DEFINE at == {k \in 1..n : list[k] = i}
  <2>1. at = {slot}
    BY <1>2, <1>3
  <2>2. after = IF at = {} THEN index
                ELSE [index EXCEPT ![u] =
                        [k \in 1..(n - 1) |-> IF k \in at THEN list[n] ELSE list[k]]]
    BY DEF RemoveOwnerTicket
  <2> HIDE DEF at, after
  <2>3. QED
    BY <2>1, <2>2
<1>5. /\ DOMAIN after[u] = 1..(n - 1)
      /\ \A k \in 1..(n - 1) : after[u][k] = IF k = slot THEN list[n] ELSE list[k]
      /\ \A v \in Users \ {u} : after[v] = index[v]
  BY <1>4 DEF OwnerIndexes
<1>6. owners[i] = None /\ \A j \in PaymentIds \ {i} : owners[j] = own[j]
  BY DEF Owners
<1>7. \A v \in Users \ {u} : \A k \in DOMAIN index[v] : index[v][k] # i
  BY DEF Indexes
<1> HIDE DEF after, owners
<1>8. ASSUME NEW j \in PaymentIds
      PROVE  (\E k \in DOMAIN after[u] : after[u][k] = j)
               <=> j # i /\ \E k \in DOMAIN list : list[k] = j
  <2>1. ASSUME NEW k \in 1..(n - 1), after[u][k] = j
        PROVE  j # i /\ \E l \in 1..n : list[l] = j
    <3>1. k \in 1..n /\ n \in 1..n /\ k # n
      BY <1>1
    <3>2. CASE k = slot
      BY <1>2, <1>3, <1>5, <2>1, <3>1, <3>2
    <3>3. CASE k # slot
      BY <1>2, <1>3, <1>5, <2>1, <3>1, <3>3
    <3>4. QED
      BY <3>2, <3>3
  <2>2. ASSUME NEW k \in 1..n, list[k] = j, j # i
        PROVE  \E l \in 1..(n - 1) : after[u][l] = j
    <3>1. k # slot
      BY <1>2, <2>2
    <3>2. CASE k = n
      <4>1. slot \in 1..(n - 1)
        BY <1>1, <3>1, <3>2
      <4>2. QED
        BY <1>5, <2>2, <3>2, <4>1
    <3>3. CASE k # n
      <4>1. k \in 1..(n - 1)
        BY <1>1, <3>3
      <4>2. QED
        BY <1>5, <2>2, <3>1, <4>1
    <3>4. QED
      BY <3>2, <3>3
  <2>3. QED
    BY <1>1, <1>5, <2>1, <2>2
<1>9. ASSUME NEW j \in PaymentIds, NEW v \in Users
      PROVE  owners[j] = v <=> \E k \in DOMAIN after[v] : after[v][k] = j
  <2>1. owners[j] = v <=> j # i /\ own[j] = v
    BY <1>6, ConstantsAssumption
  <2>2. CASE v # u
    BY <1>5, <1>7, <2>1, <2>2 DEF Indexes
  <2>3. CASE v = u
    BY <1>8, <2>1, <2>3 DEF Indexes
  <2>4. QED
    BY <2>2, <2>3
<1>10. ASSUME NEW v \in Users, NEW j \in DOMAIN after[v], NEW k \in DOMAIN after[v],
              after[v][j] = after[v][k]
       PROVE  j = k
  <2>1. CASE v # u
    BY <1>5, <1>10, <2>1 DEF Indexes
  <2>2. CASE v = u
    <3>1. /\ j \in 1..(n - 1) /\ k \in 1..(n - 1) /\ after[u][j] = after[u][k]
          /\ j \in 1..n /\ k \in 1..n /\ n \in 1..n /\ j # n /\ k # n
      BY <1>1, <1>5, <1>10, <2>2
    <3>2. /\ after[u][j] = IF j = slot THEN list[n] ELSE list[j]
          /\ after[u][k] = IF k = slot THEN list[n] ELSE list[k]
      BY <1>5, <3>1
    <3> HIDE DEF list, n
    <3>3. QED
      BY <1>3, <3>1, <3>2
  <2>3. QED
    BY <2>1, <2>2
<1>11. QED
  BY <1>9, <1>10 DEF Indexes, after, owners


-----------------------------------------------------------------------------
(* Who owns what, and who lists it.                                        *)

\* Inductive: a ticket is listed and owned only once it was paid for.
TicketInv ==
  /\ Indexes(ownerTickets, owner)
  /\ ListingsByOwner
  /\ \A i \in PaymentIds : payments[i] = None => owner[i] = None /\ resaleListing[i] = None

\* What the proofs below know of a state, and of a step.
SalesContext == BooksInv /\ RefundInv

LEMMA PaymentsStay ==
  ASSUME SalesContext, [Next]_vars, NEW i \in PaymentIds, payments[i] # None
  PROVE  /\ payments'[i] # None /\ payments'[i].event = payments[i].event
         /\ payments'[i].nullifier_commitment = payments[i].nullifier_commitment
<1>1. Fate(i)
  BY EveryFate DEF SalesContext, BooksInv, DisputeInv
<1>2. payments'[i] \in PaymentRecord => payments'[i] # None
  BY NoneAssumption
<1>3. QED
  BY <1>1, <1>2 DEF Fate, Evolves

LEMMA SaleOfTicket ==
  ASSUME SalesContext, TicketInv, NEW p \in PaymentParams, CreatePayment(p)
  PROVE  TicketInv'
<1>1. RecordsTypeOK
  BY DEF SalesContext, BooksInv, DisputeInv
<1>2. PICK i \in NextId, r \in PaymentRecord :
        /\ payments' = [payments EXCEPT ![i] = r]
        /\ owner' = [owner EXCEPT ![i] = r.payer]
        /\ ownerTickets' = IF r.payer = None THEN ownerTickets
                           ELSE AddOwnerTicket(ownerTickets, r.payer, i)
  BY <1>1, Purchases
<1>3. i \in PaymentIds /\ payments[i] = None /\ owner[i] = None /\ resaleListing[i] = None
  BY DEF NextId, TicketInv
<1>4. UNCHANGED resaleListing
  BY DEF CreatePayment
<1>5. owner \in Owners /\ ownerTickets \in OwnerIndexes
  BY <1>1 DEF RecordsTypeOK, TicketTypeOK, Owners, OwnerIndexes
<1>6. Indexes(ownerTickets, owner)'
  <2>1. CASE r.payer = None
    <3>1. owner' = owner
      BY <1>2, <1>3, <1>5, <2>1 DEF Owners
    <3>2. ownerTickets' = ownerTickets
      BY <1>2, <2>1
    <3>3. QED
      BY <3>1, <3>2 DEF TicketInv, Indexes
  <2>2. CASE r.payer # None
    <3>1. r.payer \in Users
      BY <2>2 DEF PaymentRecord
    <3>2. Indexes(AddOwnerTicket(ownerTickets, r.payer, i), [owner EXCEPT ![i] = r.payer])
      BY <1>3, <1>5, <3>1, AddedTicket DEF TicketInv
    <3>3. Indexes(ownerTickets', owner')
      BY <1>2, <2>2, <3>2
    <3>4. QED
      BY <3>3 DEF Indexes
  <2>3. QED
    BY <2>1, <2>2
<1>7. \A j \in PaymentIds \ {i} : owner'[j] = owner[j] /\ payments'[j] = payments[j]
  BY <1>1, <1>2, <1>5 DEF Owners, RecordsTypeOK, SaleTypeOK
<1>8. payments'[i] # None
  BY <1>1, <1>2, <1>3, NoneAssumption DEF RecordsTypeOK, SaleTypeOK
<1>9. ListingsByOwner'
  BY <1>3, <1>4, <1>7 DEF ListingsByOwner, TicketInv
<1>10. \A j \in PaymentIds : payments'[j] = None => owner'[j] = None /\ resaleListing'[j] = None
  BY <1>4, <1>7, <1>8 DEF TicketInv
<1>11. QED
  BY <1>6, <1>9, <1>10 DEF TicketInv

LEMMA ListingChanged ==
  ASSUME SalesContext, TicketInv, NEW i \in PaymentIds, ResaleCall(i)
  PROVE  TicketInv'
<1>1. /\ UNCHANGED <<owner, ownerTickets, payments>>
      /\ \/ /\ payments[i] # None
            /\ \E price : resaleListing' =
                 [resaleListing EXCEPT ![i] = [price |-> price, seller |-> owner[i]]]
         \/ resaleListing' = [resaleListing EXCEPT ![i] = None]
  BY DEF ResaleCall, ListTicketForResale, DelistTicket
<1>2. resaleListing \in [PaymentIds -> ResaleListing \cup {None}]
  BY DEF SalesContext, BooksInv, DisputeInv, RecordsTypeOK, TicketTypeOK
<1>3. Indexes(ownerTickets, owner)'
  BY <1>1 DEF TicketInv, Indexes
<1>4. ListingsByOwner'
  BY <1>1, <1>2 DEF ListingsByOwner, TicketInv
<1>5. \A j \in PaymentIds : payments'[j] = None => owner'[j] = None /\ resaleListing'[j] = None
  BY <1>1, <1>2 DEF TicketInv
<1>6. QED
  BY <1>3, <1>4, <1>5 DEF TicketInv

LEMMA ResaleOfTicket ==
  ASSUME SalesContext, TicketInv, NEW i \in PaymentIds, NEW buyer \in Users,
         BuyResaleTicket(i, buyer)
  PROVE  TicketInv'
<1>1. PICK seller \in Users : owner[i] = seller /\ TransferTicket(i, seller, buyer)
  <2>1. resaleListing[i] # None /\ resaleListing[i] \in ResaleListing \cup {None}
    BY DEF BuyResaleTicket, SalesContext, BooksInv, DisputeInv, RecordsTypeOK, TicketTypeOK
  <2>2. resaleListing[i].seller \in Users
    BY <2>1 DEF ResaleListing
  <2>3. QED
    BY <2>2 DEF BuyResaleTicket
<1> DEFINE index == RemoveOwnerTicket(ownerTickets, seller, i)
           own == [owner EXCEPT ![i] = None]
<1>2. /\ owner' = [owner EXCEPT ![i] = buyer]
      /\ ownerTickets' = AddOwnerTicket(index, buyer, i)
      /\ resaleListing' = [resaleListing EXCEPT ![i] = None]
      /\ UNCHANGED payments /\ payments[i] # None
  BY <1>1 DEF TransferTicket, BuyResaleTicket
<1>3. owner \in Owners /\ ownerTickets \in OwnerIndexes
  BY DEF SalesContext, BooksInv, DisputeInv, RecordsTypeOK, TicketTypeOK, Owners, OwnerIndexes
<1>4. Indexes(index, own)
  BY <1>1, <1>3, RemovedTicket DEF TicketInv
<1>5. /\ own \in Owners /\ own[i] = None
      /\ [own EXCEPT ![i] = buyer] = [owner EXCEPT ![i] = buyer]
  BY <1>3 DEF Owners
<1>6. index \in OwnerIndexes
  BY <1>3, OwnerIndexTypes DEF OwnerIndexes
<1> HIDE DEF index, own
<1>7. Indexes(ownerTickets', owner')
  BY <1>2, <1>4, <1>5, <1>6, AddedTicket
<1>8. Indexes(ownerTickets, owner)'
  BY <1>7 DEF Indexes
<1>9. /\ \A j \in PaymentIds \ {i} : owner'[j] = owner[j] /\ resaleListing'[j] = resaleListing[j]
      /\ resaleListing'[i] = None
  BY <1>2, <1>3 DEF Owners, SalesContext, BooksInv, DisputeInv, RecordsTypeOK, TicketTypeOK
<1>10. ListingsByOwner'
  BY <1>9 DEF ListingsByOwner, TicketInv
<1>11. \A j \in PaymentIds : payments'[j] = None => owner'[j] = None /\ resaleListing'[j] = None
  BY <1>2, <1>9 DEF TicketInv
<1>12. QED
  BY <1>8, <1>10, <1>11 DEF TicketInv

LEMMA SalesContextHolds == Spec => []SalesContext
<1>1. BooksInv /\ RefundInv => SalesContext
  BY DEF SalesContext
<1>2. QED
  BY <1>1, BooksInvariant, RefundInvariant, PTL

LEMMA TicketInvariant == Spec => []TicketInv
<1>1. Init => TicketInv
  BY ConstantsAssumption DEF Init, TicketInv, Indexes, ListingsByOwner
<1>2. SalesContext /\ TicketInv /\ [Next]_vars => TicketInv'
  <2> SUFFICES ASSUME SalesContext, TicketInv, [Next]_vars PROVE TicketInv'
    OBVIOUS
  <2>1. CASE UNCHANGED ticketVars
    <3>1. UNCHANGED <<owner, ownerTickets, resaleListing>>
      BY <2>1 DEF ticketVars
    <3>2. \A i \in PaymentIds : payments'[i] = None => payments[i] = None
      BY PaymentsStay
    <3>3. QED
      BY <3>1, <3>2 DEF TicketInv, Indexes, ListingsByOwner
  <2>2. RecordsTypeOK
    BY DEF SalesContext, BooksInv, DisputeInv
  <2>3. QED
    BY <2>1, <2>2, ListingSteps, SaleOfTicket, ListingChanged, ResaleOfTicket
<1>3. QED
  BY <1>1, <1>2, SalesContextHolds, PTL DEF Spec

\* Through purchases at every level and resales, to anyone, the owner included,
\* each owner's list has each of the owner's tickets exactly once.
THEOREM OwnerIndexStaysExact == Spec => []OwnerIndexMatchesTickets
<1>1. TicketInv => OwnerIndexMatchesTickets
  BY DEF TicketInv, Indexes, OwnerIndexMatchesTickets
<1>2. QED
  BY <1>1, TicketInvariant, PTL

\* No listing outlives a change of owner: the seller of a listing owns the ticket.
THEOREM ListingsStayByOwner == Spec => []ListingsByOwner
<1>1. TicketInv => ListingsByOwner
  BY DEF TicketInv
<1>2. QED
  BY <1>1, TicketInvariant, PTL

-----------------------------------------------------------------------------
(* Requests.                                                               *)

\* Inductive: every nullifier of a payment is spent, every used key paid for.
RequestInv ==
  /\ IsFiniteSet(usedNonces)
  /\ RequestsUsedOnce
  /\ \A i \in Made : payments[i].nullifier_commitment # None =>
       payments[i].nullifier_commitment \in spentNullifiers

\* A purchase fills one slot.
LEMMA MadeOne ==
  ASSUME SalesContext, NEW p \in PaymentParams, CreatePayment(p)
  PROVE  \E i \in PaymentIds :
           /\ i \notin Made /\ Made' = Made \cup {i}
           /\ payments'[i].event = p.event
           /\ payments'[i].nullifier_commitment = p.nullifier
           /\ \A j \in Made : payments'[j] = payments[j]
<1>1. RecordsTypeOK
  BY DEF SalesContext, BooksInv, DisputeInv
<1>2. PICK i \in NextId, r \in PaymentRecord :
        r = PurchaseRecord(p) /\ payments' = [payments EXCEPT ![i] = r]
  BY <1>1, Purchases
<1>3. i \in PaymentIds /\ payments[i] = None
  BY DEF NextId
<1>4. /\ payments'[i] = r /\ r # None
      /\ \A j \in PaymentIds \ {i} : payments'[j] = payments[j]
  BY <1>1, <1>2, <1>3, NoneAssumption DEF RecordsTypeOK, SaleTypeOK
<1>5. r.event = p.event /\ r.nullifier_commitment = p.nullifier
  BY <1>2 DEF PurchaseRecord
<1>6. i \notin Made /\ Made' = Made \cup {i}
  BY <1>3, <1>4 DEF Made
<1>7. QED
  BY <1>3, <1>4, <1>5, <1>6 DEF Made

LEMMA RequestInvariant == Spec => []RequestInv
<1>1. Init => RequestInv
  <2> SUFFICES ASSUME Init PROVE RequestInv
    OBVIOUS
  <2>1. Made = {} /\ usedNonces = {}
    BY DEF Init, Made
  <2>2. QED
    BY <2>1, FS_EmptySet DEF RequestInv, RequestsUsedOnce
<1>2. SalesContext /\ RequestInv /\ [Next]_vars => RequestInv'
  <2> SUFFICES ASSUME SalesContext, RequestInv, [Next]_vars PROVE RequestInv'
    OBVIOUS
  <2>1. BooksInv
    BY DEF SalesContext
  <2>2. Made \in SUBSET PaymentIds /\ IsFiniteSet(Made)
    BY FinitelyManyPayments, FS_Subset DEF Made
  <2>3. \A i \in Made : payments'[i].nullifier_commitment = payments[i].nullifier_commitment
    BY PaymentsStay DEF Made
  <2>4. CASE NoSale
    <3>1. Made' = Made
      BY <2>4, PaymentsStay DEF NoSale, Made
    <3>2. UNCHANGED <<usedNonces, spentNullifiers>>
      BY <2>4 DEF NoSale, saleVars
    <3>3. QED
      BY <2>3, <3>1, <3>2 DEF RequestInv, RequestsUsedOnce
  <2>5. ASSUME NEW p \in PaymentParams, CreatePayment(p) PROVE RequestInv'
    <3>1. PICK i \in PaymentIds :
            /\ i \notin Made /\ Made' = Made \cup {i}
            /\ payments'[i].nullifier_commitment = p.nullifier
      BY <2>5, MadeOne
    <3>2. /\ usedNonces' = usedNonces \cup {NonceKey(p)} /\ NonceKey(p) \notin usedNonces
          /\ spentNullifiers' = spentNullifiers \cup ({p.nullifier} \ {None})
          /\ p.nullifier \notin spentNullifiers
      BY <2>5 DEF CreatePayment, AlreadyUsed
    <3>3. /\ IsFiniteSet(usedNonces') /\ Cardinality(usedNonces') = Cardinality(usedNonces) + 1
          /\ Cardinality(Made') = Cardinality(Made) + 1
      BY <2>2, <3>1, <3>2, FS_AddElement DEF RequestInv
    <3>4. \A j \in Made' : payments'[j].nullifier_commitment # None =>
            payments'[j].nullifier_commitment \in spentNullifiers'
      BY <2>3, <3>1, <3>2 DEF RequestInv
    <3>5. \A j, k \in Made' :
            (payments'[j].nullifier_commitment # None
               /\ payments'[j].nullifier_commitment = payments'[k].nullifier_commitment)
            => j = k
      BY <2>3, <3>1, <3>2 DEF RequestInv, RequestsUsedOnce
    <3>6. QED
      BY <3>3, <3>4, <3>5 DEF RequestInv, RequestsUsedOnce
  <2>6. QED
    BY <2>1, <2>4, <2>5, SaleSteps
<1>3. QED
  BY <1>1, <1>2, SalesContextHolds, PTL DEF Spec

\* Through every entry point, at every privacy level, a request is recorded
\* under the key it is looked up by, and a nullifier is spent once.
THEOREM RequestsAreUsedOnce == Spec => []RequestsUsedOnce
<1>1. RequestInv => RequestsUsedOnce
  BY DEF RequestInv
<1>2. QED
  BY <1>1, RequestInvariant, PTL

-----------------------------------------------------------------------------
(* Supply.                                                                 *)

SoldFor(e) == {i \in Made : payments[i].event = e}

\* Every terms the event contract sends of an event give the same supply.
SupplyIsFixed == \A a, b \in SyncedTerms : a.max_supply = b.max_supply

\* Inductive: the counter counts payments, and stops at the supply.
SupplyInv ==
  \A e \in Events :
    config[e] # None =>
      /\ config[e].terms \in SyncedTerms
      /\ config[e].sold_count <= Cardinality(SoldFor(e))
      /\ (SupplyIsFixed /\ config[e].terms.max_supply > 0) =>
           config[e].sold_count <= config[e].terms.max_supply

\* The payments made for an event only become more, by one with each sale.
LEMMA SoldGrows ==
  ASSUME SalesContext, [Next]_vars, NEW e \in Events
  PROVE  /\ Cardinality(SoldFor(e)) \in Nat /\ Cardinality(SoldFor(e)') \in Nat
         /\ Cardinality(SoldFor(e)) <= Cardinality(SoldFor(e)')
         /\ \A p \in PaymentParams : p.event = e /\ CreatePayment(p) =>
              Cardinality(SoldFor(e)') = Cardinality(SoldFor(e)) + 1
<1>1. /\ SoldFor(e) \in SUBSET PaymentIds /\ SoldFor(e)' \in SUBSET PaymentIds
      /\ SoldFor(e) \subseteq SoldFor(e)'
  BY PaymentsStay DEF SoldFor, Made
<1>2. IsFiniteSet(SoldFor(e)) /\ IsFiniteSet(SoldFor(e)')
  BY <1>1, FinitelyManyPayments, FS_Subset
<1>3. /\ Cardinality(SoldFor(e)) \in Nat /\ Cardinality(SoldFor(e)') \in Nat
      /\ Cardinality(SoldFor(e)) <= Cardinality(SoldFor(e)')
  BY <1>1, <1>2, FS_CardinalityType, FS_Subset
<1>4. ASSUME NEW p \in PaymentParams, p.event = e, CreatePayment(p)
      PROVE  Cardinality(SoldFor(e)') = Cardinality(SoldFor(e)) + 1
  <2>1. PICK i \in PaymentIds :
          /\ i \notin Made /\ Made' = Made \cup {i} /\ payments'[i].event = e
          /\ \A j \in Made : payments'[j] = payments[j]
    BY <1>4, MadeOne
  <2>2. i \notin SoldFor(e) /\ SoldFor(e)' = SoldFor(e) \cup {i}
    BY <2>1 DEF SoldFor
  <2>3. QED
    BY <1>2, <2>2, FS_AddElement
<1>5. QED
  BY <1>3, <1>4

LEMMA SupplyInvariant == Spec => []SupplyInv
<1>1. Init => SupplyInv
  BY DEF Init, SupplyInv
<1>2. SalesContext /\ SupplyInv /\ [Next]_vars => SupplyInv'
  <2> SUFFICES ASSUME SalesContext, SupplyInv, [Next]_vars, NEW e \in Events, config'[e] # None
               PROVE  /\ config'[e].terms \in SyncedTerms
                      /\ config'[e].sold_count <= Cardinality(SoldFor(e)')
                      /\ (SupplyIsFixed /\ config'[e].terms.max_supply > 0) =>
                           config'[e].sold_count <= config'[e].terms.max_supply
    BY DEF SupplyInv
  <2> DEFINE before == Cardinality(SoldFor(e))
             after == Cardinality(SoldFor(e)')
  <2>1. before \in Nat /\ after \in Nat /\ before <= after
    BY SoldGrows
  <2>2. ConfigFate(e)
    BY ConfigFates DEF SalesContext, BooksInv, DisputeInv
  <2>3. config[e] # None => /\ config[e] \in EventConfig /\ config[e].sold_count \in Nat
                            /\ config[e].terms \in SyncedTerms
                            /\ config[e].sold_count <= before
                            /\ (SupplyIsFixed /\ config[e].terms.max_supply > 0) =>
                                 config[e].sold_count <= config[e].terms.max_supply
    BY ConfigCounters DEF SupplyInv, SalesContext, BooksInv, DisputeInv, RecordsTypeOK, EventConfig
  <2>4. \A p \in PaymentParams : p.event = e /\ CreatePayment(p) => after = before + 1
    BY SoldGrows
  <2> HIDE DEF before, after
  <2>5. ASSUME config[e] # None, config'[e].terms = config[e].terms,
               config'[e].sold_count = config[e].sold_count
        PROVE  /\ config'[e].terms \in SyncedTerms
               /\ config'[e].sold_count <= after
               /\ (SupplyIsFixed /\ config'[e].terms.max_supply > 0) =>
                    config'[e].sold_count <= config'[e].terms.max_supply
    BY <2>1, <2>3, <2>5
  <2>6. CASE Created(e)
    <3>1. PICK terms \in SyncedTerms : config'[e] = NewConfig(terms)
      BY <2>6 DEF Created
    <3>2. config'[e].terms = terms /\ config'[e].sold_count = 0
      BY <3>1 DEF NewConfig
    <3>3. terms.max_supply \in Nat
      BY ConstantsAssumption DEF Terms
    <3>4. QED
      BY <2>1, <3>2, <3>3 DEF after
  <2>7. CASE config'[e] = config[e]
    BY <2>5, <2>7 DEF after
  <2>8. ASSUME config[e] # None, NEW terms \in SyncedTerms,
               config'[e] = [config[e] EXCEPT !.terms = terms]
        PROVE  /\ config'[e].terms \in SyncedTerms
               /\ config'[e].sold_count <= after
               /\ (SupplyIsFixed /\ config'[e].terms.max_supply > 0) =>
                    config'[e].sold_count <= config'[e].terms.max_supply
    <3>1. config'[e].terms = terms /\ config'[e].sold_count = config[e].sold_count
      BY <2>3, <2>8 DEF EventConfig
    <3>2. SupplyIsFixed => terms.max_supply = config[e].terms.max_supply
      BY <2>3, <2>8 DEF SupplyIsFixed
    <3>3. QED
      BY <2>1, <2>3, <2>8, <3>1, <3>2
  <2>9. CASE config[e] # None /\ SoldOne(e)
    <3>1. PICK p \in PaymentParams :
            /\ p.event = e /\ CreatePayment(p)
            /\ config'[e] = [config[e] EXCEPT !.sold_count = @ + 1]
      BY <2>9 DEF SoldOne
    <3>2. /\ config'[e].terms = config[e].terms
          /\ config'[e].sold_count = config[e].sold_count + 1
      BY <2>3, <2>9, <3>1 DEF EventConfig
    <3>3. config[e].terms.max_supply > 0 => config[e].sold_count < config[e].terms.max_supply
      BY <2>9, <3>1 DEF CreatePayment, WithinCaps
    <3>4. config[e].terms.max_supply \in Nat
      BY <2>3, <2>9 DEF EventConfig, Terms
    <3>5. QED
      BY <2>1, <2>3, <2>4, <2>9, <3>1, <3>2, <3>3, <3>4 DEF after
  <2>10. ASSUME config[e] # None,
                \/ \E d \in DelayExtensions :
                     config'[e] = [config[e] EXCEPT !.admin_delay_extension_ledgers = @ + d]
                \/ CancelledNow(e) \/ LatchedNow(e)
         PROVE  /\ config'[e].terms = config[e].terms
                /\ config'[e].sold_count = config[e].sold_count
    BY <2>3, <2>10 DEF CancelledNow, LatchedNow, EventConfig
  <2>11. QED
    BY <2>2, <2>5, <2>6, <2>7, <2>8, <2>9, <2>10 DEF ConfigFate, after
<1>3. QED
  BY <1>1, <1>2, SalesContextHolds, PTL DEF Spec

\* However sales, re-syncs, cancellations and payouts interleave, an event
\* whose supply stays what it was never sells more than that.
THEOREM SupplyStaysRespected ==
  ASSUME SupplyIsFixed
  PROVE  Spec => []SupplyRespected
<1>1. SalesContext /\ SupplyInv => SupplyRespected
  BY DEF SupplyInv, SupplyRespected, SoldFor
<1>2. QED
  BY <1>1, SalesContextHolds, SupplyInvariant, PTL
=============================================================================
