---------------------------- MODULE PaymentsProofs ----------------------------
(***************************************************************************)
(* What any call may do to the records of the payments contract, for every *)
(* number of users, events, tokens, payments and ledgers: they stay well   *)
(* formed, the three stores of a dispute agree for ever, no payment gives  *)
(* back more than was paid, a refunded one is final, and the purchase it   *)
(* records never changes.                                                  *)
(***************************************************************************)
EXTENDS PaymentsProperties, SequenceTheorems, TLAPS

-----------------------------------------------------------------------------
(* The integer divisions of the code.                                      *)

\* A share in basis points is an integer between zero and the whole amount.
LEMMA ShareBounds ==
  ASSUME NEW a \in Nat, NEW r \in Bps
  PROVE  /\ Share(a, r) \in Nat
         /\ Share(a, r) <= a
<1>1. a * r \in Nat /\ a * r <= a * 10000
  BY DEF Bps
<1>2. QED
  BY <1>1 DEF Share

\* A quotient is bounded as its dividend is.
LEMMA QuotientBounds ==
  ASSUME NEW a \in Nat, NEW b \in Nat \ {0}, NEW c \in Nat, a <= c * b
  PROVE  a \div b \in 0..c
<1> DEFINE q == a \div b
<1>1. q \in Nat /\ q * b <= a
  OBVIOUS
<1>2. q <= c
  <2>1. SUFFICES ASSUME q >= c + 1 PROVE FALSE
    BY <1>1
  <2>2. q * b >= (c + 1) * b
    BY <1>1, <2>1
  <2>3. QED
    BY <1>1, <2>2
<1>3. QED
  BY <1>1, <1>2

\* The elapsed part of an interval, on a scale from 0 to c.
LEMMA ElapsedBounds ==
  ASSUME NEW a \in Nat, NEW b \in Nat, NEW t \in Nat, NEW c \in Nat, a <= t, t < b
  PROVE  ((t - a) * c) \div (b - a) \in 0..c
<1>1. /\ t - a \in Nat /\ b - a \in Nat \ {0}
      /\ t - a <= b - a
  OBVIOUS
<1>2. ASSUME NEW x \in Nat, NEW y \in Nat, x <= y
      PROVE  x * c \in Nat /\ x * c <= c * y
  BY <1>2
<1>3. /\ (t - a) * c \in Nat
      /\ (t - a) * c <= c * (b - a)
  BY <1>1, <1>2
<1>4. QED
  BY <1>1, <1>3, QuotientBounds

\* cancel_event computes a ratio in basis points, whatever the terms.
LEMMA RatioIsBps ==
  ASSUME NEW terms \in Terms, now \in Nat
  PROVE  CancellationRatio(terms) \in Bps
<1> DEFINE start == terms.event_start_ledger
           end == terms.event_end_ledger
           whole == 10000
<1>1. start \in Nat /\ end \in Nat
  BY DEF Terms
<1>2. whole = 10000
  OBVIOUS
<1>3. whole \in Nat
  OBVIOUS
<1> HIDE DEF whole
<1>4. Bps = 0..whole
  BY <1>2 DEF Bps
<1>5. CancellationRatio(terms) =
        IF now < start THEN 0
        ELSE IF now >= end THEN whole
        ELSE ((now - start) * whole) \div (end - start)
  BY <1>2 DEF CancellationRatio
<1> HIDE DEF start, end
<1>6. ASSUME ~(now < start), ~(now >= end)
      PROVE  ((now - start) * whole) \div (end - start) \in 0..whole
  <2>1. start <= now /\ now < end
    BY <1>1, <1>6
  <2>2. QED
    BY <1>1, <1>3, <2>1, ElapsedBounds
<1>7. 0 \in 0..whole /\ whole \in 0..whole
  BY <1>3
<1>8. QED
  BY <1>4, <1>5, <1>6, <1>7

-----------------------------------------------------------------------------
(* Types of the records.                                                   *)

LEMMA InitTypes == Init => RecordsTypeOK
<1> SUFFICES ASSUME Init PROVE RecordsTypeOK
  OBVIOUS
<1>1. AdminTypeOK
  BY ConstantsAssumption DEF Init, AdminTypeOK
<1>2. EventTypeOK
  BY DEF Init, EventTypeOK
<1>3. SaleTypeOK
  BY DEF Init, SaleTypeOK
<1>4. TicketTypeOK
  BY DEF Init, TicketTypeOK
<1>5. DisputeTypeOK
  BY DEF Init, DisputeTypeOK
<1>6. SplitTypeOK
  BY DEF Init, SplitTypeOK
<1>7. QED
  BY <1>1, <1>2, <1>3, <1>4, <1>5, <1>6 DEF RecordsTypeOK

\* A step keeps the types of what it leaves alone.
LEMMA TypesOfUnchanged ==
  /\ AdminTypeOK /\ UNCHANGED <<now, adminVars>> => AdminTypeOK'
  /\ EventTypeOK /\ UNCHANGED eventVars => EventTypeOK'
  /\ SaleTypeOK /\ UNCHANGED <<payments, saleVars>> => SaleTypeOK'
  /\ TicketTypeOK /\ UNCHANGED ticketVars => TicketTypeOK'
  /\ DisputeTypeOK /\ UNCHANGED disputeVars => DisputeTypeOK'
  /\ SplitTypeOK /\ UNCHANGED <<splits, splitFlagged>> => SplitTypeOK'
BY DEF adminVars, eventVars, saleVars, ticketVars, disputeVars, AdminTypeOK,
       EventTypeOK, SaleTypeOK, TicketTypeOK, DisputeTypeOK, SplitTypeOK

\* The handlers of EventAdministration keep the records of the other parts.
LEMMA AdministrationKeepsTypes ==
  ASSUME RecordsTypeOK, AdministrationFrame
  PROVE  /\ SaleTypeOK' /\ TicketTypeOK' /\ DisputeTypeOK'
         /\ now' \in Nat
         /\ UNCHANGED splits => SplitTypeOK'
         /\ UNCHANGED adminVars => AdminTypeOK'
         /\ UNCHANGED eventVars => EventTypeOK'
<1>1. UNCHANGED <<now, payments, saleVars, ticketVars, disputeVars, splitFlagged>>
  BY DEF AdministrationFrame
<1>2. QED
  BY <1>1, TypesOfUnchanged DEF RecordsTypeOK, AdminTypeOK

\* The terms the event contract sends become a well-formed configuration.
LEMMA StoreConfigTypes ==
  ASSUME EventTypeOK, NEW e \in Events, NEW terms \in SyncedTerms, StoreConfig(e, terms)
  PROVE  config' \in [Events -> EventConfig \cup {None}]
<1>1. terms \in Terms
  BY ConstantsAssumption
<1>2. CASE config[e] = None
  <2> DEFINE fresh ==
        [terms |-> terms, sold_count |-> 0,
         admin_delay_extension_ledgers |-> 0, cancel_ledger |-> None,
         withdrawable_ratio_bps |-> None, organizer_withdrawn |-> FALSE]
  <2>1. config' = [config EXCEPT ![e] = fresh]
    BY <1>2 DEF StoreConfig
  <2>2. fresh \in EventConfig
    BY <1>1 DEF EventConfig
  <2> HIDE DEF fresh
  <2>3. QED
    BY <2>1, <2>2 DEF EventTypeOK
<1>3. CASE config[e] # None
  <2>1. config' = [config EXCEPT ![e].terms = terms]
    BY <1>3 DEF StoreConfig
  <2>2. config[e] \in EventConfig
    BY <1>3 DEF EventTypeOK
  <2>3. QED
    BY <1>1, <2>1, <2>2 DEF EventTypeOK, EventConfig
<1>4. QED
  BY <1>2, <1>3

\* The event contract's calls write well-formed configurations and splits.
LEMMA EventContractTypes ==
  ASSUME RecordsTypeOK, NEW e \in Events, EventContractCall(e)
  PROVE  RecordsTypeOK'
<1> USE AdministrationKeepsTypes
<1>1. ASSUME NEW terms \in SyncedTerms, SyncEventConfig(e, terms)
      PROVE  RecordsTypeOK'
  <2>1. config' \in [Events -> EventConfig \cup {None}]
    BY <1>1, StoreConfigTypes DEF SyncEventConfig, RecordsTypeOK
  <2>2. EventTypeOK'
    BY <1>1, <2>1 DEF SyncEventConfig, RecordsTypeOK, EventTypeOK
  <2>3. QED
    BY <1>1, <2>2 DEF SyncEventConfig, RecordsTypeOK
<1>2. ASSUME NEW rules \in PrivacyConfigs, SyncEventPrivacy(e, rules)
      PROVE  RecordsTypeOK'
  <2>1. EventTypeOK'
    BY <1>2, ConstantsAssumption DEF SyncEventPrivacy, RecordsTypeOK, EventTypeOK
  <2>2. QED
    BY <1>2, <2>1 DEF SyncEventPrivacy, RecordsTypeOK
<1>3. ASSUME NEW terms \in SyncedTerms, NEW rows \in SplitTables,
             SyncNewEvent(e, terms, rows)
      PROVE  RecordsTypeOK'
  <2>1. config' \in [Events -> EventConfig \cup {None}]
    BY <1>3, StoreConfigTypes DEF SyncNewEvent, RecordsTypeOK
  <2>2. EventTypeOK'
    BY <1>3, <2>1 DEF SyncNewEvent, RecordsTypeOK, EventTypeOK
  <2>3. SplitTypeOK'
    <3>1. UNCHANGED splits \/ splits' = [splits EXCEPT ![e] = rows]
      BY <1>3 DEF SyncNewEvent, StoreSplits
    <3>2. UNCHANGED splitFlagged
      BY <1>3 DEF SyncNewEvent, AdministrationFrame
    <3>3. QED
      BY <3>1, <3>2, ConstantsAssumption DEF RecordsTypeOK, SplitTypeOK
  <2>4. QED
    BY <1>3, <2>2, <2>3 DEF SyncNewEvent, RecordsTypeOK
<1>4. CASE CancelEvent(e)
  <2>1. config[e] \in EventConfig /\ config[e].terms \in Terms
    BY <1>4 DEF CancelEvent, RecordsTypeOK, EventTypeOK, EventConfig
  <2>2. CancellationRatio(config[e].terms) \in Bps /\ now \in Nat
    BY <2>1, RatioIsBps DEF RecordsTypeOK, AdminTypeOK
  <2>3. EventTypeOK'
    BY <1>4, <2>1, <2>2
       DEF CancelEvent, RecordsTypeOK, EventTypeOK, EventConfig, Statuses
  <2>4. QED
    BY <1>4, <2>3 DEF CancelEvent, RecordsTypeOK
<1>5. ASSUME NEW d \in Deadlines, PostponeEvent(e, d) PROVE RecordsTypeOK'
  <2>1. EventTypeOK'
    BY <1>5, ConstantsAssumption
       DEF PostponeEvent, RecordsTypeOK, EventTypeOK, Statuses
  <2>2. QED
    BY <1>5, <2>1 DEF PostponeEvent, RecordsTypeOK
<1>6. ASSUME NEW terms \in SyncedTerms, SyncAndResume(e, terms) PROVE RecordsTypeOK'
  <2>1. config' \in [Events -> EventConfig \cup {None}]
    BY <1>6, StoreConfigTypes DEF SyncAndResume, RecordsTypeOK
  <2>2. EventTypeOK'
    BY <1>6, <2>1
       DEF SyncAndResume, Reactivate, RecordsTypeOK, EventTypeOK, Statuses
  <2>3. QED
    BY <1>6, <2>2 DEF SyncAndResume, RecordsTypeOK
<1>7. QED
  BY <1>1, <1>2, <1>3, <1>4, <1>5, <1>6 DEF EventContractCall

\* The counters of a configuration, and what one field's change leaves.
LEMMA ConfigCounters ==
  ASSUME EventTypeOK, NEW e \in Events, config[e] # None
  PROVE  /\ config[e] \in EventConfig
         /\ config[e].sold_count \in Nat
         /\ config[e].admin_delay_extension_ledgers \in Nat
<1>1. config[e] \in EventConfig
  BY DEF EventTypeOK
<1>2. QED
  BY <1>1 DEF EventConfig

LEMMA ConfigTypes ==
  ASSUME EventTypeOK, NEW e \in Events, config[e] # None, NEW n \in Nat
  PROVE  /\ [config EXCEPT ![e].sold_count = n]
              \in [Events -> EventConfig \cup {None}]
         /\ [config EXCEPT ![e].admin_delay_extension_ledgers = n]
              \in [Events -> EventConfig \cup {None}]
         /\ [config EXCEPT ![e].organizer_withdrawn = TRUE]
              \in [Events -> EventConfig \cup {None}]
<1>1. config[e] \in EventConfig
  BY ConfigCounters
<1>2. /\ [config[e] EXCEPT !.sold_count = n] \in EventConfig
      /\ [config[e] EXCEPT !.admin_delay_extension_ledgers = n] \in EventConfig
      /\ [config[e] EXCEPT !.organizer_withdrawn = TRUE] \in EventConfig
  BY <1>1 DEF EventConfig
<1>3. QED
  BY <1>1, <1>2 DEF EventTypeOK

\* The admin's calls about events, fee, pause and tokens.
LEMMA AdministrationTypes ==
  ASSUME RecordsTypeOK
  PROVE  /\ \A e \in Events, s \in AdminStatuses :
              SetEventStatus(e, s) => RecordsTypeOK'
         /\ \A e \in Events, u \in Users, end \in EndTimes :
              SetEventEndTime(e, u, end) => RecordsTypeOK'
         /\ \A e \in Events, d \in DelayExtensions :
              ExtendWithdrawalDelay(e, d) => RecordsTypeOK'
         /\ \A bps \in FeeRates : SetPlatformFee(bps) => RecordsTypeOK'
         /\ \A p \in PauseSwitch : SetPaused(p) => RecordsTypeOK'
         /\ \A t \in Tokens : AddSupportedToken(t) => RecordsTypeOK'
<1> USE AdministrationKeepsTypes, ConstantsAssumption
<1>1. ASSUME NEW e \in Events, NEW s \in AdminStatuses, SetEventStatus(e, s)
      PROVE  RecordsTypeOK'
  <2>1. EventTypeOK'
    BY <1>1 DEF SetEventStatus, RecordsTypeOK, EventTypeOK
  <2>2. QED
    BY <1>1, <2>1 DEF SetEventStatus, RecordsTypeOK
<1>2. ASSUME NEW e \in Events, NEW u \in Users, NEW end \in EndTimes,
             SetEventEndTime(e, u, end)
      PROVE  RecordsTypeOK'
  <2>1. [organizer |-> u, event_end_time |-> end, auto_released |-> FALSE]
          \in EscrowMetadata
    BY DEF EscrowMetadata
  <2>2. EventTypeOK'
    BY <1>2, <2>1 DEF SetEventEndTime, RecordsTypeOK, EventTypeOK
  <2>3. QED
    BY <1>2, <2>2 DEF SetEventEndTime, RecordsTypeOK
<1>3. ASSUME NEW e \in Events, NEW d \in DelayExtensions, ExtendWithdrawalDelay(e, d)
      PROVE  RecordsTypeOK'
  <2> DEFINE n == config[e].admin_delay_extension_ledgers + d
  <2>1. /\ config[e] # None
        /\ config' = [config EXCEPT ![e].admin_delay_extension_ledgers = n]
    BY <1>3 DEF ExtendWithdrawalDelay
  <2>2. n \in Nat
    <3>1. config[e].admin_delay_extension_ledgers \in Nat /\ d \in Nat
      BY <2>1, ConfigCounters DEF RecordsTypeOK
    <3>2. QED
      BY <3>1
  <2> HIDE DEF n
  <2>3. config' \in [Events -> EventConfig \cup {None}]
    BY <2>1, <2>2, ConfigTypes DEF RecordsTypeOK
  <2>4. EventTypeOK'
    BY <1>3, <2>3 DEF ExtendWithdrawalDelay, RecordsTypeOK, EventTypeOK
  <2>5. QED
    BY <1>3, <2>4 DEF ExtendWithdrawalDelay, RecordsTypeOK
<1>4. ASSUME NEW bps \in FeeRates, SetPlatformFee(bps) PROVE RecordsTypeOK'
  BY <1>4 DEF SetPlatformFee, RecordsTypeOK, AdminTypeOK
<1>5. ASSUME NEW p \in PauseSwitch, SetPaused(p) PROVE RecordsTypeOK'
  BY <1>5 DEF SetPaused, RecordsTypeOK, AdminTypeOK
<1>6. ASSUME NEW t \in Tokens, AddSupportedToken(t) PROVE RecordsTypeOK'
  BY <1>6 DEF AddSupportedToken, RecordsTypeOK, AdminTypeOK
<1>7. QED
  BY <1>1, <1>2, <1>3, <1>4, <1>5, <1>6

\* A request is made of the values its fields may have.
LEMMA RequestTypes ==
  ASSUME NEW p \in PaymentParams
  PROVE  /\ p.payer \in Users /\ p.event \in Events /\ p.amount \in Nat \ {0}
         /\ p.token \in Tokens /\ p.nonce \in Nonces
         /\ p.level \in {"Standard", "Private", "Anonymous"}
         /\ p.nullifier \in Nullifiers \cup {None}
         /\ p.commitment \in EmailCommitments \cup {None}
BY ConstantsAssumption DEF PaymentParams

\* What a purchase writes.
LEMMA PurchaseTypes ==
  ASSUME RecordsTypeOK, NEW p \in PaymentParams, CreatePayment(p)
  PROVE  RecordsTypeOK'
<1> DEFINE payer == IF p.level = "Standard" THEN p.payer ELSE None
           record == [event |-> p.event, payer |-> payer, amount |-> p.amount,
                      refunded_amount |-> 0, token |-> p.token, status |-> "Held",
                      level |-> p.level, nullifier_commitment |-> p.nullifier,
                      zk_email_commitment |-> p.commitment]
<1>1. /\ p.payer \in Users /\ p.event \in Events /\ p.amount \in Nat \ {0}
      /\ p.token \in Tokens /\ p.nonce \in Nonces
      /\ p.level \in {"Standard", "Private", "Anonymous"}
      /\ p.nullifier \in Nullifiers \cup {None}
      /\ p.commitment \in EmailCommitments \cup {None}
  BY RequestTypes
<1>2. record \in PaymentRecord /\ payer \in Users \cup {None}
  BY <1>1 DEF PaymentRecord
<1>3. PICK i \in NextId :
        /\ payments' = [payments EXCEPT ![i] = record]
        /\ owner' = [owner EXCEPT ![i] = payer]
        /\ ownerTickets' = IF payer = None THEN ownerTickets
                           ELSE AddOwnerTicket(ownerTickets, payer, i)
  BY Zenon DEF CreatePayment
<1>4. i \in PaymentIds
  BY DEF NextId
<1> HIDE DEF record, payer
<1>5. payments' \in [PaymentIds -> PaymentRecord \cup {None}]
  BY <1>2, <1>3, <1>4 DEF RecordsTypeOK, SaleTypeOK
<1>6. NonceKey(p) \in NonceKeys
  <2>1. CASE p.level = "Standard"
    BY <1>1, <2>1 DEF NonceKey, NonceKeys
  <2>2. CASE p.level = "Private"
    BY <1>1, <2>2 DEF NonceKey, NonceKeys
  <2>3. CASE p.level = "Anonymous"
    <3>1. p.nullifier \in Nullifiers
      BY <1>1, <2>3 DEF CreatePayment
    <3>2. QED
      BY <1>1, <2>3, <3>1 DEF NonceKey, NonceKeys
  <2>4. QED
    BY <1>1, <2>1, <2>2, <2>3
<1>7. usedNonces' \in SUBSET NonceKeys /\ spentNullifiers' \in SUBSET Nullifiers
  BY <1>1, <1>6 DEF CreatePayment, RecordsTypeOK, SaleTypeOK
<1>8. userTickets' \in [Events -> [Users -> [{"Standard", "Private"} -> Nat]]]
  BY <1>1 DEF CreatePayment, RecordsTypeOK, SaleTypeOK
<1>9. TicketTypeOK'
  <2>1. owner' \in [PaymentIds -> Users \cup {None}]
    BY <1>2, <1>3, <1>4 DEF RecordsTypeOK, TicketTypeOK
  <2>2. ownerTickets' \in [Users -> Seq(PaymentIds)]
    BY <1>2, <1>3, <1>4 DEF RecordsTypeOK, TicketTypeOK, AddOwnerTicket
  <2>3. QED
    BY <2>1, <2>2 DEF CreatePayment, RecordsTypeOK, TicketTypeOK
<1>10. config' \in [Events -> EventConfig \cup {None}]
  <2>1. CASE config[p.event] = None
    BY <2>1 DEF CreatePayment, RecordsTypeOK, EventTypeOK
  <2>2. CASE config[p.event] # None
    <3> DEFINE n == config[p.event].sold_count + 1
    <3>1. config' = [config EXCEPT ![p.event].sold_count = n]
      BY <2>2 DEF CreatePayment
    <3>2. n \in Nat
      <4>1. config[p.event].sold_count \in Nat
        BY <1>1, <2>2, ConfigCounters DEF RecordsTypeOK
      <4>2. QED
        BY <4>1
    <3> HIDE DEF n
    <3>3. QED
      BY <1>1, <2>2, <3>1, <3>2, ConfigTypes DEF RecordsTypeOK
  <2>3. QED
    BY <2>1, <2>2
<1>11. QED
  BY <1>5, <1>7, <1>8, <1>9, <1>10, TypesOfUnchanged
     DEF CreatePayment, RecordsTypeOK, AdminTypeOK, EventTypeOK, SaleTypeOK,
         DisputeTypeOK, SplitTypeOK, adminVars, disputeVars, splitVars

-----------------------------------------------------------------------------
(* Records of payments, tickets and splits.                                *)

\* The fields of a payment, and what one field's change leaves.
LEMMA PaymentFields ==
  ASSUME SaleTypeOK, NEW i \in PaymentIds, payments[i] # None
  PROVE  /\ payments[i] \in PaymentRecord
         /\ payments[i].event \in Events /\ payments[i].token \in Tokens
         /\ payments[i].amount \in Nat /\ payments[i].amount # 0
         /\ payments[i].refunded_amount \in Int
<1>1. payments[i] \in PaymentRecord
  BY DEF SaleTypeOK
<1>2. QED
  BY <1>1 DEF PaymentRecord

LEMMA PaymentTypes ==
  ASSUME SaleTypeOK, NEW i \in PaymentIds, payments[i] # None
  PROVE  /\ \A s \in {"Held", "Released", "Refunded", "Disputed"} :
              [payments EXCEPT ![i].status = s]
                \in [PaymentIds -> PaymentRecord \cup {None}]
         /\ \A c \in EmailCommitments :
              [payments EXCEPT ![i].zk_email_commitment = c]
                \in [PaymentIds -> PaymentRecord \cup {None}]
<1>1. payments[i] \in PaymentRecord
  BY PaymentFields
<1>2. \A s \in {"Held", "Released", "Refunded", "Disputed"} :
        [payments[i] EXCEPT !.status = s] \in PaymentRecord
  BY <1>1 DEF PaymentRecord
<1>3. \A c \in EmailCommitments :
        [payments[i] EXCEPT !.zk_email_commitment = c] \in PaymentRecord
  BY <1>1 DEF PaymentRecord
<1>4. QED
  BY <1>1, <1>2, <1>3 DEF SaleTypeOK

LEMMA RefundedTypes ==
  ASSUME SaleTypeOK, NEW i \in PaymentIds, payments[i] # None, NEW amount \in Int,
         NEW s \in {"Held", "Refunded"}, Refunded(i, amount, s)
  PROVE  payments' \in [PaymentIds -> PaymentRecord \cup {None}]
<1> DEFINE total == payments[i].refunded_amount + amount
           record == [payments[i] EXCEPT !.refunded_amount = total, !.status = s]
<1>1. total \in Int /\ payments[i] \in PaymentRecord
  <2>1. payments[i].refunded_amount \in Int /\ payments[i] \in PaymentRecord
    BY PaymentFields
  <2>2. QED
    BY <2>1
<1>2. payments' = [payments EXCEPT ![i] = record]
  BY <1>1 DEF Refunded, SaleTypeOK, PaymentRecord
<1> HIDE DEF total
<1>3. record \in PaymentRecord
  BY <1>1 DEF PaymentRecord
<1> HIDE DEF record
<1>4. QED
  BY <1>2, <1>3 DEF SaleTypeOK

\* A refund of an integer amount keeps every type.
LEMMA RefundStepTypes ==
  ASSUME RecordsTypeOK, NEW i \in PaymentIds, payments[i] # None, NEW amount \in Int,
         NEW s \in {"Held", "Refunded"}, Refunded(i, amount, s), RefundFrame
  PROVE  RecordsTypeOK'
<1>1. payments' \in [PaymentIds -> PaymentRecord \cup {None}]
  BY RefundedTypes DEF RecordsTypeOK
<1>2. SaleTypeOK'
  BY <1>1 DEF RefundFrame, saleVars, RecordsTypeOK, SaleTypeOK
<1>3. QED
  BY <1>2, TypesOfUnchanged DEF RefundFrame, RecordsTypeOK, splitVars

\* What is refundable of a payment is an integer, cancelled or not.
LEMMA RefundableTypes ==
  ASSUME RecordsTypeOK, NEW i \in PaymentIds, payments[i] # None
  PROVE  /\ RefundRatio(payments[i].event) \in Bps
         /\ CancelledRemainder(i) \in Int
         /\ CancelledRemainder(i) + payments[i].refunded_amount <= payments[i].amount
<1>1. /\ payments[i].event \in Events /\ payments[i].amount \in Nat
      /\ payments[i].refunded_amount \in Int
  BY PaymentFields DEF RecordsTypeOK
<1>2. RefundRatio(payments[i].event) \in Bps
  <2> DEFINE e == payments[i].event
  <2>1. config[e] # None => config[e].withdrawable_ratio_bps \in Bps \cup {None}
    BY <1>1, ConfigCounters DEF RecordsTypeOK, EventConfig
  <2>2. ASSUME NEW r \in Bps PROVE 10000 - r \in Bps
    BY DEF Bps
  <2>3. 10000 \in Bps
    BY DEF Bps
  <2>4. QED
    BY <2>1, <2>2, <2>3 DEF RefundRatio
<1>3. /\ Share(payments[i].amount, RefundRatio(payments[i].event)) \in Nat
      /\ Share(payments[i].amount, RefundRatio(payments[i].event))
           <= payments[i].amount
  BY <1>1, <1>2, ShareBounds
<1>4. QED
  BY <1>1, <1>2, <1>3 DEF CancelledRemainder

\* Every amount a refund may be of is an integer.
LEMMA RefundAmountTypes ==
  ASSUME RecordsTypeOK, NEW i \in PaymentIds, payments[i] # None
  PROVE  /\ payments[i].amount - payments[i].refunded_amount \in Int
         /\ \A asked \in RefundAmounts, cancelled \in BOOLEAN :
              (IF asked = None
               THEN IF cancelled THEN CancelledRemainder(i)
                    ELSE payments[i].amount - payments[i].refunded_amount
               ELSE asked) \in Int
<1>1. /\ payments[i].amount \in Int /\ payments[i].refunded_amount \in Int
      /\ CancelledRemainder(i) \in Int
  BY PaymentFields, RefundableTypes DEF RecordsTypeOK
<1>2. payments[i].amount - payments[i].refunded_amount \in Int
  BY <1>1
<1>3. \A asked \in RefundAmounts : asked = None \/ asked \in Int
  BY ConstantsAssumption
<1>4. QED
  BY <1>1, <1>2, <1>3

LEMMA RefundTypes ==
  ASSUME RecordsTypeOK, NEW i \in PaymentIds
  PROVE  /\ \A asked \in RefundAmounts : AdminRefund(i, asked) => RecordsTypeOK'
         /\ ClaimRefund(i) => RecordsTypeOK'
         /\ RequestPostponementRefund(i) => RecordsTypeOK'
<1>1. ASSUME NEW asked \in RefundAmounts, AdminRefund(i, asked) PROVE RecordsTypeOK'
  <2> DEFINE max == IF status[payments[i].event] = "Cancelled" THEN CancelledRemainder(i)
                    ELSE payments[i].amount - payments[i].refunded_amount
             amount == IF asked = None THEN max ELSE asked
             s == IF payments[i].refunded_amount + amount = payments[i].amount
                  THEN "Refunded" ELSE "Held"
  <2>1. payments[i] # None /\ Refunded(i, amount, s) /\ RefundFrame
    BY <1>1 DEF AdminRefund, HasStatus
  <2>2. amount \in Int
    BY <2>1, RefundAmountTypes
  <2>3. s \in {"Held", "Refunded"}
    OBVIOUS
  <2> HIDE DEF amount, s
  <2>4. QED
    BY <2>1, <2>2, <2>3, RefundStepTypes
<1>2. CASE ClaimRefund(i)
  <2>1. payments[i] # None /\ Refunded(i, CancelledRemainder(i), "Refunded") /\ RefundFrame
    BY <1>2 DEF ClaimRefund, HasStatus
  <2>2. QED
    BY <2>1, RefundableTypes, RefundStepTypes
<1>3. CASE RequestPostponementRefund(i)
  <2> DEFINE amount == payments[i].amount - payments[i].refunded_amount
  <2>1. payments[i] # None /\ Refunded(i, amount, "Refunded") /\ RefundFrame
    BY <1>3 DEF RequestPostponementRefund, HasStatus
  <2>2. amount \in Int
    BY <2>1, RefundAmountTypes
  <2> HIDE DEF amount
  <2>3. QED
    BY <2>1, <2>2, RefundStepTypes
<1>4. QED
  BY <1>1, <1>2, <1>3

LEMMA BindTypes ==
  ASSUME RecordsTypeOK, NEW i \in PaymentIds, NEW c \in EmailCommitments,
         BindEmailCommitment(i, c)
  PROVE  RecordsTypeOK'
<1>1. payments' \in [PaymentIds -> PaymentRecord \cup {None}]
  BY PaymentTypes DEF BindEmailCommitment, RecordsTypeOK
<1>2. SaleTypeOK'
  BY <1>1 DEF BindEmailCommitment, saleVars, RecordsTypeOK, SaleTypeOK
<1>3. QED
  BY <1>2, TypesOfUnchanged DEF BindEmailCommitment, RecordsTypeOK, splitVars

\* Removing a ticket from an owner's list leaves a list of tickets.
LEMMA OwnerIndexTypes ==
  ASSUME NEW index \in [Users -> Seq(PaymentIds)], NEW u \in Users,
         NEW i \in PaymentIds
  PROVE  /\ AddOwnerTicket(index, u, i) \in [Users -> Seq(PaymentIds)]
         /\ RemoveOwnerTicket(index, u, i) \in [Users -> Seq(PaymentIds)]
<1>1. AddOwnerTicket(index, u, i) \in [Users -> Seq(PaymentIds)]
  BY DEF AddOwnerTicket
<1>2. RemoveOwnerTicket(index, u, i) \in [Users -> Seq(PaymentIds)]
  <2> DEFINE list == index[u]
             last == Len(list)
             at == {k \in 1..last : list[k] = i}
             rest == [k \in 1..(last - 1) |-> IF k \in at THEN list[last] ELSE list[k]]
  <2>1. list \in Seq(PaymentIds) /\ last \in Nat
    OBVIOUS
  <2>2. ASSUME at # {} PROVE rest \in Seq(PaymentIds)
    <3>1. last >= 1
      BY <2>1, <2>2
    <3>2. \A k \in 1..last : list[k] \in PaymentIds
      BY <2>1
    <3>3. rest \in [1..(last - 1) -> PaymentIds] /\ last - 1 \in Nat
      BY <2>1, <3>1, <3>2
    <3> HIDE DEF rest, last
    <3>4. QED
      BY <3>3, SeqDef
  <2>3. RemoveOwnerTicket(index, u, i) =
          IF at = {} THEN index ELSE [index EXCEPT ![u] = rest]
    BY DEF RemoveOwnerTicket
  <2> HIDE DEF at, rest
  <2>4. QED
    BY <2>2, <2>3
<1>3. QED
  BY <1>1, <1>2

LEMMA ResaleTypes ==
  ASSUME RecordsTypeOK, NEW i \in PaymentIds
  PROVE  /\ \A price \in ResalePrices : ListTicketForResale(i, price) => RecordsTypeOK'
         /\ DelistTicket(i) => RecordsTypeOK'
         /\ \A buyer \in Users : BuyResaleTicket(i, buyer) => RecordsTypeOK'
<1>1. ASSUME NEW price \in ResalePrices, ListTicketForResale(i, price)
      PROVE  RecordsTypeOK'
  <2>1. owner[i] \in Users /\ price \in Int
    BY <1>1, ConstantsAssumption DEF ListTicketForResale, RecordsTypeOK, TicketTypeOK
  <2>2. [price |-> price, seller |-> owner[i]] \in ResaleListing
    BY <2>1 DEF ResaleListing
  <2>3. TicketTypeOK'
    BY <1>1, <2>2 DEF ListTicketForResale, RecordsTypeOK, TicketTypeOK
  <2>4. QED
    BY <1>1, <2>3, TypesOfUnchanged DEF ListTicketForResale, RecordsTypeOK, splitVars
<1>2. ASSUME DelistTicket(i) PROVE RecordsTypeOK'
  <2>1. TicketTypeOK'
    BY <1>2 DEF DelistTicket, RecordsTypeOK, TicketTypeOK
  <2>2. QED
    BY <1>2, <2>1, TypesOfUnchanged DEF DelistTicket, RecordsTypeOK, splitVars
<1>3. ASSUME NEW buyer \in Users, BuyResaleTicket(i, buyer) PROVE RecordsTypeOK'
  <2>1. /\ resaleListing[i] # None
        /\ TransferTicket(i, resaleListing[i].seller, buyer)
    BY <1>3 DEF BuyResaleTicket
  <2>2. resaleListing[i].seller \in Users
    BY <2>1 DEF RecordsTypeOK, TicketTypeOK, ResaleListing
  <2>3. ownerTickets' \in [Users -> Seq(PaymentIds)]
    BY <2>1, <2>2, OwnerIndexTypes DEF TransferTicket, RecordsTypeOK, TicketTypeOK
  <2>4. TicketTypeOK'
    BY <2>1, <2>3 DEF TransferTicket, RecordsTypeOK, TicketTypeOK
  <2>5. UNCHANGED <<now, adminVars, eventVars, saleVars, payments, disputeVars, splitVars>>
    BY <1>3 DEF BuyResaleTicket
  <2>6. QED
    BY <2>4, <2>5, TypesOfUnchanged DEF RecordsTypeOK, splitVars
<1>4. QED
  BY <1>1, <1>2, <1>3

-----------------------------------------------------------------------------
(* Disputes and payouts.                                                   *)

LEMMA DisputeStepTypes ==
  ASSUME RecordsTypeOK, NEW i \in PaymentIds
  PROVE  /\ RaiseDispute(i) => RecordsTypeOK'
         /\ ApproveRefund(i) => RecordsTypeOK'
         /\ RejectDispute(i) => RecordsTypeOK'
<1>1. ASSUME RaiseDispute(i) PROVE RecordsTypeOK'
  <2>1. payments' \in [PaymentIds -> PaymentRecord \cup {None}]
    BY <1>1, PaymentTypes DEF RaiseDispute, HasStatus, RecordsTypeOK
  <2>2. SaleTypeOK'
    BY <1>1, <2>1 DEF RaiseDispute, saleVars, RecordsTypeOK, SaleTypeOK
  <2>3. DisputeTypeOK'
    BY <1>1 DEF RaiseDispute, RecordsTypeOK, AdminTypeOK, DisputeTypeOK
  <2>4. QED
    BY <1>1, <2>2, <2>3, TypesOfUnchanged DEF RaiseDispute, RecordsTypeOK, splitVars
<1>2. ASSUME ApproveRefund(i) PROVE RecordsTypeOK'
  <2> DEFINE amount == payments[i].amount - payments[i].refunded_amount
  <2>1. payments[i] # None /\ Refunded(i, amount, "Refunded") /\ CloseDispute(i)
    BY <1>2 DEF ApproveRefund, HasStatus
  <2>2. amount \in Int
    BY <2>1, RefundAmountTypes
  <2> HIDE DEF amount
  <2>3. payments' \in [PaymentIds -> PaymentRecord \cup {None}]
    BY <2>1, <2>2, RefundedTypes DEF RecordsTypeOK
  <2>4. SaleTypeOK'
    BY <1>2, <2>3 DEF ApproveRefund, saleVars, RecordsTypeOK, SaleTypeOK
  <2>5. DisputeTypeOK'
    BY <2>1 DEF CloseDispute, RecordsTypeOK, DisputeTypeOK
  <2>6. QED
    BY <1>2, <2>4, <2>5, TypesOfUnchanged DEF ApproveRefund, RecordsTypeOK, splitVars
<1>3. ASSUME RejectDispute(i) PROVE RecordsTypeOK'
  <2>1. payments' \in [PaymentIds -> PaymentRecord \cup {None}]
    BY <1>3, PaymentTypes DEF RejectDispute, HasStatus, RecordsTypeOK
  <2>2. SaleTypeOK'
    BY <1>3, <2>1 DEF RejectDispute, saleVars, RecordsTypeOK, SaleTypeOK
  <2>3. DisputeTypeOK'
    BY <1>3 DEF RejectDispute, CloseDispute, RecordsTypeOK, DisputeTypeOK
  <2>4. QED
    BY <1>3, <2>2, <2>3, TypesOfUnchanged DEF RejectDispute, RecordsTypeOK, splitVars
<1>4. QED
  BY <1>1, <1>2, <1>3

\* Releasing the disputes that timed out keeps the types of both stores.
LEMMA ReleaseTypes ==
  ASSUME RecordsTypeOK, NEW e \in Events, ReleaseTimedOut(e), UNCHANGED saleVars
  PROVE  SaleTypeOK' /\ DisputeTypeOK'
<1>1. payments' \in [PaymentIds -> PaymentRecord \cup {None}]
  <2>1. ASSUME NEW i \in PaymentIds, i \in Reinstated(e)
        PROVE  [payments[i] EXCEPT !.status = "Held"] \in PaymentRecord
    <3>1. payments[i] \in PaymentRecord
      BY <2>1, PaymentFields DEF Reinstated, HasStatus, RecordsTypeOK
    <3>2. QED
      BY <3>1 DEF PaymentRecord
  <2>2. QED
    BY <2>1 DEF ReleaseTimedOut, RecordsTypeOK, SaleTypeOK
<1>2. SaleTypeOK'
  BY <1>1 DEF saleVars, RecordsTypeOK, SaleTypeOK
<1>3. OpenDisputes(e) \subseteq eventDisputes[e]
  BY DEF OpenDisputes
<1>4. DisputeTypeOK'
  BY <1>3 DEF ReleaseTimedOut, RecordsTypeOK, DisputeTypeOK
<1>5. QED
  BY <1>2, <1>4

\* A payout that releases timed-out disputes, and changes no other record but
\* the latch of the event and its auto-release mark.
LEMMA PayoutStepTypes ==
  ASSUME RecordsTypeOK, NEW e \in Events, PayoutFrame, UNCHANGED <<splits, splitFlagged>>,
         ReleaseTimedOut(e) \/ UNCHANGED <<payments, disputeVars>>
  PROVE  /\ UNCHANGED <<config, escrowMeta>> => RecordsTypeOK'
         /\ Latch(e) /\ UNCHANGED escrowMeta => RecordsTypeOK'
         /\ (/\ escrowMeta[e] # None
             /\ UNCHANGED config
             /\ escrowMeta' = [escrowMeta EXCEPT ![e].auto_released = TRUE])
            => RecordsTypeOK'
<1>1. SaleTypeOK' /\ DisputeTypeOK'
  BY ReleaseTypes, TypesOfUnchanged DEF PayoutFrame, RecordsTypeOK
<1>2. AdminTypeOK' /\ TicketTypeOK' /\ SplitTypeOK'
  BY TypesOfUnchanged DEF PayoutFrame, RecordsTypeOK
<1>3. ASSUME config' \in [Events -> EventConfig \cup {None}],
             escrowMeta' \in [Events -> EscrowMetadata \cup {None}]
      PROVE  RecordsTypeOK'
  BY <1>1, <1>2, <1>3 DEF PayoutFrame, RecordsTypeOK, EventTypeOK
<1>4. ASSUME Latch(e) PROVE config' \in [Events -> EventConfig \cup {None}]
  <2>1. CASE config[e] = None
    BY <1>4, <2>1 DEF Latch, RecordsTypeOK, EventTypeOK
  <2>2. CASE config[e] # None
    <3>1. config' = [config EXCEPT ![e].organizer_withdrawn = TRUE]
      BY <1>4, <2>2 DEF Latch
    <3>2. 0 \in Nat
      OBVIOUS
    <3>3. QED
      BY <2>2, <3>1, <3>2, ConfigTypes DEF RecordsTypeOK
  <2>3. QED
    BY <2>1, <2>2
<1>5. ASSUME escrowMeta[e] # None,
             escrowMeta' = [escrowMeta EXCEPT ![e].auto_released = TRUE]
      PROVE  escrowMeta' \in [Events -> EscrowMetadata \cup {None}]
  <2>1. escrowMeta[e] \in EscrowMetadata
    BY <1>5 DEF RecordsTypeOK, EventTypeOK
  <2>2. [escrowMeta[e] EXCEPT !.auto_released = TRUE] \in EscrowMetadata
    BY <2>1 DEF EscrowMetadata
  <2>3. QED
    BY <1>5, <2>2 DEF RecordsTypeOK, EventTypeOK
<1>6. QED
  BY <1>3, <1>4, <1>5 DEF RecordsTypeOK, EventTypeOK

LEMMA PayoutTypes ==
  ASSUME RecordsTypeOK, NEW e \in Events
  PROVE  /\ Withdraw(e) => RecordsTypeOK'
         /\ WithdrawRevenue(e) => RecordsTypeOK'
         /\ \A t \in Tokens : WithdrawToken(e, t) => RecordsTypeOK'
         /\ WithdrawAllTokens(e) => RecordsTypeOK'
         /\ ReleaseIfExpired(e) => RecordsTypeOK'
         /\ WithdrawPlatformRevenue(e) => RecordsTypeOK'
         /\ ProcessDisputeTimeouts(e) => RecordsTypeOK'
<1>1. ASSUME Withdraw(e) PROVE RecordsTypeOK'
  BY <1>1, PayoutStepTypes DEF Withdraw, splitVars
<1>2. ASSUME WithdrawRevenue(e) PROVE RecordsTypeOK'
  BY <1>2, PayoutStepTypes DEF WithdrawRevenue, splitVars
<1>3. ASSUME NEW t \in Tokens, WithdrawToken(e, t) PROVE RecordsTypeOK'
  BY <1>3, PayoutStepTypes DEF WithdrawToken, splitVars
<1>4. ASSUME WithdrawAllTokens(e) PROVE RecordsTypeOK'
  BY <1>4, PayoutStepTypes DEF WithdrawAllTokens, splitVars
<1>5. ASSUME ReleaseIfExpired(e) PROVE RecordsTypeOK'
  BY <1>5, PayoutStepTypes DEF ReleaseIfExpired, splitVars
<1>6. ASSUME WithdrawPlatformRevenue(e) PROVE RecordsTypeOK'
  BY <1>6, PayoutStepTypes DEF WithdrawPlatformRevenue, splitVars
<1>7. ASSUME ProcessDisputeTimeouts(e) PROVE RecordsTypeOK'
  <2>1. SaleTypeOK' /\ DisputeTypeOK'
    BY <1>7, ReleaseTypes DEF ProcessDisputeTimeouts
  <2>2. QED
    BY <1>7, <2>1, TypesOfUnchanged DEF ProcessDisputeTimeouts, RecordsTypeOK, splitVars
<1>8. QED
  BY <1>1, <1>2, <1>3, <1>4, <1>5, <1>6, <1>7

\* Settling, if it has to be done, is a release of timed-out disputes.
LEMMA SettlementReleases ==
  ASSUME NEW e \in Events, EnsureSplitSettled(e)
  PROVE  ReleaseTimedOut(e) \/ UNCHANGED <<payments, disputeVars>>
BY Zenon DEF EnsureSplitSettled, SettleSplit

LEMMA SplitTypes ==
  ASSUME RecordsTypeOK, NEW e \in Events, NEW u \in Users
  PROVE  /\ WithdrawSplit(e, u) => RecordsTypeOK'
         /\ FlagCohost(e, u) => RecordsTypeOK'
         /\ ReleaseFlaggedShare(e, u) => RecordsTypeOK'
         /\ ReassignFlaggedShare(e, u) => RecordsTypeOK'
<1>1. ASSUME WithdrawSplit(e, u) PROVE RecordsTypeOK'
  BY <1>1, SettlementReleases, PayoutStepTypes DEF WithdrawSplit
<1>2. ASSUME FlagCohost(e, u) PROVE RecordsTypeOK'
  <2>1. SplitTypeOK'
    BY <1>2 DEF FlagCohost, RecordsTypeOK, SplitTypeOK
  <2>2. QED
    BY <1>2, <2>1, TypesOfUnchanged DEF FlagCohost, RecordsTypeOK
<1>3. ASSUME ReleaseFlaggedShare(e, u) PROVE RecordsTypeOK'
  <2>1. SplitTypeOK'
    BY <1>3 DEF ReleaseFlaggedShare, RecordsTypeOK, SplitTypeOK
  <2>2. QED
    BY <1>3, <2>1, TypesOfUnchanged DEF ReleaseFlaggedShare, RecordsTypeOK
<1>4. ASSUME ReassignFlaggedShare(e, u) PROVE RecordsTypeOK'
  <2>1. ReleaseTimedOut(e) \/ UNCHANGED <<payments, disputeVars>>
    BY <1>4, SettlementReleases DEF ReassignFlaggedShare
  <2>2. SaleTypeOK' /\ DisputeTypeOK'
    BY <1>4, <2>1, ReleaseTypes, TypesOfUnchanged
       DEF ReassignFlaggedShare, PayoutFrame, RecordsTypeOK
  <2>3. SplitTypeOK'
    BY <1>4 DEF ReassignFlaggedShare, RecordsTypeOK, SplitTypeOK
  <2>4. EventTypeOK' /\ AdminTypeOK' /\ TicketTypeOK'
    BY <1>4, TypesOfUnchanged
       DEF ReassignFlaggedShare, PayoutFrame, RecordsTypeOK, eventVars
  <2>5. QED
    BY <2>2, <2>3, <2>4 DEF RecordsTypeOK
<1>5. QED
  BY <1>1, <1>2, <1>3, <1>4

-----------------------------------------------------------------------------
(* Type correctness.                                                       *)

\* Whatever an entry point asks for is a PaymentParams record.
LEMMA EntryPoints ==
  ASSUME PayForTicket \/ PayForTicketWithCommitment \/ PayForTicketWithOptions
  PROVE  \E p \in PaymentParams : CreatePayment(p)
<1>1. ASSUME NEW u \in Users, NEW e \in Events, NEW a \in Amounts, NEW t \in Tokens,
             NEW n \in Nonces, NEW level \in Levels,
             NEW nullifier \in Nullifiers \cup {None},
             NEW c \in EmailCommitments \cup {None},
             NEW anonymous \in BOOLEAN, NEW verified \in BOOLEAN
      PROVE  [payer |-> u, event |-> e, amount |-> a, token |-> t, nonce |-> n,
              level |-> level, nullifier |-> nullifier, commitment |-> c,
              is_anonymous |-> anonymous, is_verified |-> verified] \in PaymentParams
  BY DEF PaymentParams
<1>2. CASE PayForTicket
  BY <1>1, <1>2, ZenonT(30) DEF PayForTicket
<1>3. CASE PayForTicketWithCommitment
  BY <1>1, <1>3 DEF PayForTicketWithCommitment
<1>4. CASE PayForTicketWithOptions
  BY <1>1, <1>4 DEF PayForTicketWithOptions
<1>5. QED
  BY <1>2, <1>3, <1>4

LEMMA NextTypes == RecordsTypeOK /\ [Next]_vars => RecordsTypeOK'
<1> SUFFICES ASSUME RecordsTypeOK, [Next]_vars PROVE RecordsTypeOK'
  OBVIOUS
<1>1. CASE Tick
  <2>1. AdminTypeOK'
    BY <1>1 DEF Tick, adminVars, RecordsTypeOK, AdminTypeOK
  <2>2. QED
    BY <1>1, <2>1, TypesOfUnchanged DEF Tick, RecordsTypeOK, splitVars
<1>2. ASSUME NEW e \in Events, EventContractCall(e) PROVE RecordsTypeOK'
  BY <1>2, EventContractTypes
<1>3. CASE AdminCall
  BY <1>3, AdministrationTypes, RefundTypes, DisputeStepTypes, PayoutTypes, SplitTypes,
     ConstantsAssumption
     DEF AdminCall
<1>4. CASE AttendeeCall
  BY <1>4, EntryPoints, PurchaseTypes, BindTypes, RefundTypes, DisputeStepTypes, ResaleTypes
     DEF AttendeeCall
<1>5. CASE PayoutCall
  BY <1>5, PayoutTypes, SplitTypes DEF PayoutCall
<1>6. CASE UNCHANGED vars
  BY <1>6, TypesOfUnchanged DEF vars, RecordsTypeOK, splitVars
<1>7. QED
  BY <1>1, <1>2, <1>3, <1>4, <1>5, <1>6 DEF Next

\* The stores of the payments contract hold, after any calls, what storage.rs
\* and types.rs declare: no configuration, payment, ticket, listing, dispute or
\* split is ever malformed, and a cancellation's ratio is a fraction of one.
THEOREM TypeCorrect == Spec => []RecordsTypeOK
<1>1. Init => RecordsTypeOK
  BY InitTypes
<1>2. RecordsTypeOK /\ [Next]_vars => RecordsTypeOK'
  BY NextTypes
<1>3. QED
  BY <1>1, <1>2, PTL DEF Spec

-----------------------------------------------------------------------------
(* The three stores of a dispute agree for ever.                           *)

\* DisputesConsistent is inductive once the types are known.
DisputeInv == RecordsTypeOK /\ DisputesConsistent

-----------------------------------------------------------------------------
(* The ways a handler changes the three stores.                            *)

LEMMA DisputesUntouched ==
  DisputesConsistent /\ UNCHANGED <<payments, disputeVars>> => DisputesConsistent'
BY DEF DisputesConsistent, HasStatus, disputeVars

\* One payment is written, and it is in dispute afterwards if it was before.
LEMMA PaymentWritten ==
  ASSUME DisputeInv, UNCHANGED disputeVars, NEW i \in PaymentIds, NEW record,
         record # None,
         payments' = [payments EXCEPT ![i] = record],
         HasStatus(i, "Disputed") <=> record.status = "Disputed",
         payments[i] # None => record.event = payments[i].event
  PROVE  DisputesConsistent'
<1>1. payments' \in [PaymentIds -> {payments[j] : j \in PaymentIds} \cup {record}]
  BY DEF DisputeInv, RecordsTypeOK, SaleTypeOK
<1>2. /\ payments'[i] = record
      /\ \A j \in PaymentIds : j # i => payments'[j] = payments[j]
  BY DEF DisputeInv, RecordsTypeOK, SaleTypeOK
<1>3. \A j \in PaymentIds : dispute'[j] # None <=> HasStatus(j, "Disputed")'
  BY <1>2 DEF DisputeInv, DisputesConsistent, HasStatus, disputeVars
<1>4. \A j \in PaymentIds : dispute[j] # None => payments'[j].event = payments[j].event
  BY <1>2 DEF DisputeInv, DisputesConsistent, HasStatus
<1>5. QED
  BY <1>3, <1>4 DEF DisputeInv, DisputesConsistent, disputeVars

\* One dispute is closed and its payment leaves the Disputed status.
LEMMA DisputeClosed ==
  ASSUME DisputeInv, NEW i \in PaymentIds, NEW record, CloseDispute(i),
         HasStatus(i, "Disputed"), record # None, record.status # "Disputed",
         payments' = [payments EXCEPT ![i] = record]
  PROVE  DisputesConsistent'
<1>1. /\ payments'[i] = record
      /\ \A j \in PaymentIds : j # i => payments'[j] = payments[j]
  BY DEF DisputeInv, RecordsTypeOK, SaleTypeOK
<1>2. /\ dispute'[i] = None
      /\ \A j \in PaymentIds : j # i => dispute'[j] = dispute[j]
  BY DEF CloseDispute, DisputeInv, RecordsTypeOK, DisputeTypeOK
<1>3. \A j \in PaymentIds : dispute'[j] # None <=> HasStatus(j, "Disputed")'
  BY <1>1, <1>2 DEF DisputeInv, DisputesConsistent, HasStatus
<1>4. ASSUME NEW e \in Events
      PROVE  eventDisputes'[e] = {j \in PaymentIds :
                                    dispute'[j] # None /\ payments'[j].event = e}
  <2>1. eventDisputes[e] = {j \in PaymentIds : dispute[j] # None /\ payments[j].event = e}
    BY DEF DisputeInv, DisputesConsistent
  <2>2. eventDisputes'[e] =
          IF e = payments[i].event THEN eventDisputes[e] \ {i} ELSE eventDisputes[e]
    BY DEF CloseDispute, DisputeInv, RecordsTypeOK, DisputeTypeOK
  <2>3. QED
    BY <1>1, <1>2, <2>1, <2>2
<1>5. QED
  BY <1>3, <1>4 DEF DisputesConsistent

\* One dispute is raised on a payment that is Held.
LEMMA DisputeRaised ==
  ASSUME DisputeInv, NEW i \in PaymentIds, RaiseDispute(i)
  PROVE  DisputesConsistent'
<1>1. /\ payments'[i] = [payments[i] EXCEPT !.status = "Disputed"]
      /\ \A j \in PaymentIds : j # i => payments'[j] = payments[j]
  BY DEF RaiseDispute, DisputeInv, RecordsTypeOK, SaleTypeOK
<1>2. /\ dispute'[i] = now
      /\ \A j \in PaymentIds : j # i => dispute'[j] = dispute[j]
  BY DEF RaiseDispute, DisputeInv, RecordsTypeOK, DisputeTypeOK
<1>3. now # None
  BY ConstantsAssumption DEF DisputeInv, RecordsTypeOK, AdminTypeOK
<1>4. payments[i] # None /\ payments[i] \in PaymentRecord
  BY PaymentFields DEF RaiseDispute, HasStatus, DisputeInv, RecordsTypeOK
<1>5. /\ payments'[i] \in PaymentRecord /\ payments'[i].status = "Disputed"
      /\ payments'[i].event = payments[i].event
  BY <1>1, <1>4 DEF PaymentRecord
<1>6. payments'[i] # None
  BY <1>5, NoneAssumption
<1>7. \A j \in PaymentIds : dispute'[j] # None <=> HasStatus(j, "Disputed")'
  BY <1>1, <1>2, <1>3, <1>5, <1>6 DEF DisputeInv, DisputesConsistent, HasStatus
<1>8. ASSUME NEW e \in Events
      PROVE  eventDisputes'[e] = {j \in PaymentIds :
                                    dispute'[j] # None /\ payments'[j].event = e}
  <2>1. eventDisputes[e] = {j \in PaymentIds : dispute[j] # None /\ payments[j].event = e}
    BY DEF DisputeInv, DisputesConsistent
  <2>2. eventDisputes'[e] =
          IF e = payments[i].event THEN eventDisputes[e] \cup {i} ELSE eventDisputes[e]
    BY DEF RaiseDispute, DisputeInv, RecordsTypeOK, DisputeTypeOK
  <2>3. dispute[i] = None
    BY DEF RaiseDispute
  <2>4. QED
    BY <1>1, <1>2, <1>3, <1>5, <2>1, <2>2, <2>3, ZenonT(30)
<1>9. QED
  BY <1>7, <1>8 DEF DisputesConsistent

\* The disputes of an event that timed out are released together.
LEMMA DisputesReleased ==
  ASSUME DisputeInv, NEW e \in Events, ReleaseTimedOut(e)
  PROVE  DisputesConsistent'
<1>1. \A i \in TimedOut(e) : i \in PaymentIds /\ HasStatus(i, "Disputed")
                             /\ dispute[i] # None /\ payments[i].event = e
  BY DEF TimedOut, DisputeInv, DisputesConsistent
<1>2. Reinstated(e) = TimedOut(e)
  BY <1>1 DEF Reinstated
<1>3. \A i \in PaymentIds :
        /\ i \in TimedOut(e) => payments'[i] = [payments[i] EXCEPT !.status = "Held"]
        /\ i \notin TimedOut(e) => payments'[i] = payments[i]
        /\ dispute'[i] = IF i \in TimedOut(e) THEN None ELSE dispute[i]
  BY <1>2 DEF ReleaseTimedOut
<1>4. \A i \in TimedOut(e) : payments'[i].status = "Held"
  <2>1. \A i \in TimedOut(e) : payments[i] \in PaymentRecord
    BY <1>1, PaymentFields DEF HasStatus, DisputeInv, RecordsTypeOK
  <2>2. QED
    BY <1>1, <1>3, <2>1 DEF PaymentRecord
<1>5. \A i \in PaymentIds : dispute'[i] # None <=> HasStatus(i, "Disputed")'
  BY <1>1, <1>3, <1>4, ZenonT(30) DEF DisputeInv, DisputesConsistent, HasStatus
<1>6. OpenDisputes(e) = eventDisputes[e] \ TimedOut(e)
  BY DEF OpenDisputes, DisputeInv, DisputesConsistent
<1>7. ASSUME NEW d \in Events
      PROVE  eventDisputes'[d] = {i \in PaymentIds :
                                    dispute'[i] # None /\ payments'[i].event = d}
  <2>1. eventDisputes[d] = {i \in PaymentIds : dispute[i] # None /\ payments[i].event = d}
    BY DEF DisputeInv, DisputesConsistent
  <2>2. eventDisputes'[d] = IF d = e THEN eventDisputes[d] \ TimedOut(e)
                            ELSE eventDisputes[d]
    BY <1>6 DEF ReleaseTimedOut, DisputeInv, RecordsTypeOK, DisputeTypeOK
  <2>3. QED
    BY <1>1, <1>3, <2>1, <2>2, ZenonT(30)
<1>8. QED
  BY <1>5, <1>7 DEF DisputesConsistent

-----------------------------------------------------------------------------
(* The handlers.                                                           *)

\* A refund of a payment that is Held leaves it Held or Refunded.
LEMMA HeldPaymentRefunded ==
  ASSUME DisputeInv, NEW i \in PaymentIds, NEW amount \in Int,
         NEW s \in {"Held", "Refunded"}, Refunded(i, amount, s),
         HasStatus(i, "Held"), UNCHANGED disputeVars
  PROVE  DisputesConsistent'
<1> DEFINE total == payments[i].refunded_amount + amount
           record == [payments[i] EXCEPT !.refunded_amount = total, !.status = s]
<1>1. payments[i] \in PaymentRecord /\ payments[i].status = "Held" /\ payments[i] # None
  BY PaymentFields DEF HasStatus, DisputeInv, RecordsTypeOK
<1>2. payments' = [payments EXCEPT ![i] = record]
  BY <1>1 DEF Refunded, DisputeInv, RecordsTypeOK, SaleTypeOK, PaymentRecord
<1>3. total \in Int
  <2>1. payments[i].refunded_amount \in Int
    BY <1>1 DEF PaymentRecord
  <2>2. QED
    BY <2>1
<1> HIDE DEF total
<1>4. record \in PaymentRecord /\ record.status = s /\ record.event = payments[i].event
  BY <1>1, <1>3 DEF PaymentRecord
<1>5. record # None
  BY <1>4, NoneAssumption
<1> HIDE DEF record
<1>6. QED
  BY <1>1, <1>2, <1>4, <1>5, PaymentWritten DEF HasStatus

LEMMA RefundsKeepDisputes ==
  ASSUME DisputeInv, NEW i \in PaymentIds
  PROVE  /\ \A asked \in RefundAmounts : AdminRefund(i, asked) => DisputesConsistent'
         /\ ClaimRefund(i) => DisputesConsistent'
         /\ RequestPostponementRefund(i) => DisputesConsistent'
<1>1. ASSUME NEW asked \in RefundAmounts, AdminRefund(i, asked) PROVE DisputesConsistent'
  <2> DEFINE max == IF status[payments[i].event] = "Cancelled" THEN CancelledRemainder(i)
                    ELSE payments[i].amount - payments[i].refunded_amount
             amount == IF asked = None THEN max ELSE asked
             s == IF payments[i].refunded_amount + amount = payments[i].amount
                  THEN "Refunded" ELSE "Held"
  <2>1. /\ HasStatus(i, "Held") /\ Refunded(i, amount, s) /\ UNCHANGED disputeVars
        /\ payments[i] # None
    BY <1>1 DEF AdminRefund, HasStatus, RefundFrame
  <2>2. amount \in Int
    BY <2>1, RefundAmountTypes DEF DisputeInv
  <2>3. s \in {"Held", "Refunded"}
    OBVIOUS
  <2> HIDE DEF amount, s
  <2>4. QED
    BY <2>1, <2>2, <2>3, HeldPaymentRefunded
<1>2. ASSUME ClaimRefund(i) PROVE DisputesConsistent'
  <2>1. /\ HasStatus(i, "Held") /\ Refunded(i, CancelledRemainder(i), "Refunded")
        /\ UNCHANGED disputeVars /\ payments[i] # None
    BY <1>2 DEF ClaimRefund, HasStatus, RefundFrame
  <2>2. QED
    BY <2>1, RefundableTypes, HeldPaymentRefunded DEF DisputeInv
<1>3. ASSUME RequestPostponementRefund(i) PROVE DisputesConsistent'
  <2> DEFINE amount == payments[i].amount - payments[i].refunded_amount
  <2>1. /\ HasStatus(i, "Held") /\ Refunded(i, amount, "Refunded")
        /\ UNCHANGED disputeVars /\ payments[i] # None
    BY <1>3 DEF RequestPostponementRefund, HasStatus, RefundFrame
  <2>2. amount \in Int
    BY <2>1, RefundAmountTypes DEF DisputeInv
  <2> HIDE DEF amount
  <2>3. QED
    BY <2>1, <2>2, HeldPaymentRefunded
<1>4. QED
  BY <1>1, <1>2, <1>3

LEMMA RulingsKeepDisputes ==
  ASSUME DisputeInv, NEW i \in PaymentIds
  PROVE  /\ RaiseDispute(i) => DisputesConsistent'
         /\ ApproveRefund(i) => DisputesConsistent'
         /\ RejectDispute(i) => DisputesConsistent'
<1>1. ASSUME HasStatus(i, "Disputed") PROVE payments[i] \in PaymentRecord
  BY <1>1, PaymentFields DEF HasStatus, DisputeInv, RecordsTypeOK
<1>2. ASSUME ApproveRefund(i) PROVE DisputesConsistent'
  <2> DEFINE total == payments[i].refunded_amount
                        + (payments[i].amount - payments[i].refunded_amount)
             record == [payments[i] EXCEPT !.refunded_amount = total, !.status = "Refunded"]
  <2>1. HasStatus(i, "Disputed") /\ CloseDispute(i) /\ payments[i] \in PaymentRecord
    BY <1>1, <1>2 DEF ApproveRefund
  <2>2. payments' = [payments EXCEPT ![i] = record]
    BY <1>2, <2>1
       DEF ApproveRefund, Refunded, DisputeInv, RecordsTypeOK, SaleTypeOK, PaymentRecord
  <2>3. total \in Int
    <3>1. payments[i].refunded_amount \in Int /\ payments[i].amount \in Int
      BY <2>1 DEF PaymentRecord
    <3>2. QED
      BY <3>1
  <2> HIDE DEF total
  <2>4. record \in PaymentRecord /\ record.status = "Refunded"
    BY <2>1, <2>3 DEF PaymentRecord
  <2>5. record # None
    BY <2>4, NoneAssumption
  <2> HIDE DEF record
  <2>6. QED
    BY <2>1, <2>2, <2>4, <2>5, DisputeClosed
<1>3. ASSUME RejectDispute(i) PROVE DisputesConsistent'
  <2> DEFINE record == [payments[i] EXCEPT !.status = "Held"]
  <2>1. HasStatus(i, "Disputed") /\ CloseDispute(i) /\ payments[i] \in PaymentRecord
    BY <1>1, <1>3 DEF RejectDispute
  <2>2. payments' = [payments EXCEPT ![i] = record]
    BY <1>3 DEF RejectDispute, DisputeInv, RecordsTypeOK, SaleTypeOK
  <2>3. record \in PaymentRecord /\ record.status = "Held"
    BY <2>1 DEF PaymentRecord
  <2>4. record # None
    BY <2>3, NoneAssumption
  <2> HIDE DEF record
  <2>5. QED
    BY <2>1, <2>2, <2>3, <2>4, DisputeClosed
<1>4. QED
  BY <1>2, <1>3, DisputeRaised

LEMMA SalesKeepDisputes ==
  ASSUME DisputeInv
  PROVE  /\ \A p \in PaymentParams : CreatePayment(p) => DisputesConsistent'
         /\ \A i \in PaymentIds, c \in EmailCommitments :
              BindEmailCommitment(i, c) => DisputesConsistent'
<1>1. ASSUME NEW p \in PaymentParams, CreatePayment(p) PROVE DisputesConsistent'
  <2> DEFINE payer == IF p.level = "Standard" THEN p.payer ELSE None
             record == [event |-> p.event, payer |-> payer, amount |-> p.amount,
                        refunded_amount |-> 0, token |-> p.token, status |-> "Held",
                        level |-> p.level, nullifier_commitment |-> p.nullifier,
                        zk_email_commitment |-> p.commitment]
  <2>1. PICK i \in NextId : payments' = [payments EXCEPT ![i] = record]
    BY <1>1, Zenon DEF CreatePayment
  <2>2. i \in PaymentIds /\ payments[i] = None
    BY DEF NextId
  <2>3. record.status = "Held"
    OBVIOUS
  <2>4. record \in PaymentRecord
    BY RequestTypes DEF PaymentRecord
  <2>5. record # None
    BY <2>4, NoneAssumption
  <2>6. UNCHANGED disputeVars
    BY <1>1 DEF CreatePayment
  <2> HIDE DEF record
  <2>7. QED
    BY <2>1, <2>2, <2>3, <2>5, <2>6, PaymentWritten DEF HasStatus
<1>2. ASSUME NEW i \in PaymentIds, NEW c \in EmailCommitments, BindEmailCommitment(i, c)
      PROVE  DisputesConsistent'
  <2> DEFINE record == [payments[i] EXCEPT !.zk_email_commitment = c]
  <2>1. /\ payments[i] \in PaymentRecord /\ payments[i] # None
        /\ UNCHANGED disputeVars
    BY <1>2, PaymentFields DEF BindEmailCommitment, DisputeInv, RecordsTypeOK
  <2>2. payments' = [payments EXCEPT ![i] = record]
    BY <1>2 DEF BindEmailCommitment, DisputeInv, RecordsTypeOK, SaleTypeOK
  <2>3. /\ record \in PaymentRecord /\ record.status = payments[i].status
        /\ record.event = payments[i].event
    BY <2>1 DEF PaymentRecord
  <2>4. record # None
    BY <2>3, NoneAssumption
  <2> HIDE DEF record
  <2>5. QED
    BY <2>1, <2>2, <2>3, <2>4, PaymentWritten DEF HasStatus
<1>3. QED
  BY <1>1, <1>2

\* Every other handler releases the timed-out disputes of one event, or leaves
\* the three stores alone.
ReleasesAtMost(e) == ReleaseTimedOut(e) \/ UNCHANGED <<payments, disputeVars>>

LEMMA PayoutsRelease ==
  ASSUME NEW e \in Events
  PROVE  /\ Withdraw(e) => ReleasesAtMost(e)
         /\ WithdrawRevenue(e) => ReleasesAtMost(e)
         /\ \A t \in Tokens : WithdrawToken(e, t) => ReleasesAtMost(e)
         /\ WithdrawAllTokens(e) => ReleasesAtMost(e)
         /\ ReleaseIfExpired(e) => ReleasesAtMost(e)
         /\ WithdrawPlatformRevenue(e) => ReleasesAtMost(e)
         /\ ProcessDisputeTimeouts(e) => ReleasesAtMost(e)
         /\ \A u \in Users :
              /\ WithdrawSplit(e, u) => ReleasesAtMost(e)
              /\ FlagCohost(e, u) => ReleasesAtMost(e)
              /\ ReleaseFlaggedShare(e, u) => ReleasesAtMost(e)
              /\ ReassignFlaggedShare(e, u) => ReleasesAtMost(e)
BY SettlementReleases, Zenon
   DEF Withdraw, WithdrawRevenue, WithdrawToken, WithdrawAllTokens, ReleaseIfExpired,
       WithdrawPlatformRevenue, ProcessDisputeTimeouts, WithdrawSplit, FlagCohost,
       ReleaseFlaggedShare, ReassignFlaggedShare, ReleasesAtMost

LEMMA AdministrationReleasesNone ==
  /\ \A e \in Events : EventContractCall(e) => UNCHANGED <<payments, disputeVars>>
  /\ \A e \in Events, s \in AdminStatuses :
       SetEventStatus(e, s) => UNCHANGED <<payments, disputeVars>>
  /\ \A e \in Events, u \in Users, end \in EndTimes :
       SetEventEndTime(e, u, end) => UNCHANGED <<payments, disputeVars>>
  /\ \A e \in Events, d \in DelayExtensions :
       ExtendWithdrawalDelay(e, d) => UNCHANGED <<payments, disputeVars>>
  /\ \A bps \in FeeRates : SetPlatformFee(bps) => UNCHANGED <<payments, disputeVars>>
  /\ \A p \in PauseSwitch : SetPaused(p) => UNCHANGED <<payments, disputeVars>>
  /\ \A t \in Tokens : AddSupportedToken(t) => UNCHANGED <<payments, disputeVars>>
BY Zenon
   DEF EventContractCall, SyncEventConfig, SyncEventPrivacy, SyncNewEvent, CancelEvent,
       PostponeEvent, SyncAndResume, SetEventStatus, SetEventEndTime,
       ExtendWithdrawalDelay, SetPlatformFee, SetPaused, AddSupportedToken,
       AdministrationFrame

LEMMA ResalesReleaseNone ==
  \A i \in PaymentIds :
    /\ \A price \in ResalePrices :
         ListTicketForResale(i, price) => UNCHANGED <<payments, disputeVars>>
    /\ DelistTicket(i) => UNCHANGED <<payments, disputeVars>>
    /\ \A u \in Users : BuyResaleTicket(i, u) => UNCHANGED <<payments, disputeVars>>
BY Zenon DEF ListTicketForResale, DelistTicket, BuyResaleTicket

-----------------------------------------------------------------------------
(* The invariant.                                                          *)

LEMMA NextKeepsDisputes == DisputeInv /\ [Next]_vars => DisputesConsistent'
<1> SUFFICES ASSUME DisputeInv, [Next]_vars PROVE DisputesConsistent'
  OBVIOUS
<1>1. ASSUME NEW e \in Events, ReleaseTimedOut(e) \/ UNCHANGED <<payments, disputeVars>>
      PROVE  DisputesConsistent'
  BY <1>1, DisputesReleased, DisputesUntouched DEF DisputeInv
<1>2. ASSUME UNCHANGED <<payments, disputeVars>> PROVE DisputesConsistent'
  BY <1>2, DisputesUntouched DEF DisputeInv
<1>3. CASE Tick
  BY <1>2, <1>3 DEF Tick
<1>4. ASSUME NEW e \in Events, EventContractCall(e) PROVE DisputesConsistent'
  BY <1>2, <1>4, AdministrationReleasesNone
<1>5. CASE AdminCall
  BY <1>1, <1>2, <1>5, AdministrationReleasesNone, RefundsKeepDisputes,
     RulingsKeepDisputes, PayoutsRelease, ConstantsAssumption
     DEF AdminCall, ReleasesAtMost
<1>6. CASE AttendeeCall
  BY <1>2, <1>6, EntryPoints, SalesKeepDisputes, RefundsKeepDisputes,
     RulingsKeepDisputes, ResalesReleaseNone DEF AttendeeCall
<1>7. CASE PayoutCall
  BY <1>1, <1>7, PayoutsRelease DEF PayoutCall, ReleasesAtMost
<1>8. CASE UNCHANGED vars
  BY <1>2, <1>8 DEF vars
<1>9. QED
  BY <1>3, <1>4, <1>5, <1>6, <1>7, <1>8 DEF Next

\* Whatever calls are made, by whom and in which order, a ticket has a dispute
\* record exactly while its payment is Disputed, and the list of an event names
\* exactly its open disputes: withdraw is blocked by all of them and by no
\* other, and process_dispute_timeouts misses none.
THEOREM DisputesStayConsistent == Spec => []DisputesConsistent
<1>1. Init => DisputesConsistent
  BY DEF Init, DisputesConsistent, HasStatus
<1>2. RecordsTypeOK /\ DisputesConsistent /\ [Next]_vars => DisputesConsistent'
  BY NextKeepsDisputes DEF DisputeInv
<1>3. QED
  BY <1>1, <1>2, TypeCorrect, PTL DEF Spec

-----------------------------------------------------------------------------
(* The record of a payment.                                                *)

\* Inductive: an admin's refund is bounded by the level, a claim by the payer,
\* and the two agree on which payments can be refunded on chain.
RefundInv ==
  \A i \in Made :
    /\ 0 <= payments[i].refunded_amount
    /\ payments[i].refunded_amount <= payments[i].amount
    /\ payments[i].level # "Standard" =>
         payments[i].payer = None /\ payments[i].refunded_amount = 0

\* A payment just made.
Fresh(r) ==
  /\ r.refunded_amount = 0
  /\ r.level # "Standard" => r.payer = None

\* Record s is r after a call: the same purchase, refunded further at most.
Evolves(r, s) ==
  /\ s.event = r.event /\ s.payer = r.payer /\ s.amount = r.amount
  /\ s.token = r.token /\ s.level = r.level
  /\ s.nullifier_commitment = r.nullifier_commitment
  /\ r.zk_email_commitment # None => s.zk_email_commitment = r.zk_email_commitment
  /\ \/ s.refunded_amount = r.refunded_amount
     \/ r.level = "Standard" /\ s.refunded_amount \in 0..r.amount

\* What becomes of payment i in a step.
Fate(i) ==
  \/ payments'[i] = payments[i]
  \/ payments[i] = None /\ payments'[i] \in PaymentRecord /\ Fresh(payments'[i])
  \/ /\ payments[i] # None /\ payments[i].status # "Refunded"
     /\ payments'[i] \in PaymentRecord
     /\ Evolves(payments[i], payments'[i])

-----------------------------------------------------------------------------
(* The handlers.                                                           *)

\* One payment becomes a given record and no other changes.
LEMMA FateOfOne ==
  ASSUME RecordsTypeOK, NEW i \in PaymentIds, NEW record \in PaymentRecord,
         payments' = [payments EXCEPT ![i] = record],
         \/ payments[i] = None /\ Fresh(record)
         \/ payments[i] # None /\ payments[i].status # "Refunded"
              /\ Evolves(payments[i], record)
  PROVE  \A j \in PaymentIds : Fate(j)
<1>1. /\ payments'[i] = record
      /\ \A j \in PaymentIds : j # i => payments'[j] = payments[j]
  BY DEF RecordsTypeOK, SaleTypeOK
<1>2. Fate(i)
  BY <1>1 DEF Fate
<1>3. \A j \in PaymentIds : j # i => Fate(j)
  BY <1>1 DEF Fate
<1>4. QED
  BY <1>2, <1>3

\* A refund of a payment that is not final yet, to no more than was paid.
LEMMA FateOfRefunded ==
  ASSUME RecordsTypeOK, NEW i \in PaymentIds, NEW amount \in Int,
         NEW s \in {"Held", "Refunded"}, Refunded(i, amount, s),
         payments[i] # None, payments[i].status # "Refunded",
         payments[i].level = "Standard",
         payments[i].refunded_amount + amount \in 0..payments[i].amount
  PROVE  \A j \in PaymentIds : Fate(j)
<1> DEFINE total == payments[i].refunded_amount + amount
           record == [payments[i] EXCEPT !.refunded_amount = total, !.status = s]
<1>1. payments[i] \in PaymentRecord
  BY PaymentFields DEF RecordsTypeOK
<1>2. payments' = [payments EXCEPT ![i] = record]
  BY <1>1 DEF Refunded, RecordsTypeOK, SaleTypeOK, PaymentRecord
<1>3. total \in Int /\ total \in 0..payments[i].amount
  OBVIOUS
<1> HIDE DEF total
<1>4. record \in PaymentRecord
  BY <1>1, <1>3 DEF PaymentRecord
<1>5. Evolves(payments[i], record)
  BY <1>1, <1>3 DEF PaymentRecord, Evolves
<1> HIDE DEF record
<1>6. QED
  BY <1>2, <1>4, <1>5, FateOfOne

LEMMA FateOfRefunds ==
  ASSUME RecordsTypeOK, RefundInv, NEW i \in PaymentIds
  PROVE  /\ \A asked \in RefundAmounts :
              AdminRefund(i, asked) => \A j \in PaymentIds : Fate(j)
         /\ ClaimRefund(i) => \A j \in PaymentIds : Fate(j)
         /\ RequestPostponementRefund(i) => \A j \in PaymentIds : Fate(j)
         /\ ApproveRefund(i) => \A j \in PaymentIds : Fate(j)
<1> DEFINE paid == payments[i].amount
           back == payments[i].refunded_amount
<1>1. ASSUME payments[i] # None
      PROVE  /\ paid \in Nat /\ back \in Int /\ 0 <= back /\ back <= paid
             /\ payments[i].payer # None => payments[i].level = "Standard"
             /\ CancelledRemainder(i) \in Int
             /\ CancelledRemainder(i) + back <= paid
  BY <1>1, PaymentFields, RefundableTypes DEF RecordsTypeOK, RefundInv, Made
<1>2. ASSUME NEW asked \in RefundAmounts, AdminRefund(i, asked)
      PROVE  \A j \in PaymentIds : Fate(j)
  <2> DEFINE max == IF status[payments[i].event] = "Cancelled" THEN CancelledRemainder(i)
                    ELSE paid - back
             amount == IF asked = None THEN max ELSE asked
             s == IF back + amount = paid THEN "Refunded" ELSE "Held"
  <2>1. /\ payments[i] # None /\ payments[i].status = "Held"
        /\ payments[i].level = "Standard" /\ Refunded(i, amount, s)
        /\ 0 < amount /\ amount <= max
    BY <1>2 DEF AdminRefund, HasStatus
  <2>2. amount \in Int
    BY <2>1, RefundAmountTypes
  <2>3. s \in {"Held", "Refunded"}
    OBVIOUS
  <2> HIDE DEF amount, s
  <2>4. max \in Int /\ max + back <= paid
    BY <1>1, <2>1
  <2> HIDE DEF max
  <2>5. back + amount \in 0..paid
    BY <1>1, <2>1, <2>2, <2>4
  <2>6. QED
    BY <2>1, <2>2, <2>3, <2>5, FateOfRefunded
<1>3. ASSUME ClaimRefund(i) PROVE \A j \in PaymentIds : Fate(j)
  <2>1. /\ payments[i] # None /\ payments[i].status = "Held"
        /\ payments[i].payer # None /\ CancelledRemainder(i) > 0
        /\ Refunded(i, CancelledRemainder(i), "Refunded")
    BY <1>3 DEF ClaimRefund, HasStatus
  <2>2. back + CancelledRemainder(i) \in 0..paid
    BY <1>1, <2>1
  <2>3. QED
    BY <1>1, <2>1, <2>2, FateOfRefunded
<1>4. ASSUME payments[i] # None, payments[i].status # "Refunded", payments[i].payer # None,
             Refunded(i, paid - back, "Refunded")
      PROVE  \A j \in PaymentIds : Fate(j)
  <2>1. paid - back \in Int /\ back + (paid - back) \in 0..paid
    BY <1>1, <1>4
  <2>2. QED
    BY <1>1, <1>4, <2>1, FateOfRefunded
<1>5. RequestPostponementRefund(i) => \A j \in PaymentIds : Fate(j)
  BY <1>4 DEF RequestPostponementRefund, HasStatus
<1>6. ApproveRefund(i) => \A j \in PaymentIds : Fate(j)
  BY <1>4 DEF ApproveRefund, HasStatus
<1>7. QED
  BY <1>2, <1>3, <1>5, <1>6

\* A status that is not final gives way to another.
LEMMA FateOfStatus ==
  ASSUME RecordsTypeOK, NEW i \in PaymentIds, NEW s \in {"Held", "Disputed"},
         payments[i] # None, payments[i].status # "Refunded",
         payments'[i] = [payments[i] EXCEPT !.status = s]
  PROVE  Fate(i)
<1>1. payments[i] \in PaymentRecord
  BY PaymentFields DEF RecordsTypeOK
<1>2. payments'[i] \in PaymentRecord /\ Evolves(payments[i], payments'[i])
  BY <1>1 DEF PaymentRecord, Evolves
<1>3. QED
  BY <1>2 DEF Fate

LEMMA FateOfDisputes ==
  ASSUME RecordsTypeOK, NEW i \in PaymentIds
  PROVE  /\ RaiseDispute(i) => \A j \in PaymentIds : Fate(j)
         /\ RejectDispute(i) => \A j \in PaymentIds : Fate(j)
<1>1. ASSUME NEW s \in {"Held", "Disputed"},
             payments[i] # None, payments[i].status # "Refunded",
             payments' = [payments EXCEPT ![i].status = s]
      PROVE  \A j \in PaymentIds : Fate(j)
  <2>1. /\ payments'[i] = [payments[i] EXCEPT !.status = s]
        /\ \A j \in PaymentIds : j # i => payments'[j] = payments[j]
    BY <1>1 DEF RecordsTypeOK, SaleTypeOK
  <2>2. Fate(i)
    BY <1>1, <2>1, FateOfStatus
  <2>3. QED
    BY <2>1, <2>2 DEF Fate
<1>2. RaiseDispute(i) => \A j \in PaymentIds : Fate(j)
  BY <1>1 DEF RaiseDispute, HasStatus
<1>3. RejectDispute(i) => \A j \in PaymentIds : Fate(j)
  BY <1>1 DEF RejectDispute, HasStatus
<1>4. QED
  BY <1>2, <1>3

LEMMA FateOfReleased ==
  ASSUME RecordsTypeOK, NEW e \in Events,
         ReleaseTimedOut(e) \/ UNCHANGED <<payments, disputeVars>>,
         NEW i \in PaymentIds
  PROVE  Fate(i)
<1>1. CASE UNCHANGED <<payments, disputeVars>>
  BY <1>1 DEF Fate
<1>2. CASE ReleaseTimedOut(e)
  <2>1. CASE i \in Reinstated(e)
    <3>1. /\ payments[i] # None /\ payments[i].status # "Refunded"
          /\ payments'[i] = [payments[i] EXCEPT !.status = "Held"]
      BY <1>2, <2>1 DEF ReleaseTimedOut, Reinstated, HasStatus
    <3>2. QED
      BY <3>1, FateOfStatus
  <2>2. CASE i \notin Reinstated(e)
    BY <1>2, <2>2 DEF ReleaseTimedOut, Fate
  <2>3. QED
    BY <2>1, <2>2
<1>3. QED
  BY <1>1, <1>2

LEMMA FateOfSales ==
  ASSUME RecordsTypeOK
  PROVE  /\ \A p \in PaymentParams : CreatePayment(p) => \A j \in PaymentIds : Fate(j)
         /\ \A i \in PaymentIds, c \in EmailCommitments :
              BindEmailCommitment(i, c) => \A j \in PaymentIds : Fate(j)
<1>1. ASSUME NEW p \in PaymentParams, CreatePayment(p)
      PROVE  \A j \in PaymentIds : Fate(j)
  <2> DEFINE payer == IF p.level = "Standard" THEN p.payer ELSE None
             record == [event |-> p.event, payer |-> payer, amount |-> p.amount,
                        refunded_amount |-> 0, token |-> p.token, status |-> "Held",
                        level |-> p.level, nullifier_commitment |-> p.nullifier,
                        zk_email_commitment |-> p.commitment]
  <2>1. PICK i \in NextId : payments' = [payments EXCEPT ![i] = record]
    BY <1>1, Zenon DEF CreatePayment
  <2>2. i \in PaymentIds /\ payments[i] = None
    BY DEF NextId
  <2>3. Fresh(record)
    BY DEF Fresh
  <2>4. record \in PaymentRecord
    BY RequestTypes DEF PaymentRecord
  <2> HIDE DEF record
  <2>5. QED
    BY <2>1, <2>2, <2>3, <2>4, FateOfOne
<1>2. ASSUME NEW i \in PaymentIds, NEW c \in EmailCommitments, BindEmailCommitment(i, c)
      PROVE  \A j \in PaymentIds : Fate(j)
  <2> DEFINE record == [payments[i] EXCEPT !.zk_email_commitment = c]
  <2>1. /\ payments[i] \in PaymentRecord /\ payments[i] # None
        /\ payments[i].status # "Refunded" /\ payments[i].zk_email_commitment = None
        /\ payments' = [payments EXCEPT ![i] = record]
    BY <1>2, PaymentFields DEF BindEmailCommitment, RecordsTypeOK, SaleTypeOK
  <2>2. record \in PaymentRecord /\ Evolves(payments[i], record)
    BY <2>1 DEF PaymentRecord, Evolves
  <2> HIDE DEF record
  <2>3. QED
    BY <2>1, <2>2, FateOfOne
<1>3. QED
  BY <1>1, <1>2

\* No call does anything else to a payment.
LEMMA EveryFate ==
  ASSUME RecordsTypeOK, RefundInv, [Next]_vars
  PROVE  \A i \in PaymentIds : Fate(i)
<1>1. ASSUME NEW e \in Events, ReleaseTimedOut(e) \/ UNCHANGED <<payments, disputeVars>>
      PROVE  \A i \in PaymentIds : Fate(i)
  BY <1>1, FateOfReleased
<1>2. ASSUME UNCHANGED <<payments, disputeVars>> PROVE \A i \in PaymentIds : Fate(i)
  BY <1>2 DEF Fate
<1>3. CASE Tick
  BY <1>2, <1>3 DEF Tick
<1>4. ASSUME NEW e \in Events, EventContractCall(e) PROVE \A i \in PaymentIds : Fate(i)
  BY <1>2, <1>4, AdministrationReleasesNone
<1>5. CASE AdminCall
  BY <1>1, <1>2, <1>5, AdministrationReleasesNone, FateOfRefunds, FateOfDisputes,
     PayoutsRelease, ConstantsAssumption
     DEF AdminCall, ReleasesAtMost
<1>6. CASE AttendeeCall
  BY <1>2, <1>6, EntryPoints, FateOfSales, FateOfRefunds, FateOfDisputes,
     ResalesReleaseNone DEF AttendeeCall
<1>7. CASE PayoutCall
  BY <1>1, <1>7, PayoutsRelease DEF PayoutCall, ReleasesAtMost
<1>8. CASE UNCHANGED vars
  BY <1>2, <1>8 DEF vars
<1>9. QED
  BY <1>3, <1>4, <1>5, <1>6, <1>7, <1>8 DEF Next

-----------------------------------------------------------------------------
(* The theorems.                                                           *)

LEMMA RefundInvariant == Spec => []RefundInv
<1>1. Init => RefundInv
  BY DEF Init, RefundInv, Made
<1>2. RecordsTypeOK /\ RefundInv /\ [Next]_vars => RefundInv'
  <2> SUFFICES ASSUME RecordsTypeOK, RefundInv, [Next]_vars,
                      NEW i \in PaymentIds, payments'[i] # None
               PROVE  /\ 0 <= payments'[i].refunded_amount
                      /\ payments'[i].refunded_amount <= payments'[i].amount
                      /\ payments'[i].level # "Standard" =>
                           payments'[i].payer = None /\ payments'[i].refunded_amount = 0
    BY DEF RefundInv, Made
  <2>1. Fate(i)
    BY EveryFate
  <2>2. CASE payments'[i] = payments[i]
    BY <2>2 DEF RefundInv, Made
  <2>3. CASE payments'[i] \in PaymentRecord /\ Fresh(payments'[i])
    BY <2>3 DEF Fresh, PaymentRecord
  <2>4. CASE payments[i] # None /\ Evolves(payments[i], payments'[i])
    <3>1. payments[i].amount \in Nat
      BY <2>4, PaymentFields DEF RecordsTypeOK
    <3>2. QED
      BY <2>4, <3>1 DEF Evolves, RefundInv, Made
  <2>5. QED
    BY <2>1, <2>2, <2>3, <2>4 DEF Fate
<1>3. QED
  BY <1>1, <1>2, TypeCorrect, PTL DEF Spec

\* No sequence of partial refunds, claims, postponement refunds and rulings
\* gives back more than was paid, nor anything of a payment that stores no payer.
THEOREM RefundsStayBounded == Spec => []RefundsBounded
<1>1. RefundInv => RefundsBounded
  BY DEF RefundInv, RefundsBounded
<1>2. QED
  BY <1>1, RefundInvariant, PTL

\* A Refunded payment is never refunded, disputed, reinstated or bound again.
THEOREM RefundedStaysFinal == Spec => RefundedIsFinal
<1>1. RecordsTypeOK /\ RefundInv /\ [Next]_vars =>
        [\A i \in PaymentIds :
           HasStatus(i, "Refunded") => payments'[i] = payments[i]]_vars
  BY EveryFate DEF Fate, HasStatus
<1>2. QED
  BY <1>1, RefundInvariant, TypeCorrect, PTL DEF Spec, RefundedIsFinal

\* The purchase a payment records - event, payer, price, token, privacy - and
\* the receipt commitment bound to it outlive every call.
THEOREM PaymentIdentityStaysFixed == Spec => PaymentIdentityFixed
<1>1. ASSUME RecordsTypeOK, RefundInv, [Next]_vars, NEW i \in Made
      PROVE  /\ payments'[i] # None
             /\ \A f \in {"event", "payer", "amount", "token", "level",
                          "nullifier_commitment"} : payments'[i][f] = payments[i][f]
             /\ payments[i].zk_email_commitment # None =>
                  payments'[i].zk_email_commitment = payments[i].zk_email_commitment
  <2>1. i \in PaymentIds /\ payments[i] # None /\ Fate(i)
    BY <1>1, EveryFate DEF Made
  <2>2. CASE payments'[i] = payments[i]
    BY <2>1, <2>2
  <2>3. CASE payments'[i] \in PaymentRecord /\ Evolves(payments[i], payments'[i])
    <3>1. payments[i] \in PaymentRecord
      BY <1>1, <2>1, PaymentFields DEF RecordsTypeOK
    <3>2. QED
      BY <2>3, <3>1, NoneAssumption DEF Evolves, PaymentRecord
  <2>4. QED
    BY <2>1, <2>2, <2>3 DEF Fate
<1>2. RecordsTypeOK /\ RefundInv /\ [Next]_vars =>
        [\A i \in Made :
           /\ payments'[i] # None
           /\ \A f \in {"event", "payer", "amount", "token", "level",
                        "nullifier_commitment"} : payments'[i][f] = payments[i][f]
           /\ payments[i].zk_email_commitment # None =>
                payments'[i].zk_email_commitment = payments[i].zk_email_commitment]_vars
  BY <1>1
<1>3. QED
  BY <1>2, RefundInvariant, TypeCorrect, PTL DEF Spec, PaymentIdentityFixed
=============================================================================
