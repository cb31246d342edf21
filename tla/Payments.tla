------------------------------- MODULE Payments -------------------------------
(***************************************************************************)
(* The payments contract: every call that changes its storage, in every    *)
(* order its callers can make them, and what must never go wrong.          *)
(***************************************************************************)
EXTENDS TicketSales, Payouts, EventAdministration

\* The event contract makes no further call about an event it has cancelled:
\* Cancelled is terminal there, and every caller of the handlers below checks
\* the event's status first.  It creates an event once, before it calls
\* anything else about it.
OpenToEventContract(e) == config[e] # None => config[e].cancel_ledger = None

EventContractCall(e) ==
  /\ OpenToEventContract(e)
  /\ \/ \E terms \in SyncedTerms : SyncEventConfig(e, terms)
     \/ \E rules \in PrivacyConfigs : SyncEventPrivacy(e, rules)
     \/ /\ config[e] = None
        /\ \E terms \in SyncedTerms, rows \in SplitTables : SyncNewEvent(e, terms, rows)
     \/ e \in CancellableEvents /\ CancelEvent(e)
     \/ \E d \in Deadlines : PostponeEvent(e, d)
     \/ \E terms \in SyncedTerms : SyncAndResume(e, terms)

AdminCall ==
  \/ \E e \in Events, s \in AdminStatuses : SetEventStatus(e, s)
  \/ \E e \in Events, u \in Users, end \in EndTimes : SetEventEndTime(e, u, end)
  \/ \E e \in Events, d \in DelayExtensions : ExtendWithdrawalDelay(e, d)
  \/ \E bps \in FeeRates : SetPlatformFee(bps)
  \/ \E p \in PauseSwitch : SetPaused(p)
  \/ \E t \in Tokens : AddSupportedToken(t)
  \/ \E i \in PaymentIds, asked \in RefundAmounts : AdminRefund(i, asked)
  \/ \E i \in PaymentIds : ApproveRefund(i) \/ RejectDispute(i)
  \/ \E e \in AdminPaidEvents : WithdrawRevenue(e)
  \/ \E e \in Events : WithdrawPlatformRevenue(e)
  \/ \E e \in Events, u \in Users :
       ReleaseFlaggedShare(e, u) \/ ReassignFlaggedShare(e, u)

AttendeeCall ==
  \/ PayForTicket \/ PayForTicketWithCommitment \/ PayForTicketWithOptions
  \/ \E i \in PaymentIds, c \in EmailCommitments : BindEmailCommitment(i, c)
  \/ \E i \in PaymentIds :
       ClaimRefund(i) \/ RequestPostponementRefund(i) \/ RaiseDispute(i)
  \/ \E i \in PaymentIds, price \in ResalePrices : ListTicketForResale(i, price)
  \/ \E i \in PaymentIds : DelistTicket(i)
  \/ \E i \in PaymentIds, u \in Users : BuyResaleTicket(i, u)

PayoutCall ==
  \/ \E e \in Events :
       \/ Withdraw(e) \/ WithdrawAllTokens(e) \/ ReleaseIfExpired(e)
       \/ ProcessDisputeTimeouts(e)
  \/ \E e \in Events, t \in Tokens : WithdrawToken(e, t)
  \/ \E e \in Events, u \in Users : WithdrawSplit(e, u) \/ FlagCohost(e, u)

Next ==
  \/ Tick
  \/ \E e \in Events : EventContractCall(e)
  \/ AdminCall
  \/ AttendeeCall
  \/ PayoutCall

Spec == Init /\ [][Next]_vars

\* The ledger closes again and again, and someone keeps calling the
\* permissionless process_dispute_timeouts; nobody else has to act.
FairSpec ==
  /\ Spec
  /\ WF_vars(Tick)
  /\ \A e \in Events : WF_vars(ProcessDisputeTimeouts(e))

-----------------------------------------------------------------------------
(* Types.                                                                  *)

AdminTypeOK ==
  /\ now \in Nat
  /\ paused \in BOOLEAN
  /\ platformFeeBps \in Bps
  /\ supportedTokens \in SUBSET Tokens

EventTypeOK ==
  /\ config \in [Events -> EventConfig \cup {None}]
  /\ status \in [Events -> Statuses \cup {None}]
  /\ postponeDeadline \in [Events -> Nat \cup {None}]
  /\ escrowMeta \in [Events -> EscrowMetadata \cup {None}]
  /\ privacy \in [Events ->
       [allow_anonymous: BOOLEAN, requires_verification: BOOLEAN]]

SaleTypeOK ==
  /\ payments \in [PaymentIds -> PaymentRecord \cup {None}]
  /\ usedNonces \in SUBSET NonceKeys
  /\ spentNullifiers \in SUBSET Nullifiers
  /\ userTickets \in [Events -> [Users -> [{"Standard", "Private"} -> Nat]]]

TicketTypeOK ==
  /\ owner \in [PaymentIds -> Users \cup {None}]
  /\ ownerTickets \in [Users -> Seq(PaymentIds)]
  /\ resaleListing \in [PaymentIds -> ResaleListing \cup {None}]

DisputeTypeOK ==
  /\ dispute \in [PaymentIds -> Nat \cup {None}]
  /\ eventDisputes \in [Events -> SUBSET PaymentIds]

SplitTypeOK ==
  /\ splits \in [Events -> Seq(SplitRow)]
  /\ splitFlagged \in [Events -> [Users -> BOOLEAN]]

MoneyTypeOK ==
  /\ tokenRevenue \in [Events -> [Tokens -> Int]]
  /\ totalVolume \in [Events -> [Tokens -> Nat]]
  /\ totalRefunds \in [Events -> [Tokens -> Nat]]
  /\ totalWithdrawn \in [Events -> [Tokens -> Nat]]
  /\ eventTokens \in [Events -> SUBSET Tokens]
  /\ platformRevenue \in [Events -> Nat]
  /\ balance \in [Tokens -> Nat]
  /\ settlement \in [Events -> Nat \cup {None}]
  /\ splitWithdrawn \in [Events -> [Users -> Nat]]

\* Everything but the money counters.
RecordsTypeOK ==
  /\ AdminTypeOK
  /\ EventTypeOK
  /\ SaleTypeOK
  /\ TicketTypeOK
  /\ DisputeTypeOK
  /\ SplitTypeOK

\* Every store holds what its type in storage.rs and types.rs says; the money
\* counters that may not go below zero are natural numbers.
TypeOK == RecordsTypeOK /\ MoneyTypeOK
=============================================================================
