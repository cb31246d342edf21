---------------------------- MODULE BoxOfficeProofs ----------------------------
(***************************************************************************)
(* Proofs about the event, payments and ticket contracts together, for any *)
(* number of users, events, tiers and tickets.                             *)
(*                                                                         *)
(* Each contract was proved about by itself, called in any order.  Every   *)
(* transaction of BoxOffice is a call of each contract it touches, so what *)
(* was proved of a contract alone holds in the composition; the agreement  *)
(* of their stores is what the transactions keep beyond that.              *)
(***************************************************************************)
EXTENDS BoxOffice, Sums, SequenceTheorems

\* The three contracts with what was proved about them.  BoxOffice calls the
\* payments contract as the event contract does, not with inputs of its own.
EventPart == INSTANCE SeatProofs
TicketPart == INSTANCE TicketProofs WITH
  Users <- TicketHolders, ownerTickets <- walletTickets
PaymentsPart == INSTANCE PromiseProofs WITH
  Amounts <- Nat \ {0}, Levels <- Levels \cup {"Standard"}, SyncedTerms <- Terms,
  SplitTables <- Seq(SplitRow), Deadlines <- Nat, CancellableEvents <- Events,
  AdminPaidEvents <- Events, ResalePrices <- {}

-----------------------------------------------------------------------------
(* What each part assumes of the constants holds here.                     *)

LEMMA EventAssumptions == EventPart!EventConstants /\ EventPart!EventNone
BY EventContractAssumption
   DEF Ev!Privacy, EventPart!Privacy, Ev!EventStatus, EventPart!EventStatus,
       Ev!TierParams, EventPart!TierParams, Ev!SplitParams, EventPart!SplitParams,
       Ev!Details, EventPart!Details, Ev!CreateEventParams,
       EventPart!CreateEventParams, Ev!AnonymousTicketClaim,
       EventPart!AnonymousTicketClaim, Ev!ClaimSettings, EventPart!ClaimSettings,
       Ev!AnonClaimSettings, EventPart!AnonClaimSettings, Ev!EventTerms,
       EventPart!EventTerms, Ev!EventRecord, EventPart!EventRecord,
       Ev!PostponementInfo, EventPart!PostponementInfo, Ev!Reservation,
       EventPart!Reservation, Ev!IsFiniteSet, EventPart!IsFiniteSet

LEMMA TicketAssumptions == TicketPart!BoundsAssumption /\ TicketPart!NoneAssumption
BY TicketContractAssumption DEF Tix!Ticket, TicketPart!Ticket

LEMMA SameRecords ==
  /\ PaymentsPart!Terms = Terms
  /\ PaymentsPart!SplitRow = SplitRow
  /\ PaymentsPart!Statuses = Statuses
  /\ PaymentsPart!Bps = Bps
  /\ PaymentsPart!EventConfig = EventConfig
  /\ PaymentsPart!EscrowMetadata = EscrowMetadata
  /\ PaymentsPart!PaymentRecord = PaymentRecord
  /\ PaymentsPart!ResaleListing = ResaleListing
<1>1. PaymentsPart!Bps = Bps /\ PaymentsPart!Statuses = Statuses
  BY DEF Bps, Statuses, PaymentsPart!Bps, PaymentsPart!Statuses
<1>2. PaymentsPart!Terms = Terms /\ PaymentsPart!SplitRow = SplitRow
  BY <1>1 DEF Terms, SplitRow, PaymentsPart!Terms, PaymentsPart!SplitRow
<1>3. PaymentsPart!EventConfig = EventConfig
  BY <1>1, <1>2 DEF EventConfig, PaymentsPart!EventConfig
<1>4. /\ PaymentsPart!EscrowMetadata = EscrowMetadata
      /\ PaymentsPart!PaymentRecord = PaymentRecord
      /\ PaymentsPart!ResaleListing = ResaleListing
  BY DEF EscrowMetadata, PaymentRecord, ResaleListing, PaymentsPart!EscrowMetadata,
         PaymentsPart!PaymentRecord, PaymentsPart!ResaleListing
<1>5. QED
  BY <1>1, <1>2, <1>3, <1>4

LEMMA PaymentsAssumptions ==
  /\ PaymentsPart!ConstantsAssumption
  /\ PaymentsPart!FiniteAssumption
  /\ PaymentsPart!NoneAssumption
<1>1. PaymentsPart!NoneAssumption
  BY SameRecords, NoneAssumption
<1>2. PaymentsPart!FiniteAssumption
  BY FiniteAssumption DEF IsFiniteSet, PaymentsPart!IsFiniteSet
<1>3. Levels \cup {"Standard"} \subseteq {"Standard", "Private", "Anonymous"}
  BY ConstantsAssumption
<1>4. PaymentsPart!ConstantsAssumption
  BY <1>3, SameRecords, ConstantsAssumption
<1>5. QED
  BY <1>1, <1>2, <1>4

-----------------------------------------------------------------------------
(* The parts are the contracts BoxOffice is made of, definition by         *)
(* definition.                                                             *)

LEMMA SameEvent ==
  /\ Ev!Init = EventPart!Init
  /\ Ev!Next = EventPart!Next
  /\ \A e, offer : Ev!CreateEvent(e, offer) = EventPart!CreateEvent(e, offer)
  /\ \A e, change :
       Ev!UpdateEventDetails(e, change) = EventPart!UpdateEventDetails(e, change)
  /\ \A e, t : Ev!AddTicketTier(e, t) = EventPart!AddTicketTier(e, t)
  /\ \A e, k, t : Ev!UpdateTier(e, k, t) = EventPart!UpdateTier(e, k, t)
  /\ \A e : Ev!UpdateEventStatus(e) = EventPart!UpdateEventStatus(e)
  /\ \A e : Ev!CancelEvent(e) = EventPart!CancelEvent(e)
  /\ \A e, date, window :
       Ev!PostponeEvent(e, date, window) = EventPart!PostponeEvent(e, date, window)
  /\ \A e : Ev!FinalizePostponement(e) = EventPart!FinalizePostponement(e)
<1> USE DEF Ev!linkVars, EventPart!linkVars, Ev!termVars, EventPart!termVars,
            Ev!postponeVars, EventPart!postponeVars, Ev!listVars, EventPart!listVars,
            Ev!ruleVars, EventPart!ruleVars, Ev!freeClaimVars, EventPart!freeClaimVars,
            Ev!proofVars, EventPart!proofVars
<1>1. /\ Ev!Init = EventPart!Init
      /\ Ev!Tick = EventPart!Tick
      /\ Ev!Initialize = EventPart!Initialize
      /\ Ev!SetAnonymousClaimVerifier = EventPart!SetAnonymousClaimVerifier
  BY DEF Ev!Init, EventPart!Init, Ev!Tick, EventPart!Tick, Ev!Initialize,
         EventPart!Initialize, Ev!SetAnonymousClaimVerifier,
         EventPart!SetAnonymousClaimVerifier
<1>2. \A e, offer : Ev!CreateEvent(e, offer) = EventPart!CreateEvent(e, offer)
  BY DEF Ev!CreateEvent, EventPart!CreateEvent, Ev!ValidTier, EventPart!ValidTier,
         Ev!Supply, EventPart!Supply, Ev!ValidSplits, EventPart!ValidSplits, Ev!TermsOf,
         EventPart!TermsOf, Ev!NewTier, EventPart!NewTier, Ev!SumFunction,
         EventPart!SumFunction, Ev!SumFunctionOnSet, EventPart!SumFunctionOnSet,
         Ev!FoldFunctionOnSet, EventPart!FoldFunctionOnSet, Ev!MapThenFoldSet,
         EventPart!MapThenFoldSet
<1>3. \A e, change :
        Ev!UpdateEventDetails(e, change) = EventPart!UpdateEventDetails(e, change)
  BY DEF Ev!UpdateEventDetails, EventPart!UpdateEventDetails, Ev!InStatus,
         EventPart!InStatus, Ev!Changed, EventPart!Changed
<1>4. \A e, t : Ev!AddTicketTier(e, t) = EventPart!AddTicketTier(e, t)
  BY DEF Ev!AddTicketTier, EventPart!AddTicketTier, Ev!InStatus, EventPart!InStatus,
         Ev!ValidTier, EventPart!ValidTier, Ev!SetSupply, EventPart!SetSupply,
         Ev!NewTier, EventPart!NewTier
<1>5. \A e, k, t : Ev!UpdateTier(e, k, t) = EventPart!UpdateTier(e, k, t)
  BY DEF Ev!UpdateTier, EventPart!UpdateTier, Ev!InStatus, EventPart!InStatus,
         Ev!ValidTier, EventPart!ValidTier, Ev!SetSupply, EventPart!SetSupply
<1>6. \A e : /\ Ev!UpdateEventStatus(e) = EventPart!UpdateEventStatus(e)
             /\ Ev!CancelEvent(e) = EventPart!CancelEvent(e)
  BY DEF Ev!UpdateEventStatus, EventPart!UpdateEventStatus, Ev!CancelEvent,
         EventPart!CancelEvent, Ev!InStatus, EventPart!InStatus, Ev!SetStatus,
         EventPart!SetStatus
<1>7. \A e, date, window :
        Ev!PostponeEvent(e, date, window) = EventPart!PostponeEvent(e, date, window)
  BY DEF Ev!PostponeEvent, EventPart!PostponeEvent, Ev!InStatus, EventPart!InStatus,
         Ev!MayPostpone, EventPart!MayPostpone, Ev!SetStatus, EventPart!SetStatus
<1>8. \A e : Ev!FinalizePostponement(e) = EventPart!FinalizePostponement(e)
  BY DEF Ev!FinalizePostponement, EventPart!FinalizePostponement, Ev!InStatus,
         EventPart!InStatus, Ev!Moved, EventPart!Moved
<1>9. \A e, x :
        /\ Ev!SetEventPrivacy(e, x) = EventPart!SetEventPrivacy(e, x)
        /\ Ev!SetClaimSettings(e, x) = EventPart!SetClaimSettings(e, x)
        /\ Ev!SetAnonClaimSettings(e, x) = EventPart!SetAnonClaimSettings(e, x)
        /\ Ev!SetZkConfig(e, x) = EventPart!SetZkConfig(e, x)
  BY DEF Ev!SetEventPrivacy, EventPart!SetEventPrivacy, Ev!SetClaimSettings,
         EventPart!SetClaimSettings, Ev!SetAnonClaimSettings,
         EventPart!SetAnonClaimSettings, Ev!SetZkConfig, EventPart!SetZkConfig
<1>10. \A e, u :
         Ev!ReleaseExpiredReservation(e, u) = EventPart!ReleaseExpiredReservation(e, u)
  BY DEF Ev!ReleaseExpiredReservation, EventPart!ReleaseExpiredReservation,
         Ev!HasReservation, EventPart!HasReservation, Ev!Expired, EventPart!Expired,
         Ev!Freed, EventPart!Freed, Ev!Unreserve, EventPart!Unreserve
<1>11. \A e, u, keepsTicket :
         Ev!RequestPostponementRefund(e, u, keepsTicket)
           = EventPart!RequestPostponementRefund(e, u, keepsTicket)
  BY DEF Ev!RequestPostponementRefund, EventPart!RequestPostponementRefund, Ev!InStatus,
         EventPart!InStatus, Ev!RemoveRegistration, EventPart!RemoveRegistration,
         Ev!WithoutAttendee, EventPart!WithoutAttendee
<1>12. \A e, u, k : Ev!ReserveTicket(e, u, k) = EventPart!ReserveTicket(e, u, k)
  BY DEF Ev!ReserveTicket, EventPart!ReserveTicket, Ev!InStatus, EventPart!InStatus,
         Ev!HasReservation, EventPart!HasReservation, Ev!Expired, EventPart!Expired,
         Ev!Freed, EventPart!Freed, Ev!HasSeats, EventPart!HasSeats, Ev!Unreserve,
         EventPart!Unreserve
<1>13. \A e, u, k : Ev!RegisterForEvent(e, u, k) = EventPart!RegisterForEvent(e, u, k)
  BY DEF Ev!RegisterForEvent, EventPart!RegisterForEvent, Ev!MayRegister,
         EventPart!MayRegister, Ev!HasReservation, EventPart!HasReservation,
         Ev!HasSeats, EventPart!HasSeats, Ev!SellSeats, EventPart!SellSeats,
         Ev!SaveRegistration, EventPart!SaveRegistration, Ev!InStatus,
         EventPart!InStatus, Ev!ReservationAllows, EventPart!ReservationAllows,
         Ev!FreeClaimAllowed, EventPart!FreeClaimAllowed, Ev!Unreserve,
         EventPart!Unreserve
<1>14. \A e, u, k, n, held :
         Ev!BatchRegisterForEvent(e, u, k, n, held)
           = EventPart!BatchRegisterForEvent(e, u, k, n, held)
  BY DEF Ev!BatchRegisterForEvent, EventPart!BatchRegisterForEvent, Ev!MayRegister,
         EventPart!MayRegister, Ev!HasSeats, EventPart!HasSeats, Ev!HasReservation,
         EventPart!HasReservation, Ev!Unreserve, EventPart!Unreserve, Ev!SellSeats,
         EventPart!SellSeats, Ev!SaveRegistration, EventPart!SaveRegistration,
         Ev!InStatus, EventPart!InStatus, Ev!ReservationAllows,
         EventPart!ReservationAllows, Ev!FreeClaimAllowed, EventPart!FreeClaimAllowed
<1>15. \A e, k, x :
         /\ Ev!ClaimAnonymousTicket(e, k, x) = EventPart!ClaimAnonymousTicket(e, k, x)
         /\ Ev!VerifyAndAttend(e, k, x) = EventPart!VerifyAndAttend(e, k, x)
  BY DEF Ev!ClaimAnonymousTicket, EventPart!ClaimAnonymousTicket, Ev!VerifyAndAttend,
         EventPart!VerifyAndAttend, Ev!InStatus, EventPart!InStatus, Ev!SellToProof,
         EventPart!SellToProof, Ev!CountAnonClaim, EventPart!CountAnonClaim,
         Ev!HasSeats, EventPart!HasSeats, Ev!CurrentWindow, EventPart!CurrentWindow
<1>16. \A e : Ev!OrganizerCall(e) = EventPart!OrganizerCall(e)
  BY <1>2, <1>3, <1>4, <1>5, <1>6, <1>7, <1>8, <1>9
     DEF Ev!OrganizerCall, EventPart!OrganizerCall
<1>17. \A e, u : Ev!AttendeeCall(e, u) = EventPart!AttendeeCall(e, u)
  BY <1>10, <1>11, <1>12, <1>13, <1>14 DEF Ev!AttendeeCall, EventPart!AttendeeCall
<1>18. \A e : Ev!ProofCall(e) = EventPart!ProofCall(e)
  BY <1>15 DEF Ev!ProofCall, EventPart!ProofCall
<1>19. Ev!Next = EventPart!Next
  BY <1>1, <1>16, <1>17, <1>18 DEF Ev!Next, EventPart!Next
<1>20. QED
  BY <1>1, <1>2, <1>3, <1>4, <1>5, <1>6, <1>7, <1>8, <1>19

LEMMA SameTicket == Tix!Init = TicketPart!Init /\ Tix!Next = TicketPart!Next
BY DEF Tix!TicketIds, TicketPart!TicketIds, Tix!Ticket, TicketPart!Ticket,
       Tix!linkVars, TicketPart!linkVars, Tix!indexVars, TicketPart!indexVars,
       Tix!vars, TicketPart!vars, Tix!FirstTicketId, TicketPart!FirstTicketId,
       Tix!Init, TicketPart!Init, Tix!Initialize, TicketPart!Initialize,
       Tix!SetEventContract, TicketPart!SetEventContract, Tix!NewIds,
       TicketPart!NewIds, Tix!MintTickets, TicketPart!MintTickets, Tix!MintTicket,
       TicketPart!MintTicket, Tix!BatchMintTicket, TicketPart!BatchMintTicket,
       Tix!IsValid, TicketPart!IsValid, Tix!PositionsWithout,
       TicketPart!PositionsWithout, Tix!ListWithout, TicketPart!ListWithout,
       Tix!MoveInIndex, TicketPart!MoveInIndex, Tix!SetOwner, TicketPart!SetOwner,
       Tix!TransferTicket, TicketPart!TransferTicket, Tix!AdminTransferTicket,
       TicketPart!AdminTransferTicket, Tix!SetRecoveryKey,
       TicketPart!SetRecoveryKey, Tix!RecoverTicket, TicketPart!RecoverTicket,
       Tix!UseTicket, TicketPart!UseTicket, Tix!CancelTicket,
       TicketPart!CancelTicket, Tix!Next, TicketPart!Next

LEMMA SamePaymentsCalls ==
  /\ Init = PaymentsPart!Init
  /\ Tick = PaymentsPart!Tick
  /\ \A e, terms : SyncEventConfig(e, terms) = PaymentsPart!SyncEventConfig(e, terms)
  /\ \A e, terms, rows :
       SyncNewEvent(e, terms, rows) = PaymentsPart!SyncNewEvent(e, terms, rows)
  /\ \A e : CancelEvent(e) = PaymentsPart!CancelEvent(e)
  /\ \A e, d : PostponeEvent(e, d) = PaymentsPart!PostponeEvent(e, d)
  /\ \A e, terms : SyncAndResume(e, terms) = PaymentsPart!SyncAndResume(e, terms)
  /\ \A p : CreatePayment(p) = PaymentsPart!CreatePayment(p)
  /\ \A i : ClaimRefund(i) = PaymentsPart!ClaimRefund(i)
  /\ \A i : RequestPostponementRefund(i) = PaymentsPart!RequestPostponementRefund(i)
  /\ \A e : WithdrawRevenue(e) = PaymentsPart!WithdrawRevenue(e)
  /\ \A e, u : WithdrawSplit(e, u) = PaymentsPart!WithdrawSplit(e, u)
  /\ \A e, u : FlagCohost(e, u) = PaymentsPart!FlagCohost(e, u)
  /\ \A e, s : SetEventStatus(e, s) = PaymentsPart!SetEventStatus(e, s)
  /\ \A p : SetPaused(p) = PaymentsPart!SetPaused(p)
<1> USE DEF adminVars, PaymentsPart!adminVars, eventVars, PaymentsPart!eventVars,
            saleVars, PaymentsPart!saleVars, ticketVars, PaymentsPart!ticketVars,
            disputeVars, PaymentsPart!disputeVars, bookVars, PaymentsPart!bookVars,
            splitVars, PaymentsPart!splitVars
<1>1. Init = PaymentsPart!Init
  BY DEF Init, PaymentsPart!Init, PaymentIds, PaymentsPart!PaymentIds
<1>2. Tick = PaymentsPart!Tick
  BY DEF Tick, PaymentsPart!Tick
<1>3. \A e, terms : SyncEventConfig(e, terms) = PaymentsPart!SyncEventConfig(e, terms)
  BY DEF SyncEventConfig, PaymentsPart!SyncEventConfig, StoreConfig,
         PaymentsPart!StoreConfig, AdministrationFrame, PaymentsPart!AdministrationFrame
<1>4. \A e, terms, rows :
         SyncNewEvent(e, terms, rows) = PaymentsPart!SyncNewEvent(e, terms, rows)
  BY DEF SyncNewEvent, PaymentsPart!SyncNewEvent, StoreConfig, PaymentsPart!StoreConfig,
         StoreSplits, PaymentsPart!StoreSplits, AdministrationFrame,
         PaymentsPart!AdministrationFrame, ValidSplits, PaymentsPart!ValidSplits,
         SumFunction, PaymentsPart!SumFunction, SumFunctionOnSet,
         PaymentsPart!SumFunctionOnSet, FoldFunctionOnSet,
         PaymentsPart!FoldFunctionOnSet, MapThenFoldSet, PaymentsPart!MapThenFoldSet
<1>5. \A e : CancelEvent(e) = PaymentsPart!CancelEvent(e)
  BY DEF CancelEvent, PaymentsPart!CancelEvent, CancellationRatio,
         PaymentsPart!CancellationRatio, AdministrationFrame,
         PaymentsPart!AdministrationFrame
<1>6. \A e, d : PostponeEvent(e, d) = PaymentsPart!PostponeEvent(e, d)
  BY DEF PostponeEvent, PaymentsPart!PostponeEvent, AdministrationFrame,
         PaymentsPart!AdministrationFrame
<1>7. \A e, terms : SyncAndResume(e, terms) = PaymentsPart!SyncAndResume(e, terms)
  BY DEF SyncAndResume, PaymentsPart!SyncAndResume, StoreConfig,
         PaymentsPart!StoreConfig, Reactivate, PaymentsPart!Reactivate,
         AdministrationFrame, PaymentsPart!AdministrationFrame
<1>8. \A p : CreatePayment(p) = PaymentsPart!CreatePayment(p)
  BY DEF CreatePayment, PaymentsPart!CreatePayment, AlreadyUsed,
         PaymentsPart!AlreadyUsed, PrivacyAllows, PaymentsPart!PrivacyAllows,
         WithinCaps, PaymentsPart!WithinCaps, NextId, PaymentsPart!NextId,
         AddOwnerTicket, PaymentsPart!AddOwnerTicket, NonceKey, PaymentsPart!NonceKey,
         PaymentIds, PaymentsPart!PaymentIds
<1>9. \A i : ClaimRefund(i) = PaymentsPart!ClaimRefund(i)
  BY DEF ClaimRefund, PaymentsPart!ClaimRefund, HasStatus, PaymentsPart!HasStatus,
         CancelledRemainder, PaymentsPart!CancelledRemainder, Refunded,
         PaymentsPart!Refunded, RefundFromRevenue, PaymentsPart!RefundFromRevenue,
         RefundFrame, PaymentsPart!RefundFrame, Share, PaymentsPart!Share, RefundRatio,
         PaymentsPart!RefundRatio, BookRefund, PaymentsPart!BookRefund, SendOut,
         PaymentsPart!SendOut
<1>10. \A i : RequestPostponementRefund(i) = PaymentsPart!RequestPostponementRefund(i)
  BY DEF RequestPostponementRefund, PaymentsPart!RequestPostponementRefund, HasStatus,
         PaymentsPart!HasStatus, Refunded, PaymentsPart!Refunded, RefundFromRevenue,
         PaymentsPart!RefundFromRevenue, RefundFrame, PaymentsPart!RefundFrame,
         BookRefund, PaymentsPart!BookRefund, SendOut, PaymentsPart!SendOut
<1>11. \A x, y : Share(x, y) = PaymentsPart!Share(x, y)
  BY DEF Share, PaymentsPart!Share
<1>12. \A e :
         /\ TotalToWithdraw(e) = PaymentsPart!TotalToWithdraw(e)
         /\ WithdrawableRatio(e) = PaymentsPart!WithdrawableRatio(e)
  BY DEF TotalToWithdraw, PaymentsPart!TotalToWithdraw, WithdrawableRatio,
         PaymentsPart!WithdrawableRatio, CancellationOrganizerPool,
         PaymentsPart!CancellationOrganizerPool, RevenueAfterTimeouts,
         PaymentsPart!RevenueAfterTimeouts, Share, PaymentsPart!Share, SumFunction,
         PaymentsPart!SumFunction, OpenDisputes, PaymentsPart!OpenDisputes, Reinstated,
         PaymentsPart!Reinstated, SumFunctionOnSet, PaymentsPart!SumFunctionOnSet,
         TimedOut, PaymentsPart!TimedOut, HasStatus, PaymentsPart!HasStatus,
         FoldFunctionOnSet, PaymentsPart!FoldFunctionOnSet, MapThenFoldSet,
         PaymentsPart!MapThenFoldSet
<1>13. \A e : WithdrawRevenue(e) = PaymentsPart!WithdrawRevenue(e)
  BY DEF WithdrawRevenue, PaymentsPart!WithdrawRevenue, RevenueAfterTimeouts,
         PaymentsPart!RevenueAfterTimeouts, Share, PaymentsPart!Share, NoSplits,
         PaymentsPart!NoSplits, NotPostponed, PaymentsPart!NotPostponed, Latched,
         PaymentsPart!Latched, RevenueInvariant, PaymentsPart!RevenueInvariant,
         ReleaseTimedOut, PaymentsPart!ReleaseTimedOut, BookWithdrawal,
         PaymentsPart!BookWithdrawal, AccruePlatformFee, PaymentsPart!AccruePlatformFee,
         SetRevenue, PaymentsPart!SetRevenue, Latch, PaymentsPart!Latch, PayoutFrame,
         PaymentsPart!PayoutFrame, SumFunction, PaymentsPart!SumFunction, Reinstated,
         PaymentsPart!Reinstated, PaymentIds, PaymentsPart!PaymentIds, TimedOut,
         PaymentsPart!TimedOut, OpenDisputes, PaymentsPart!OpenDisputes, SendOut,
         PaymentsPart!SendOut, SumFunctionOnSet, PaymentsPart!SumFunctionOnSet,
         HasStatus, PaymentsPart!HasStatus, FoldFunctionOnSet,
         PaymentsPart!FoldFunctionOnSet, MapThenFoldSet, PaymentsPart!MapThenFoldSet
<1>14. \A e :
         /\ PayoutUnlocked(e) = PaymentsPart!PayoutUnlocked(e)
         /\ RevenueInvariant(e) = PaymentsPart!RevenueInvariant(e)
         /\ OpenDisputes(e) = PaymentsPart!OpenDisputes(e)
         /\ ReleaseTimedOut(e) = PaymentsPart!ReleaseTimedOut(e)
  BY DEF PayoutUnlocked, PaymentsPart!PayoutUnlocked, RevenueInvariant,
         PaymentsPart!RevenueInvariant, OpenDisputes, PaymentsPart!OpenDisputes,
         ReleaseTimedOut, PaymentsPart!ReleaseTimedOut, TimedOut, PaymentsPart!TimedOut,
         PaymentIds, PaymentsPart!PaymentIds, Reinstated, PaymentsPart!Reinstated,
         HasStatus, PaymentsPart!HasStatus
<1>15. \A e, x :
         /\ AccruePlatformFee(e, x) = PaymentsPart!AccruePlatformFee(e, x)
         /\ RevenueLeft(e, x) = PaymentsPart!RevenueLeft(e, x)
         /\ SetRevenue(e, {AcceptedToken}, x) = PaymentsPart!SetRevenue(e, {AcceptedToken}, x)
  BY DEF AccruePlatformFee, PaymentsPart!AccruePlatformFee, RevenueLeft,
         PaymentsPart!RevenueLeft, SetRevenue, PaymentsPart!SetRevenue,
         WithdrawableRatio, PaymentsPart!WithdrawableRatio, RevenueAfterTimeouts,
         PaymentsPart!RevenueAfterTimeouts, SumFunction, PaymentsPart!SumFunction,
         Reinstated, PaymentsPart!Reinstated, SumFunctionOnSet,
         PaymentsPart!SumFunctionOnSet, TimedOut, PaymentsPart!TimedOut, HasStatus,
         PaymentsPart!HasStatus, FoldFunctionOnSet, PaymentsPart!FoldFunctionOnSet,
         MapThenFoldSet, PaymentsPart!MapThenFoldSet
<1>16. \A e : SettleSplit(e) = PaymentsPart!SettleSplit(e)
  BY <1>11, <1>12, <1>14, <1>15
     DEF SettleSplit, PaymentsPart!SettleSplit
<1>17. \A e : EnsureSplitSettled(e) = PaymentsPart!EnsureSplitSettled(e)
  BY <1>16
     DEF EnsureSplitSettled, PaymentsPart!EnsureSplitSettled
<1>18. \A e, u : PayShare(e, u) = PaymentsPart!PayShare(e, u)
  BY DEF PayShare, PaymentsPart!PayShare, RecipientShare, PaymentsPart!RecipientShare,
         BookWithdrawal, PaymentsPart!BookWithdrawal, Primary, PaymentsPart!Primary,
         SumFunction, PaymentsPart!SumFunction, Share, PaymentsPart!Share, SendOut,
         PaymentsPart!SendOut, SumFunctionOnSet, PaymentsPart!SumFunctionOnSet,
         FoldFunctionOnSet, PaymentsPart!FoldFunctionOnSet, MapThenFoldSet,
         PaymentsPart!MapThenFoldSet
<1>19. \A e, u : WithdrawSplit(e, u) = PaymentsPart!WithdrawSplit(e, u)
  BY <1>17, <1>18
     DEF WithdrawSplit, PaymentsPart!WithdrawSplit, Recipients, PaymentsPart!Recipients,
         PayoutFrame, PaymentsPart!PayoutFrame
<1>20. \A e, u : FlagCohost(e, u) = PaymentsPart!FlagCohost(e, u)
  BY DEF FlagCohost, PaymentsPart!FlagCohost, Recipients, PaymentsPart!Recipients,
         Primary, PaymentsPart!Primary
<1>21. /\ \A e, s : SetEventStatus(e, s) = PaymentsPart!SetEventStatus(e, s)
       /\ \A p : SetPaused(p) = PaymentsPart!SetPaused(p)
  BY DEF SetEventStatus, PaymentsPart!SetEventStatus, SetPaused,
         PaymentsPart!SetPaused, AdministrationFrame, PaymentsPart!AdministrationFrame
<1>22. QED
  BY <1>1, <1>2, <1>3, <1>4, <1>5, <1>6, <1>7, <1>8, <1>9, <1>10, <1>13,
     <1>19, <1>20, <1>21


-----------------------------------------------------------------------------
(* Every transaction is a call of the event contract and of the ticket     *)
(* contract, or leaves it alone.                                           *)

\* Each contract's stores are well formed and keep its own invariants.
PartsInv ==
  /\ EventPart!EventInv
  /\ TicketPart!RegistryInv
  /\ PaymentsPart!RecordsTypeOK

\* The stores of the event contract stay as they are.
EventIdle == UNCHANGED <<now, eventContractVars>>

LEMMA IdleEvent == EventIdle <=> UNCHANGED EventPart!vars
BY DEF EventIdle, eventContractVars, EventPart!vars, EventPart!linkVars,
       EventPart!termVars, EventPart!postponeVars, EventPart!listVars,
       EventPart!ruleVars, EventPart!freeClaimVars, EventPart!proofVars

LEMMA IdleTicket == UNCHANGED ticketContractVars <=> UNCHANGED TicketPart!vars
BY DEF ticketContractVars, TicketPart!vars, TicketPart!linkVars, TicketPart!indexVars

\* What the stored records say that the calls pass on.
LEMMA StoredFields ==
  ASSUME PartsInv
  PROVE  /\ \A e \in Events : event[e] # None =>
              /\ event[e].terms.organizer \in Users
              /\ event[e].terms.max_tickets_per_user \in Nat
         /\ \A i \in PaymentIds : payments[i] # None => payments[i].event \in Events
         /\ \A i \in PaymentIds : owner[i] # None => owner[i] \in Users
         /\ \A u \in Users : walletTickets[u] \in Seq(Tix!TicketIds)
<1>1. event \in [Events -> EventPart!EventRecord \cup {None}]
  BY DEF PartsInv, EventPart!EventInv, EventPart!TypeOK
<1>2. \A e \in Events : event[e] # None =>
        /\ event[e].terms.organizer \in Users
        /\ event[e].terms.max_tickets_per_user \in Nat
  BY <1>1 DEF EventPart!EventRecord, EventPart!EventTerms
<1>3. /\ payments \in [PaymentIds -> PaymentsPart!PaymentRecord \cup {None}]
      /\ owner \in [PaymentIds -> Users \cup {None}]
  BY DEF PartsInv, PaymentsPart!RecordsTypeOK, PaymentsPart!SaleTypeOK,
         PaymentsPart!TicketTypeOK, PaymentsPart!PaymentIds, PaymentIds
<1>4. \A i \in PaymentIds : payments[i] # None => payments[i].event \in Events
  BY <1>3 DEF PaymentsPart!PaymentRecord
<1>5. walletTickets \in [TicketHolders -> Seq(Tix!TicketIds)]
  BY DEF PartsInv, TicketPart!RegistryInv, TicketPart!TypeOK, TicketPart!TicketIds,
         Tix!TicketIds
<1>6. QED
  BY <1>2, <1>3, <1>4, <1>5 DEF TicketHolders

\* A batch within the limit is within it for a user without tickets.
LEMMA BatchAllowed ==
  ASSUME PartsInv, NEW e \in Events, NEW u \in Users, NEW k, NEW n,
         Ev!BatchRegisterForEvent(e, u, k, n, TicketsListed(e, u))
  PROVE  Ev!BatchRegisterForEvent(e, u, k, n, 0)
<1> DEFINE listed == {j \in DOMAIN walletTickets[u] :
                        ticket[walletTickets[u][j]].event_id = e}
<1>1. IsFiniteSet(listed)
  <2>1. walletTickets[u] \in Seq(Tix!TicketIds)
    BY StoredFields
  <2>2. 1 \in Int /\ Len(walletTickets[u]) \in Int
        /\ DOMAIN walletTickets[u] = 1..Len(walletTickets[u])
    BY <2>1
  <2> DEFINE d == DOMAIN walletTickets[u]
  <2>3. IsFiniteSet(d)
    BY <2>2, FS_Interval
  <2>4. listed \subseteq d
    OBVIOUS
  <2> HIDE DEF listed, d
  <2>5. QED
    BY <2>3, <2>4, FS_Subset
<1>2. TicketsListed(e, u) \in Nat
  BY <1>1, FS_CardinalityType DEF TicketsListed
<1>3. event[e] # None /\ n \in Nat
  BY DEF Ev!BatchRegisterForEvent, Ev!MayRegister, Ev!InStatus
<1>4. event[e].terms.max_tickets_per_user \in Nat
  BY <1>3, StoredFields
<1> DEFINE limit == event[e].terms.max_tickets_per_user
<1>5. limit > 0 => TicketsListed(e, u) + n <= limit
  BY DEF Ev!BatchRegisterForEvent
<1>6. limit > 0 => 0 + n <= limit
  <2> HIDE DEF limit
  <2>1. QED
    BY <1>2, <1>3, <1>4, <1>5 DEF limit
<1>7. QED
  BY <1>6 DEF Ev!BatchRegisterForEvent


\* The calls the event contract does not see.
LEMMA UnseenByEvent ==
  /\ PaymentsCall => EventIdle
  /\ TicketCall => EventIdle
  /\ \A e, m : MintDirectly(e, m) => EventIdle
  /\ \A e : PayOut(e) => EventIdle
  /\ \A e, s : Override(e, s) => EventIdle
  /\ \A p : Pause(p) => EventIdle
<1>1. PaymentsCall => UNCHANGED now
  <2>1. \A p : CreatePayment(p) => UNCHANGED now
    BY DEF CreatePayment
  <2>2. PayForTicket => UNCHANGED now
    BY <2>1 DEF PayForTicket
  <2>3. \A i : ClaimRefund(i) => UNCHANGED now
    BY DEF ClaimRefund, RefundFrame
  <2>4. QED
    BY <2>2, <2>3 DEF PaymentsCall
<1>2. \A e : PayOut(e) => UNCHANGED now
  <2>1. \A e : WithdrawRevenue(e) => UNCHANGED now
    BY DEF WithdrawRevenue, PayoutFrame
  <2>2. \A e, u : WithdrawSplit(e, u) => UNCHANGED now
    BY DEF WithdrawSplit, PayoutFrame
  <2>3. \A e, u : FlagCohost(e, u) => UNCHANGED now
    BY DEF FlagCohost
  <2>4. QED
    BY <2>1, <2>2, <2>3 DEF PayOut
<1>3. /\ \A e, s : Override(e, s) => UNCHANGED now
      /\ \A p : Pause(p) => UNCHANGED now
  BY DEF Override, Pause, SetEventStatus, SetPaused, AdministrationFrame
<1>4. QED
  BY <1>1, <1>2, <1>3
     DEF EventIdle, PaymentsCall, TicketCall, MintDirectly, PayOut, Override, Pause

\* What it does see is one of its calls, made by a user of it for an event.
LEMMA EventStep ==
  ASSUME PartsInv, BoxNext
  PROVE  Ev!Next \/ EventIdle
<1>1. CASE Tick /\ UNCHANGED <<eventContractVars, ticketContractVars>>
  <2>1. Ev!Tick
    BY <1>1 DEF Tick, Ev!Tick, eventContractVars, Ev!linkVars, Ev!termVars,
                Ev!postponeVars, Ev!listVars, Ev!ruleVars, Ev!freeClaimVars,
                Ev!proofVars
  <2>2. QED
    BY <2>1 DEF Ev!Next
<1>2. CASE LinkContracts \/ SetVerifier
  BY <1>2 DEF LinkContracts, SetVerifier, Ev!Next
<1>3. CASE \/ PaymentsCall \/ TicketCall
           \/ \E p \in PauseSwitch : Pause(p)
           \/ \E e \in Events :
                \/ PayOut(e)
                \/ \E s \in AdminStatuses : Override(e, s)
                \/ \E m \in DirectMints : MintDirectly(e, m)
  BY <1>3, UnseenByEvent
<1>4. ASSUME NEW i \in PaymentIds, Refund(i)
      PROVE  Ev!Next
  <2> DEFINE e == payments[i].event
             u == owner[i]
  <2>1. e \in Events /\ u \in Users
    BY <1>4, StoredFields DEF Refund
  <2>2. \E keepsTicket \in BOOLEAN : Ev!RequestPostponementRefund(e, u, keepsTicket)
    BY <1>4, ZenonT(30) DEF Refund
  <2>3. Ev!AttendeeCall(e, u)
    BY <2>2 DEF Ev!AttendeeCall
  <2>4. QED
    BY <2>1, <2>3 DEF Ev!Next
<1>5. ASSUME NEW e \in Events,
             \/ \E offer \in Offers : OpenSale(e, offer)
             \/ \E change \in DetailChanges : ChangeDetails(e, change)
             \/ ChangeTiersOrStatus(e)
             \/ SetRules(e)
             \/ CallOff(e)
             \/ \E date \in NewDates, window \in ChoiceWindows : PutOff(e, date, window)
             \/ Reopen(e)
      PROVE  Ev!Next
  <2>1. CASE SetRules(e)
    BY <2>1 DEF Ev!Next, Ev!OrganizerCall, SetRules
  <2>2. CASE ~SetRules(e)
    <3>1. Ev!OrganizerCall(e)
      BY <1>5, <2>2 DEF Ev!OrganizerCall, OpenSale, ChangeDetails,
                        ChangeTiersOrStatus, CallOff, PutOff, Reopen
    <3>2. QED
      BY <3>1 DEF Ev!Next
  <2>3. QED
    BY <2>1, <2>2
<1>6. ASSUME NEW e \in Events, NEW u \in Users, NEW k \in DOMAIN tiers[e],
             NEW nonce \in Nonces,
             \/ Register(e, u, k, nonce)
             \/ \E n \in 1..MaxBatch : RegisterBatch(e, u, k, n, nonce)
      PROVE  Ev!Next
  <2>1. ASSUME NEW n \in 1..MaxBatch, RegisterBatch(e, u, k, n, nonce)
        PROVE  \E held \in 0..MaxBatch : Ev!BatchRegisterForEvent(e, u, k, n, held)
    <3>1. Ev!BatchRegisterForEvent(e, u, k, n, 0)
      BY <2>1, BatchAllowed DEF RegisterBatch
    <3>2. 0 \in 0..MaxBatch
      BY TicketAssumptions
    <3>3. QED
      BY <3>1, <3>2
  <2>2. Ev!AttendeeCall(e, u)
    BY <1>6, <2>1 DEF Ev!AttendeeCall, Register
  <2>3. QED
    BY <2>2 DEF Ev!Next
<1>7. ASSUME NEW e \in Events, NEW u \in Users, HoldSeat(e, u)
      PROVE  Ev!Next
  BY <1>7 DEF HoldSeat, Ev!Next, Ev!AttendeeCall
<1>8. ASSUME NEW e \in Events, NEW k \in DOMAIN tiers[e],
             \/ \E passport \in Passports : Attend(e, k, passport)
             \/ \E claim \in AnonymousClaims : ClaimSeat(e, k, claim)
      PROVE  Ev!Next
  <2>1. Ev!ProofCall(e)
    BY <1>8 DEF Ev!ProofCall, Attend, ClaimSeat
  <2>2. QED
    BY <2>1 DEF Ev!Next
<1>9. QED
  BY <1>1, <1>2, <1>3, <1>4, <1>5, <1>6, <1>7, <1>8 DEF BoxNext

\* A minting is one ticket or a batch, for the organizer the event names.
LEMMA Minting ==
  ASSUME PartsInv, NEW e \in Events, NEW u \in TicketHolders, NEW n \in 1..MaxBatch,
         event[e] # None, Mint(e, u, n)
  PROVE  Tix!Next
<1>1. event[e].terms.organizer \in TicketHolders
  BY StoredFields DEF TicketHolders
<1>2. Tix!BatchMintTicket(e, event[e].terms.organizer, u)
  BY DEF Mint, Tix!BatchMintTicket
<1>3. QED
  BY <1>1, <1>2 DEF Tix!Next

LEMMA TicketStep ==
  ASSUME PartsInv, BoxNext
  PROVE  Tix!Next \/ UNCHANGED ticketContractVars
<1>1. CASE LinkContracts
  BY <1>1 DEF LinkContracts, Tix!Next
<1>2. CASE TicketCall
  BY <1>2, ZenonT(60) DEF TicketCall, Tix!Next
<1>3. ASSUME NEW i \in PaymentIds, Refund(i)
      PROVE  Tix!Next
  <2>1. owner[i] \in Users
    BY <1>3, StoredFields DEF Refund
  <2>2. PICK j \in DOMAIN walletTickets[owner[i]] :
          Tix!CancelTicket(walletTickets[owner[i]][j])
    BY <1>3 DEF Refund
  <2>3. walletTickets[owner[i]][j] \in Tix!TicketIds
    BY <2>1, <2>2, StoredFields, ElementOfSeq
  <2>4. QED
    BY <2>2, <2>3 DEF Tix!Next
<1>4. ASSUME NEW e \in Events,
             \/ \E offer \in Offers : OpenSale(e, offer)
             \/ \E change \in DetailChanges : ChangeDetails(e, change)
             \/ ChangeTiersOrStatus(e)
             \/ SetRules(e)
             \/ CallOff(e)
             \/ \E date \in NewDates, window \in ChoiceWindows : PutOff(e, date, window)
             \/ Reopen(e)
             \/ PayOut(e)
             \/ \E s \in AdminStatuses : Override(e, s)
             \/ \E u \in Users : HoldSeat(e, u)
             \/ \E k \in DOMAIN tiers[e], claim \in AnonymousClaims :
                  ClaimSeat(e, k, claim)
      PROVE  UNCHANGED ticketContractVars
  BY <1>4 DEF OpenSale, ChangeDetails, ChangeTiersOrStatus, SetRules, CallOff, PutOff,
              Reopen, PayOut, Override, HoldSeat, ClaimSeat
<1>5. ASSUME NEW e \in Events, NEW u \in Users, NEW k \in DOMAIN tiers[e],
             NEW nonce \in Nonces, Register(e, u, k, nonce)
      PROVE  Tix!Next
  <2>1. event[e] # None
    BY <1>5 DEF Register, Ev!RegisterForEvent, Ev!MayRegister, Ev!InStatus
  <2>2. Tix!MintTicket(e, event[e].terms.organizer, u)
    BY <1>5 DEF Register, Mint, Tix!MintTicket
  <2>3. event[e].terms.organizer \in TicketHolders /\ u \in TicketHolders
    BY <2>1, StoredFields DEF TicketHolders
  <2>4. QED
    BY <2>2, <2>3 DEF Tix!Next
<1>6. ASSUME NEW e \in Events, NEW u \in Users, NEW k \in DOMAIN tiers[e],
             NEW nonce \in Nonces, NEW n \in 1..MaxBatch,
             RegisterBatch(e, u, k, n, nonce)
      PROVE  Tix!Next
  <2>1. event[e] # None
    BY <1>6 DEF RegisterBatch, Ev!BatchRegisterForEvent, Ev!MayRegister, Ev!InStatus
  <2>2. Mint(e, u, n) /\ u \in TicketHolders
    BY <1>6 DEF RegisterBatch, TicketHolders
  <2>3. QED
    BY <2>1, <2>2, Minting
<1>7. CASE PaymentsCall \/ SetVerifier \/ \E p \in PauseSwitch : Pause(p)
  BY <1>7 DEF PaymentsCall, SetVerifier, Pause
<1>8. CASE Tick /\ UNCHANGED <<eventContractVars, ticketContractVars>>
  BY <1>8
<1>9. ASSUME NEW e \in Events, NEW k \in DOMAIN tiers[e], NEW passport \in Passports,
             Attend(e, k, passport)
      PROVE  Tix!Next \/ UNCHANGED ticketContractVars
  <2>1. CASE ~linked
    BY <1>9, <2>1 DEF Attend
  <2>2. CASE linked
    <3>1. event[e] # None
      BY <1>9 DEF Attend, Ev!VerifyAndAttend, Ev!InStatus
    <3>2. Tix!MintTicket(e, event[e].terms.organizer, EventContractAddress)
      BY <1>9, <2>2 DEF Attend, Mint, Tix!MintTicket
    <3>3. event[e].terms.organizer \in TicketHolders
          /\ EventContractAddress \in TicketHolders
      BY <3>1, StoredFields DEF TicketHolders
    <3>4. QED
      BY <3>2, <3>3 DEF Tix!Next
  <2>3. QED
    BY <2>1, <2>2
<1>10. ASSUME NEW e \in Events, NEW m \in DirectMints, MintDirectly(e, m)
       PROVE  Tix!Next
  <2>1. /\ m.organizer \in TicketHolders /\ m.owner \in TicketHolders
        /\ m.count \in 1..MaxBatch
    BY MintAssumption DEF TicketHolders
  <2>2. Tix!BatchMintTicket(e, m.organizer, m.owner)
    BY <1>10, <2>1 DEF MintDirectly, Tix!BatchMintTicket
  <2>3. QED
    BY <2>1, <2>2 DEF Tix!Next
<1>11. QED
  BY <1>1, <1>2, <1>3, <1>4, <1>5, <1>6, <1>7, <1>8, <1>9, <1>10 DEF BoxNext


-----------------------------------------------------------------------------
(* The agreement of the event and the payments contract.                   *)

\* ContractsAgree of one event, and what keeps it so: the payments contract
\* is told of an event only by a linked event contract and is told to cancel it
\* only when it is cancelled there for good; and the terms are in its range.
Agrees(e) ==
  /\ EventPart!RoyaltyCapped(e)
  /\ config[e] # None =>
       /\ linked
       /\ event[e] # None
       /\ config[e].cancel_ledger # None => event[e].status = "Cancelled"
       /\ EventPart!ButSupply(config[e].terms) = EventPart!ButSupply(event[e].terms)
       /\ event[e].status = "Postponed" =>
            postponeDeadline[e] = postponement[e].choice_deadline_ledger

\* A step keeps the contracts agreed on e, and on its status if they are.
KeepsAgreed(e) == Agrees(e)' /\ (AgreeOnStatus(e) => AgreeOnStatus(e)')

BoxInv == PartsInv /\ \A e \in Events : Agrees(e)

LEMMA AgreementSeen == BoxInv => ContractsAgree
BY DEF BoxInv, Agrees, ContractsAgree, EventPart!ButSupply

LEMMA PaymentsStored ==
  ASSUME PartsInv
  PROVE  /\ config \in [Events -> EventConfig \cup {None}]
         /\ status \in [Events -> Statuses \cup {None}]
         /\ postponeDeadline \in [Events -> Nat \cup {None}]
         /\ None \notin EventConfig \cup Statuses
BY SameRecords, NoneAssumption
   DEF PartsInv, PaymentsPart!RecordsTypeOK, PaymentsPart!EventTypeOK

\* What the payments contract was told of event e stays as it is.
Carried(e) ==
  /\ status'[e] = status[e]
  /\ postponeDeadline'[e] = postponeDeadline[e]
  /\ config'[e] = None <=> config[e] = None
  /\ config[e] # None =>
       /\ config'[e].terms = config[e].terms
       /\ config'[e].cancel_ledger = config[e].cancel_ledger

LEMMA AgreesCarried ==
  ASSUME NEW e \in Events, Agrees(e), Carried(e), linked => linked',
         event'[e] = event[e], postponement'[e] = postponement[e]
  PROVE  KeepsAgreed(e)
BY DEF Agrees, Carried, EventPart!RoyaltyCapped, KeepsAgreed, AgreeOnStatus,
       Ev!InStatus

\* The calls that tell it nothing of an event.
LEMMA CallsCarry ==
  ASSUME PartsInv, NEW e \in Events
  PROVE  /\ \A p : CreatePayment(p) => Carried(e)
         /\ \A i : ClaimRefund(i) \/ RequestPostponementRefund(i) => Carried(e)
         /\ \A d : WithdrawRevenue(d) => Carried(e)
         /\ \A d, u : WithdrawSplit(d, u) \/ FlagCohost(d, u) => Carried(e)
         /\ \A p : SetPaused(p) => Carried(e)
         /\ Tick => Carried(e)
         /\ UNCHANGED paymentsVars => Carried(e)
<1>1. config \in [Events -> EventConfig \cup {None}] /\ None \notin EventConfig
  BY PaymentsStored
<1>2. ASSUME UNCHANGED <<config, status, postponeDeadline>> PROVE Carried(e)
  BY <1>2 DEF Carried
<1>3. ASSUME NEW d, config[d] # None, UNCHANGED <<status, postponeDeadline>>,
             \/ config' = [config EXCEPT ![d].sold_count = @ + 1]
             \/ config' = [config EXCEPT ![d].organizer_withdrawn = TRUE]
      PROVE  Carried(e)
  <2>1. CASE d # e
    <3>1. config'[e] = config[e]
      BY <1>1, <1>3, <2>1
    <3>2. QED
      BY <1>3, <3>1 DEF Carried
  <2>2. CASE d = e
    <3>1. config[e] \in EventConfig /\ config[e].sold_count + 1 \in Nat
      BY <1>1, <1>3, <2>2 DEF EventConfig
    <3>2. \/ config'[e] = [config[e] EXCEPT !.sold_count = @ + 1]
          \/ config'[e] = [config[e] EXCEPT !.organizer_withdrawn = TRUE]
      BY <1>1, <1>3, <2>2, ZenonT(30)
    <3>3. /\ config'[e] \in EventConfig
          /\ config'[e].terms = config[e].terms
          /\ config'[e].cancel_ledger = config[e].cancel_ledger
      BY <3>1, <3>2, ZenonT(30) DEF EventConfig
    <3>4. QED
      BY <1>1, <1>3, <2>2, <3>3 DEF Carried
  <2>3. QED
    BY <2>1, <2>2
<1>4. ASSUME NEW p, CreatePayment(p) PROVE Carried(e)
  BY <1>2, <1>3, <1>4, ZenonT(30) DEF CreatePayment
<1>5. ASSUME NEW d, WithdrawRevenue(d) PROVE Carried(e)
  BY <1>2, <1>3, <1>5, ZenonT(30) DEF WithdrawRevenue, Latch, PayoutFrame
<1>6. ASSUME NEW i, ClaimRefund(i) \/ RequestPostponementRefund(i) PROVE Carried(e)
  BY <1>2, <1>6 DEF ClaimRefund, RequestPostponementRefund, RefundFrame, eventVars
<1>7. ASSUME NEW d, NEW u, WithdrawSplit(d, u) \/ FlagCohost(d, u) PROVE Carried(e)
  BY <1>2, <1>7 DEF WithdrawSplit, FlagCohost, PayoutFrame, eventVars
<1>8. ASSUME Tick \/ UNCHANGED paymentsVars PROVE Carried(e)
  BY <1>2, <1>8 DEF Tick, paymentsVars, eventVars
<1>9. ASSUME NEW p, SetPaused(p) PROVE Carried(e)
  BY <1>2, <1>9 DEF SetPaused, eventVars
<1>10. QED
  BY <1>4, <1>5, <1>6, <1>7, <1>8, <1>9

\* What a sync leaves of a configuration.
LEMMA ConfigSynced ==
  ASSUME PartsInv, NEW e \in Events, NEW terms \in Terms, StoreConfig(e, terms)
  PROVE  /\ config'[e] # None
         /\ config'[e].terms = terms
         /\ config[e] = None => config'[e].cancel_ledger = None
         /\ config[e] # None => config'[e].cancel_ledger = config[e].cancel_ledger
         /\ \A d \in Events \ {e} : config'[d] = config[d]
<1>1. config \in [Events -> EventConfig \cup {None}] /\ None \notin EventConfig
  BY PaymentsStored
<1> DEFINE fresh ==
      [terms |-> terms, sold_count |-> 0, admin_delay_extension_ledgers |-> 0,
       cancel_ledger |-> None, withdrawable_ratio_bps |-> None,
       organizer_withdrawn |-> FALSE]
<1>2. CASE config[e] = None
  <2>1. config' = [config EXCEPT ![e] = fresh]
    BY <1>2 DEF StoreConfig
  <2>2. fresh \in EventConfig /\ fresh.terms = terms /\ fresh.cancel_ledger = None
    BY DEF EventConfig
  <2> HIDE DEF fresh
  <2>3. QED
    BY <1>1, <1>2, <2>1, <2>2
<1>3. CASE config[e] # None
  <2>1. config' = [config EXCEPT ![e] = [config[e] EXCEPT !.terms = terms]]
    BY <1>3 DEF StoreConfig
  <2>2. config[e] \in EventConfig
    BY <1>1, <1>3
  <2>3. /\ [config[e] EXCEPT !.terms = terms] \in EventConfig
        /\ [config[e] EXCEPT !.terms = terms].terms = terms
        /\ [config[e] EXCEPT !.terms = terms].cancel_ledger = config[e].cancel_ledger
    BY <2>2 DEF EventConfig
  <2>4. QED
    BY <1>1, <1>3, <2>1, <2>3
<1>4. QED
  BY <1>2, <1>3

\* What the event contract sends is what the payments contract can store.
LEMMA TermsSent ==
  ASSUME EventPart!EventInv', NEW e \in Events, Agrees(e), NEW s, EventPart!Written(e, s)
  PROVE  event'[e].terms \in Terms
<1>1. event' \in [Events -> EventPart!EventRecord \cup {None}]
  BY DEF EventPart!EventInv, EventPart!TypeOK
<1>2. event'[e].terms \in EventPart!EventTerms
  BY <1>1 DEF EventPart!Written, EventPart!EventRecord
<1>3. event'[e].terms.resale_royalty_bps <= 2000
  BY DEF EventPart!Written, Agrees
<1>4. event'[e].terms.resale_royalty_bps \in Bps
  <2>1. event'[e].terms.resale_royalty_bps \in Nat
    BY <1>2 DEF EventPart!EventTerms
  <2> DEFINE royalty == event'[e].terms.resale_royalty_bps
             cap == 2000
             whole == 10000
  <2>2. royalty \in Nat /\ royalty <= cap
    BY <1>3, <2>1
  <2>3. cap \in Nat /\ cap <= whole
    OBVIOUS
  <2>4. whole \in Nat
    OBVIOUS
  <2>5. Bps = 0..whole
    BY DEF Bps
  <2> HIDE DEF royalty, cap, whole
  <2>6. royalty \in 0..whole
    BY <2>2, <2>3, <2>4
  <2>7. royalty \in Bps
    BY <2>5, <2>6
  <2>8. QED
    BY <2>7 DEF royalty
<1>5. QED
  BY <1>2, <1>4 DEF EventPart!EventTerms, Terms


-----------------------------------------------------------------------------
(* Every transaction is a call of the payments contract that its own model *)
(* allows, or leaves it alone.                                             *)

PaymentsIdle == UNCHANGED <<now, paymentsVars>>

LEMMA IdlePayments == PaymentsIdle <=> UNCHANGED PaymentsPart!vars
BY DEF PaymentsIdle, paymentsVars, adminVars, eventVars, saleVars, ticketVars,
       disputeVars, bookVars, splitVars, PaymentsPart!vars, PaymentsPart!adminVars,
       PaymentsPart!eventVars, PaymentsPart!saleVars, PaymentsPart!ticketVars,
       PaymentsPart!disputeVars, PaymentsPart!bookVars, PaymentsPart!splitVars

\* No call about an event that is cancelled, since the event contract makes none.
LEMMA OpenUnlessCancelled ==
  ASSUME NEW e \in Events, Agrees(e), event[e] # None => event[e].status # "Cancelled"
  PROVE  PaymentsPart!OpenToEventContract(e)
BY DEF Agrees, PaymentsPart!OpenToEventContract

LEMMA PlansTold ==
  ASSUME BoxInv, EventPart!EventInv', NEW e \in Events
  PROVE  /\ \A offer \in Offers :
              OpenSale(e, offer) => PaymentsPart!EventContractCall(e) \/ PaymentsIdle
         /\ \A change \in DetailChanges :
              ChangeDetails(e, change) => PaymentsPart!EventContractCall(e) \/ PaymentsIdle
<1>1. PartsInv /\ Agrees(e)
  BY DEF BoxInv
<1>2. EventPart!EventInv
  BY <1>1 DEF PartsInv
<1>3. ASSUME NEW offer \in Offers, OpenSale(e, offer)
      PROVE  PaymentsPart!EventContractCall(e) \/ PaymentsIdle
  <2>1. EventPart!CreateEvent(e, offer)
    BY <1>3, SameEvent DEF OpenSale
  <2>2. event[e] = None /\ EventPart!Written(e, "Upcoming")
    BY <1>2, <2>1, EventPart!EventPlanned, EventAssumptions
  <2>3. PICK terms \in Terms : terms = event'[e].terms
    BY <1>1, <2>2, TermsSent
  <2>4. PICK rows : rows = offer.revenue_splits
    OBVIOUS
  <2>5. rows \in Seq(SplitRow)
    BY <2>4, EventAssumptions
       DEF EventPart!EventConstants, EventPart!CreateEventParams,
           EventPart!SplitParams, SplitRow
  <2>6. config[e] = None
    BY <1>1, <2>2 DEF Agrees
  <2>7. PaymentsPart!OpenToEventContract(e)
    BY <2>6 DEF PaymentsPart!OpenToEventContract
  <2>8. CASE linked
    <3>1. SyncNewEvent(e, terms, rows)
      BY <1>3, <2>3, <2>4, <2>8 DEF OpenSale, SyncNewEvent, StoreConfig, StoreSplits
    <3>2. PaymentsPart!SyncNewEvent(e, terms, rows)
      BY <3>1, SamePaymentsCalls
    <3>3. QED
      BY <2>3, <2>5, <2>6, <2>7, <3>2 DEF PaymentsPart!EventContractCall
  <2>9. CASE ~linked
    BY <1>3, <2>9 DEF OpenSale, PaymentsIdle, Ev!CreateEvent
  <2>10. QED
    BY <2>8, <2>9
<1>4. ASSUME NEW change \in DetailChanges, ChangeDetails(e, change)
      PROVE  PaymentsPart!EventContractCall(e) \/ PaymentsIdle
  <2>1. EventPart!UpdateEventDetails(e, change)
    BY <1>4, SameEvent DEF ChangeDetails
  <2>2. EventPart!InStatus(e, "Upcoming") /\ EventPart!Written(e, "Upcoming")
    BY <1>2, <2>1, EventPart!EventPlanned, EventAssumptions
  <2>3. PICK terms \in Terms : terms = event'[e].terms
    BY <1>1, <2>2, TermsSent
  <2>4. PaymentsPart!OpenToEventContract(e)
    BY <1>1, <2>2, OpenUnlessCancelled DEF EventPart!InStatus
  <2>5. CASE linked
    <3>1. SyncEventConfig(e, terms)
      BY <1>4, <2>3, <2>5 DEF ChangeDetails, SyncEventConfig, StoreConfig
    <3>2. PaymentsPart!SyncEventConfig(e, terms)
      BY <3>1, SamePaymentsCalls
    <3>3. QED
      BY <2>3, <2>4, <3>2 DEF PaymentsPart!EventContractCall
  <2>6. CASE ~linked
    BY <1>4, <2>6 DEF ChangeDetails, PaymentsIdle, Ev!UpdateEventDetails
  <2>7. QED
    BY <2>5, <2>6
<1>5. QED
  BY <1>3, <1>4

LEMMA MovesTold ==
  ASSUME BoxInv, EventPart!EventInv', NEW e \in Events
  PROVE  /\ CallOff(e) => PaymentsPart!EventContractCall(e) \/ PaymentsIdle
         /\ \A date \in NewDates, window \in ChoiceWindows :
              PutOff(e, date, window) => PaymentsPart!EventContractCall(e) \/ PaymentsIdle
         /\ Reopen(e) => PaymentsPart!EventContractCall(e) \/ PaymentsIdle
<1>1. PartsInv /\ Agrees(e)
  BY DEF BoxInv
<1>2. EventPart!EventInv
  BY <1>1 DEF PartsInv
<1>3. ASSUME CallOff(e)
      PROVE  PaymentsPart!EventContractCall(e) \/ PaymentsIdle
  <2>1. EventPart!CancelEvent(e)
    BY <1>3, SameEvent DEF CallOff
  <2>2. event[e].status # "Cancelled"
    BY <1>2, <2>1, EventPart!EventMovedOn, EventAssumptions
  <2>3. PaymentsPart!OpenToEventContract(e)
    BY <1>1, <2>2, OpenUnlessCancelled
  <2>4. CASE linked
    <3>1. PaymentsPart!CancelEvent(e)
      BY <1>3, <2>4, SamePaymentsCalls DEF CallOff
    <3>2. QED
      BY <2>3, <3>1 DEF PaymentsPart!EventContractCall
  <2>5. CASE ~linked
    BY <1>3, <2>5 DEF CallOff, PaymentsIdle, Ev!CancelEvent
  <2>6. QED
    BY <2>4, <2>5
<1>4. ASSUME NEW date \in NewDates, NEW window \in ChoiceWindows, PutOff(e, date, window)
      PROVE  PaymentsPart!EventContractCall(e) \/ PaymentsIdle
  <2>1. EventPart!PostponeEvent(e, date, window)
    BY <1>4, SameEvent DEF PutOff
  <2>2. EventPart!InStatus(e, "Active")
    BY <1>2, <2>1, EventPart!EventMovedOn, EventAssumptions
  <2>3. PaymentsPart!OpenToEventContract(e)
    BY <1>1, <2>2, OpenUnlessCancelled DEF EventPart!InStatus
  <2>4. now \in Nat /\ window \in Nat
    BY <1>2, EventAssumptions
       DEF EventPart!EventInv, EventPart!TypeOK, EventPart!EventConstants
  <2>5. PICK deadline \in Nat : deadline = now + window
    BY <2>4
  <2>6. CASE linked
    <3>1. PostponeEvent(e, deadline)
      BY <1>4, <2>5, <2>6 DEF PutOff, PostponeEvent
    <3>2. PaymentsPart!PostponeEvent(e, deadline)
      BY <3>1, SamePaymentsCalls
    <3>3. QED
      BY <2>3, <2>5, <3>2 DEF PaymentsPart!EventContractCall
  <2>7. CASE ~linked
    BY <1>4, <2>7 DEF PutOff, PaymentsIdle, Ev!PostponeEvent
  <2>8. QED
    BY <2>6, <2>7
<1>5. ASSUME Reopen(e)
      PROVE  PaymentsPart!EventContractCall(e) \/ PaymentsIdle
  <2>1. EventPart!FinalizePostponement(e)
    BY <1>5, SameEvent DEF Reopen
  <2>2. EventPart!InStatus(e, "Postponed") /\ EventPart!Written(e, "Active")
    BY <1>2, <2>1, EventPart!EventMovedOn, EventAssumptions
  <2>3. PICK terms \in Terms : terms = event'[e].terms
    BY <1>1, <2>2, TermsSent
  <2>4. PaymentsPart!OpenToEventContract(e)
    BY <1>1, <2>2, OpenUnlessCancelled DEF EventPart!InStatus
  <2>5. CASE linked
    <3>1. SyncAndResume(e, terms)
      BY <1>5, <2>3, <2>5 DEF Reopen, SyncAndResume, StoreConfig
    <3>2. PaymentsPart!SyncAndResume(e, terms)
      BY <3>1, SamePaymentsCalls
    <3>3. QED
      BY <2>3, <2>4, <3>2 DEF PaymentsPart!EventContractCall
  <2>6. CASE ~linked
    BY <1>5, <2>6 DEF Reopen, PaymentsIdle, Ev!FinalizePostponement
  <2>7. QED
    BY <2>5, <2>6
<1>6. QED
  BY <1>3, <1>4, <1>5

\* A price of the event contract is an amount the payments contract takes.
LEMMA TierPrice ==
  ASSUME PartsInv, NEW e \in Events, NEW k \in DOMAIN tiers[e]
  PROVE  /\ tiers[e][k].price \in Nat
         /\ \A n \in Nat \ {0} :
              tiers[e][k].price # 0 => tiers[e][k].price * n \in Nat \ {0}
<1>1. tiers[e] \in Seq(EventPart!Tier)
  BY DEF PartsInv, EventPart!EventInv, EventPart!TypeOK
<1>2. tiers[e][k] \in EventPart!Tier
  BY <1>1, ElementOfSeq
<1>3. tiers[e][k].price \in Nat
  BY <1>2 DEF EventPart!Tier
<1>4. ASSUME NEW n \in Nat \ {0}, NEW p \in Nat, p # 0 PROVE p * n \in Nat \ {0}
  BY <1>4
<1>5. QED
  BY <1>3, <1>4

\* A registration pays as pay_for_ticket does.
LEMMA PurchaseTold ==
  ASSUME PartsInv, NEW e \in Events, NEW u \in Users, NEW k \in DOMAIN tiers[e],
         NEW n \in Nat \ {0}, NEW nonce \in Nonces, Pay(e, u, k, n, nonce)
  PROVE  PaymentsPart!PayForTicket \/ UNCHANGED paymentsVars
<1>1. CASE tiers[e][k].price = 0
  BY <1>1 DEF Pay
<1>2. CASE tiers[e][k].price # 0
  <2>1. PICK a \in Nat \ {0} : a = tiers[e][k].price * n
    BY <1>2, TierPrice
  <2>2. PICK request : request =
          [payer |-> u, event |-> e, amount |-> a, token |-> AcceptedToken,
           nonce |-> nonce, level |-> "Standard", nullifier |-> None,
           commitment |-> None, is_anonymous |-> FALSE, is_verified |-> FALSE]
    BY ZenonT(30)
  <2>3. CreatePayment(request)
    BY <1>2, <2>1, <2>2 DEF Pay
  <2>4. PaymentsPart!CreatePayment(request)
    BY <2>3, SamePaymentsCalls
  <2>5. AcceptedToken \in Tokens
    BY ConstantsAssumption
  <2>6. QED
    BY <2>1, <2>2, <2>4, <2>5, ZenonT(30) DEF PaymentsPart!PayForTicket
<1>3. QED
  BY <1>1, <1>2


LEMMA PaymentsStep ==
  ASSUME BoxInv, EventPart!EventInv', BoxNext
  PROVE  PaymentsPart!Next \/ PaymentsIdle
<1>1. PartsInv
  BY DEF BoxInv
<1>2. CASE Tick /\ UNCHANGED <<eventContractVars, ticketContractVars>>
  BY <1>2, SamePaymentsCalls DEF PaymentsPart!Next
<1>3. CASE LinkContracts \/ SetVerifier
  BY <1>3 DEF LinkContracts, SetVerifier, PaymentsIdle, Ev!Initialize,
              Ev!SetAnonymousClaimVerifier
<1>4. CASE PaymentsCall
  <2>1. ASSUME PayForTicket PROVE PaymentsPart!PayForTicket
    <3>1. \A p : CreatePayment(p) = PaymentsPart!CreatePayment(p)
      BY SamePaymentsCalls
    <3>2. Amounts \subseteq Nat \ {0}
      BY ConstantsAssumption
    <3>3. QED
      BY <2>1, <3>1, <3>2, ZenonT(30) DEF PayForTicket, PaymentsPart!PayForTicket
  <2>2. ASSUME NEW i \in PaymentIds, ClaimRefund(i)
        PROVE  PaymentsPart!AttendeeCall
    <3>1. PaymentsPart!ClaimRefund(i) /\ i \in PaymentsPart!PaymentIds
      BY <2>2, SamePaymentsCalls DEF PaymentIds, PaymentsPart!PaymentIds
    <3>2. QED
      BY <3>1 DEF PaymentsPart!AttendeeCall
  <2>3. PaymentsPart!AttendeeCall
    BY <1>4, <2>1, <2>2 DEF PaymentsCall, PaymentsPart!AttendeeCall
  <2>4. QED
    BY <2>3 DEF PaymentsPart!Next
<1>5. CASE TicketCall \/ \E e \in Events, m \in DirectMints : MintDirectly(e, m)
  BY <1>5 DEF TicketCall, MintDirectly, PaymentsIdle
<1>6. ASSUME NEW i \in PaymentIds, Refund(i)
      PROVE  PaymentsPart!Next
  <2>1. PaymentsPart!RequestPostponementRefund(i) /\ i \in PaymentsPart!PaymentIds
    BY <1>6, SamePaymentsCalls DEF Refund, PaymentIds, PaymentsPart!PaymentIds
  <2>2. PaymentsPart!AttendeeCall
    BY <2>1 DEF PaymentsPart!AttendeeCall
  <2>3. QED
    BY <2>2 DEF PaymentsPart!Next
<1>7. ASSUME NEW e \in Events, NEW offer \in Offers, OpenSale(e, offer)
      PROVE  PaymentsPart!Next \/ PaymentsIdle
  BY <1>7, PlansTold DEF PaymentsPart!Next
<1>8. ASSUME NEW e \in Events, NEW change \in DetailChanges, ChangeDetails(e, change)
      PROVE  PaymentsPart!Next \/ PaymentsIdle
  BY <1>8, PlansTold DEF PaymentsPart!Next
<1>9. ASSUME NEW e \in Events, ChangeTiersOrStatus(e)
      PROVE  PaymentsIdle
  <2>1. UNCHANGED paymentsVars
    BY <1>9 DEF ChangeTiersOrStatus
  <2>2. UNCHANGED now
    BY <1>9, ZenonT(30) DEF ChangeTiersOrStatus, Ev!AddTicketTier, Ev!UpdateTier,
                Ev!UpdateEventStatus
  <2>3. QED
    BY <2>1, <2>2 DEF PaymentsIdle
<1>10. ASSUME NEW e \in Events, CallOff(e)
       PROVE  PaymentsPart!Next \/ PaymentsIdle
  BY <1>10, MovesTold DEF PaymentsPart!Next
<1>11. ASSUME NEW e \in Events, NEW date \in NewDates, NEW window \in ChoiceWindows,
              PutOff(e, date, window)
       PROVE  PaymentsPart!Next \/ PaymentsIdle
  BY <1>11, MovesTold DEF PaymentsPart!Next
<1>12. ASSUME NEW e \in Events, Reopen(e)
       PROVE  PaymentsPart!Next \/ PaymentsIdle
  BY <1>12, MovesTold DEF PaymentsPart!Next
<1>13. ASSUME NEW e \in Events, PayOut(e)
       PROVE  PaymentsPart!Next
  <2>1. CASE WithdrawRevenue(e)
    <3>1. PaymentsPart!WithdrawRevenue(e)
      BY <2>1, SamePaymentsCalls
    <3>2. PaymentsPart!AdminCall
      BY <3>1 DEF PaymentsPart!AdminCall
    <3>3. QED
      BY <3>2 DEF PaymentsPart!Next
  <2>2. ASSUME NEW u \in Users, WithdrawSplit(e, u) \/ FlagCohost(e, u)
        PROVE  PaymentsPart!Next
    <3>1. PaymentsPart!WithdrawSplit(e, u) \/ PaymentsPart!FlagCohost(e, u)
      BY <2>2, SamePaymentsCalls
    <3>2. PaymentsPart!PayoutCall
      BY <3>1 DEF PaymentsPart!PayoutCall
    <3>3. QED
      BY <3>2 DEF PaymentsPart!Next
  <2>3. QED
    BY <1>13, <2>1, <2>2 DEF PayOut
<1>14. ASSUME NEW e \in Events, NEW u \in Users, NEW k \in DOMAIN tiers[e],
              NEW nonce \in Nonces, NEW n \in Nat \ {0},
              Pay(e, u, k, n, nonce), UNCHANGED now
       PROVE  PaymentsPart!Next \/ PaymentsIdle
  <2>1. PaymentsPart!PayForTicket \/ UNCHANGED paymentsVars
    BY <1>1, <1>14, PurchaseTold
  <2>2. PaymentsPart!PayForTicket => PaymentsPart!Next
    BY DEF PaymentsPart!Next, PaymentsPart!AttendeeCall
  <2>3. QED
    BY <1>14, <2>1, <2>2 DEF PaymentsIdle
<1>15. ASSUME NEW e \in Events, NEW u \in Users, NEW k \in DOMAIN tiers[e],
              NEW nonce \in Nonces, Register(e, u, k, nonce)
       PROVE  PaymentsPart!Next \/ PaymentsIdle
  <2>1. UNCHANGED now /\ Pay(e, u, k, 1, nonce)
    BY <1>15 DEF Register, Ev!RegisterForEvent
  <2>2. QED
    BY <1>14, <2>1
<1>16. ASSUME NEW e \in Events, NEW u \in Users, NEW k \in DOMAIN tiers[e],
              NEW nonce \in Nonces, NEW n \in 1..MaxBatch,
              RegisterBatch(e, u, k, n, nonce)
       PROVE  PaymentsPart!Next \/ PaymentsIdle
  <2>1. UNCHANGED now /\ Pay(e, u, k, n, nonce)
    BY <1>16 DEF RegisterBatch, Ev!BatchRegisterForEvent
  <2>2. n \in Nat \ {0}
    BY TicketAssumptions DEF TicketPart!BoundsAssumption
  <2>3. QED
    BY <1>14, <2>1, <2>2
<1>17. ASSUME \/ \E e \in Events, s \in AdminStatuses : Override(e, s)
              \/ \E p \in PauseSwitch : Pause(p)
       PROVE  PaymentsPart!Next
  <2>1. PaymentsPart!AdminCall
    BY <1>17, SamePaymentsCalls DEF Override, Pause, PaymentsPart!AdminCall
  <2>2. QED
    BY <2>1 DEF PaymentsPart!Next
<1>18. ASSUME NEW e \in Events, SetRules(e)
       PROVE  PaymentsIdle
  BY <1>18 DEF SetRules, PaymentsIdle, Ev!SetEventPrivacy, Ev!SetClaimSettings,
               Ev!SetAnonClaimSettings, Ev!SetZkConfig
<1>19. ASSUME NEW e \in Events, NEW u \in Users, HoldSeat(e, u)
       PROVE  PaymentsIdle
  BY <1>19 DEF HoldSeat, PaymentsIdle, Ev!ReleaseExpiredReservation, Ev!ReserveTicket
<1>20. ASSUME NEW e \in Events, NEW k \in DOMAIN tiers[e],
              \/ \E passport \in Passports : Attend(e, k, passport)
              \/ \E claim \in AnonymousClaims : ClaimSeat(e, k, claim)
       PROVE  PaymentsIdle
  BY <1>20 DEF Attend, ClaimSeat, PaymentsIdle, Ev!VerifyAndAttend,
               Ev!ClaimAnonymousTicket
<1>21. QED
  BY <1>2, <1>3, <1>4, <1>5, <1>6, <1>7, <1>8, <1>9, <1>10, <1>11, <1>12, <1>13,
     <1>15, <1>16, <1>17, <1>18, <1>19, <1>20 DEF BoxNext


-----------------------------------------------------------------------------
(* The contracts go on agreeing.                                           *)

LEMMA PartsNext ==
  ASSUME BoxInv, BoxNext
  PROVE  PartsInv'
<1>1. PartsInv
  BY DEF BoxInv
<1>2. EventPart!EventInv'
  <2>1. EventPart!Next \/ UNCHANGED EventPart!vars
    BY <1>1, EventStep, SameEvent, IdleEvent
  <2>2. QED
    BY <1>1, <2>1, EventPart!EventInvNext, EventAssumptions DEF PartsInv
<1>3. TicketPart!RegistryInv'
  <2>1. TicketPart!Next \/ UNCHANGED TicketPart!vars
    BY <1>1, TicketStep, SameTicket, IdleTicket
  <2>2. QED
    BY <1>1, <2>1, TicketPart!RegistryInvNext, TicketAssumptions DEF PartsInv
<1>4. PaymentsPart!RecordsTypeOK'
  <2>1. PaymentsPart!Next \/ UNCHANGED PaymentsPart!vars
    BY <1>2, PaymentsStep, IdlePayments
  <2>2. QED
    BY <1>1, <2>1, PaymentsPart!NextTypes, PaymentsAssumptions DEF PartsInv
<1>5. QED
  BY <1>2, <1>3, <1>4 DEF PartsInv

\* No other event is touched by a call about event e.
LEMMA AgreesElsewhere ==
  ASSUME NEW e \in Events, NEW s, EventPart!Written(e, s), linked' = linked,
         NEW d \in Events \ {e}, Agrees(d), config'[d] = config[d],
         status'[d] = status[d], postponeDeadline'[d] = postponeDeadline[d]
  PROVE  KeepsAgreed(d)
<1>1. event'[d] = event[d] /\ postponement'[d] = postponement[d]
  BY DEF EventPart!Written
<1>2. Carried(d)
  BY DEF Carried
<1>3. QED
  BY <1>1, <1>2, AgreesCarried

\* Before the contracts are linked there is nothing to agree on.
LEMMA AgreesUnlinked ==
  ASSUME NEW e \in Events, NEW s, EventPart!Written(e, s), ~linked, linked' = linked,
         UNCHANGED paymentsVars, NEW d \in Events, Agrees(d), Agrees(e)
  PROVE  KeepsAgreed(d)
<1>1. UNCHANGED <<config, status, postponeDeadline>>
  BY DEF paymentsVars, eventVars
<1>2. CASE d # e
  BY <1>1, <1>2, AgreesElsewhere
<1>3. CASE d = e
  <2>1. config[e] = None /\ config'[e] = None /\ status'[e] = status[e]
    BY <1>1 DEF Agrees
  <2>2. EventPart!RoyaltyCapped(e)'
    BY DEF EventPart!Written, Agrees, EventPart!RoyaltyCapped
  <2>3. QED
    BY <1>3, <2>1, <2>2 DEF Agrees, KeepsAgreed, AgreeOnStatus
<1>4. QED
  BY <1>2, <1>3

\* A sync of an event that is neither cancelled nor postponed.
LEMMA AgreesSynced ==
  ASSUME PartsInv, NEW e \in Events, Agrees(e), linked,
         NEW s \in {"Upcoming", "Active"}, EventPart!Written(e, s), linked' = linked,
         NEW terms \in Terms, terms = event'[e].terms, StoreConfig(e, terms),
         config[e] # None => config[e].cancel_ledger = None,
         AgreeOnStatus(e) => status'[e] \notin {"Cancelled", "Postponed"}
  PROVE  KeepsAgreed(e)
<1>1. /\ config'[e] # None
      /\ config'[e].terms = event'[e].terms
      /\ config'[e].cancel_ledger = None
  BY ConfigSynced
<1>2. EventPart!RoyaltyCapped(e)'
  BY DEF EventPart!Written, Agrees, EventPart!RoyaltyCapped
<1>3. event'[e] # None /\ event'[e].status \notin {"Cancelled", "Postponed"}
  BY DEF EventPart!Written
<1>4. Agrees(e)'
  BY <1>1, <1>2, <1>3 DEF Agrees
<1>5. AgreeOnStatus(e) => AgreeOnStatus(e)'
  BY <1>1, <1>3 DEF AgreeOnStatus, Ev!InStatus
<1>6. QED
  BY <1>4, <1>5 DEF KeepsAgreed

LEMMA AgreesPlanned ==
  ASSUME BoxInv, EventPart!EventInv', NEW e \in Events, NEW d \in Events
  PROVE  /\ \A offer \in Offers : OpenSale(e, offer) => KeepsAgreed(d)
         /\ \A change \in DetailChanges : ChangeDetails(e, change) => KeepsAgreed(d)
<1>1. PartsInv /\ Agrees(e) /\ Agrees(d) /\ EventPart!EventInv
  BY DEF BoxInv, PartsInv
<1>2. /\ status \in [Events -> Statuses \cup {None}]
      /\ None \notin {"Cancelled", "Postponed"}
  BY <1>1, PaymentsStored DEF Statuses
<1>3. ASSUME NEW offer \in Offers, OpenSale(e, offer)
      PROVE  KeepsAgreed(d)
  <2>1. EventPart!CreateEvent(e, offer) /\ linked' = linked
    <3>1. Ev!CreateEvent(e, offer)
      BY <1>3 DEF OpenSale
    <3>2. linked' = linked
      BY <3>1 DEF Ev!CreateEvent, Ev!linkVars
    <3>3. QED
      BY <3>1, <3>2, SameEvent
  <2>2. event[e] = None /\ EventPart!Written(e, "Upcoming")
    BY <1>1, <2>1, EventPart!EventPlanned, EventAssumptions
  <2>3. CASE ~linked
    <3>1. UNCHANGED paymentsVars
      BY <1>3, <2>3 DEF OpenSale
    <3>2. QED
      BY <1>1, <2>1, <2>2, <2>3, <3>1, AgreesUnlinked
  <2>4. CASE linked
    <3>1. PICK terms \in Terms : terms = event'[e].terms
      BY <1>1, <2>2, TermsSent
    <3>2. StoreConfig(e, terms) /\ UNCHANGED <<status, postponeDeadline>>
      BY <1>3, <2>4, <3>1 DEF OpenSale, SyncNewEvent, StoreConfig
    <3>3. config[e] = None /\ (AgreeOnStatus(e) => status[e] = None)
      BY <1>1, <2>2 DEF Agrees, AgreeOnStatus
    <3>4. CASE d = e
      <4>1. KeepsAgreed(e)
        BY <1>1, <1>2, <2>1, <2>2, <2>4, <3>1, <3>2, <3>3, AgreesSynced
      <4>2. QED
        BY <3>4, <4>1
    <3>5. CASE d # e
      <4>1. config'[d] = config[d]
        BY <1>1, <3>2, <3>5, ConfigSynced
      <4>2. QED
        BY <1>1, <2>1, <2>2, <3>2, <3>5, <4>1, AgreesElsewhere
    <3>6. QED
      BY <3>4, <3>5
  <2>5. QED
    BY <2>3, <2>4
<1>4. ASSUME NEW change \in DetailChanges, ChangeDetails(e, change)
      PROVE  KeepsAgreed(d)
  <2>1. EventPart!UpdateEventDetails(e, change) /\ linked' = linked
    <3>1. Ev!UpdateEventDetails(e, change)
      BY <1>4 DEF ChangeDetails
    <3>2. linked' = linked
      BY <3>1 DEF Ev!UpdateEventDetails, Ev!linkVars
    <3>3. QED
      BY <3>1, <3>2, SameEvent
  <2>2. EventPart!InStatus(e, "Upcoming") /\ EventPart!Written(e, "Upcoming")
    BY <1>1, <2>1, EventPart!EventPlanned, EventAssumptions
  <2>3. CASE ~linked
    <3>1. UNCHANGED paymentsVars
      BY <1>4, <2>3 DEF ChangeDetails
    <3>2. QED
      BY <1>1, <2>1, <2>2, <2>3, <3>1, AgreesUnlinked
  <2>4. CASE linked
    <3>1. PICK terms \in Terms : terms = event'[e].terms
      BY <1>1, <2>2, TermsSent
    <3>2. StoreConfig(e, terms) /\ UNCHANGED <<status, postponeDeadline>>
      BY <1>4, <2>4, <3>1 DEF ChangeDetails, SyncEventConfig, StoreConfig
    <3>3. AgreeOnStatus(e) => status[e] \notin {"Cancelled", "Postponed"}
      BY <1>2, <2>2 DEF AgreeOnStatus, Ev!InStatus, EventPart!InStatus
    <3>4. config[e] # None => config[e].cancel_ledger = None
      BY <1>1, <2>2 DEF Agrees, EventPart!InStatus
    <3>5. CASE d = e
      <4>1. KeepsAgreed(e)
        BY <1>1, <2>1, <2>2, <2>4, <3>1, <3>2, <3>3, <3>4, AgreesSynced
      <4>2. QED
        BY <3>5, <4>1
    <3>6. CASE d # e
      <4>1. config'[d] = config[d]
        BY <1>1, <3>2, <3>6, ConfigSynced
      <4>2. QED
        BY <1>1, <2>1, <2>2, <3>2, <3>6, <4>1, AgreesElsewhere
    <3>7. QED
      BY <3>5, <3>6
  <2>5. QED
    BY <2>3, <2>4
<1>5. QED
  BY <1>3, <1>4


LEMMA AgreesCalledOff ==
  ASSUME BoxInv, EventPart!EventInv', NEW e \in Events, NEW d \in Events, CallOff(e)
  PROVE  KeepsAgreed(d)
<1>1. PartsInv /\ Agrees(e) /\ Agrees(d) /\ EventPart!EventInv
  BY DEF BoxInv, PartsInv
<1>2. EventPart!CancelEvent(e) /\ linked' = linked
  <2>1. Ev!CancelEvent(e)
    BY DEF CallOff
  <2>2. linked' = linked
    BY <2>1 DEF Ev!CancelEvent, Ev!linkVars
  <2>3. QED
    BY <2>1, <2>2, SameEvent
<1>3. /\ EventPart!Written(e, "Cancelled")
      /\ event'[e].terms = event[e].terms
  BY <1>1, <1>2, EventPart!EventMovedOn, EventAssumptions
<1>4. CASE ~linked
  <2>1. UNCHANGED paymentsVars
    BY <1>4 DEF CallOff
  <2>2. QED
    BY <1>1, <1>2, <1>3, <1>4, <2>1, AgreesUnlinked
<1>5. CASE linked
  <2> DEFINE ratio == CancellationRatio(config[e].terms)
  <2>1. /\ config[e] # None
        /\ config' = [config EXCEPT ![e].cancel_ledger = now,
                                    ![e].withdrawable_ratio_bps = ratio]
        /\ status' = [status EXCEPT ![e] = "Cancelled"]
        /\ postponeDeadline' = postponeDeadline
    BY <1>5 DEF CallOff, CancelEvent
  <2>2. /\ config \in [Events -> EventConfig \cup {None}]
        /\ status \in [Events -> Statuses \cup {None}]
        /\ None \notin EventConfig
    BY <1>1, PaymentsStored
  <2>3. config[e] \in EventConfig /\ config[e].terms \in Terms
    BY <2>1, <2>2 DEF EventConfig
  <2>4. now \in Nat
    BY <1>1 DEF EventPart!EventInv, EventPart!TypeOK
  <2>5. ratio \in Bps
    <3>1. PaymentsPart!CancellationRatio(config[e].terms) \in Bps
      BY <2>3, <2>4, PaymentsPart!RatioIsBps, PaymentsAssumptions, SameRecords
    <3>2. QED
      BY <3>1 DEF CancellationRatio, PaymentsPart!CancellationRatio
  <2> HIDE DEF ratio
  <2>6. config'[e] = [config[e] EXCEPT !.cancel_ledger = now,
                                       !.withdrawable_ratio_bps = ratio]
        /\ status'[e] = "Cancelled"
    BY <2>1, <2>2
  <2>7. config'[e] \in EventConfig /\ config'[e].terms = config[e].terms
    BY <2>3, <2>4, <2>5, <2>6, ZenonT(30) DEF EventConfig
  <2>8. CASE d = e
    <3>1. KeepsAgreed(e)
      <4>1. EventPart!RoyaltyCapped(e)'
        BY <1>1, <1>3 DEF EventPart!Written, Agrees, EventPart!RoyaltyCapped
      <4>2. event'[e] # None /\ event'[e].status = "Cancelled"
        BY <1>3 DEF EventPart!Written
      <4>3. EventPart!ButSupply(config'[e].terms) = EventPart!ButSupply(event'[e].terms)
        BY <1>1, <1>3, <2>1, <2>7 DEF Agrees
      <4>4. Agrees(e)'
        BY <1>2, <1>5, <2>2, <2>6, <2>7, <4>1, <4>2, <4>3 DEF Agrees
      <4>5. AgreeOnStatus(e)'
        BY <2>2, <2>6, <2>7, <4>2 DEF AgreeOnStatus, Ev!InStatus
      <4>6. QED
        BY <4>4, <4>5 DEF KeepsAgreed
    <3>2. QED
      BY <2>8, <3>1
  <2>9. CASE d # e
    <3>1. config'[d] = config[d] /\ status'[d] = status[d]
      BY <2>1, <2>2, <2>9
    <3>2. QED
      BY <1>1, <1>2, <1>3, <2>1, <2>9, <3>1, AgreesElsewhere, ZenonT(30)
  <2>10. QED
    BY <2>8, <2>9
<1>6. QED
  BY <1>4, <1>5

LEMMA AgreesPutOff ==
  ASSUME BoxInv, EventPart!EventInv', NEW e \in Events, NEW d \in Events,
         NEW date, NEW window, PutOff(e, date, window)
  PROVE  KeepsAgreed(d)
<1>1. PartsInv /\ Agrees(e) /\ Agrees(d) /\ EventPart!EventInv
  BY DEF BoxInv, PartsInv
<1>2. EventPart!PostponeEvent(e, date, window) /\ linked' = linked
  <2>1. Ev!PostponeEvent(e, date, window)
    BY DEF PutOff
  <2>2. linked' = linked
    BY <2>1 DEF Ev!PostponeEvent, Ev!linkVars
  <2>3. QED
    BY <2>1, <2>2, SameEvent
<1>3. /\ EventPart!InStatus(e, "Active")
      /\ EventPart!Written(e, "Postponed")
      /\ event'[e].terms = event[e].terms
      /\ postponement'[e].choice_deadline_ledger = now + window
  BY <1>1, <1>2, EventPart!EventMovedOn, EventAssumptions
<1>4. CASE ~linked
  <2>1. UNCHANGED paymentsVars
    BY <1>4 DEF PutOff
  <2>2. QED
    BY <1>1, <1>2, <1>3, <1>4, <2>1, AgreesUnlinked
<1>5. CASE linked
  <2>1. /\ config[e] # None
        /\ config' = config
        /\ status' = [status EXCEPT ![e] = "Postponed"]
        /\ postponeDeadline' = [postponeDeadline EXCEPT ![e] = now + window]
    BY <1>5 DEF PutOff, PostponeEvent
  <2>2. /\ status \in [Events -> Statuses \cup {None}]
        /\ postponeDeadline \in [Events -> Nat \cup {None}]
    BY <1>1, PaymentsStored
  <2>3. status'[e] = "Postponed" /\ postponeDeadline'[e] = now + window
    BY <2>1, <2>2
  <2>4. CASE d = e
    <3>1. KeepsAgreed(e)
      <4>1. EventPart!RoyaltyCapped(e)'
        BY <1>1, <1>3 DEF EventPart!Written, Agrees, EventPart!RoyaltyCapped
      <4>2. event'[e] # None /\ event'[e].status = "Postponed"
        BY <1>3 DEF EventPart!Written
      <4>3. EventPart!ButSupply(config'[e].terms) = EventPart!ButSupply(event'[e].terms)
        BY <1>1, <1>3, <2>1 DEF Agrees
      <4>4. config'[e].cancel_ledger = None
        BY <1>1, <1>3, <2>1 DEF Agrees, EventPart!InStatus
      <4>5. Agrees(e)'
        BY <1>2, <1>3, <1>5, <2>1, <2>3, <4>1, <4>2, <4>3, <4>4 DEF Agrees
      <4>6. AgreeOnStatus(e)'
        BY <2>1, <2>3, <4>2 DEF AgreeOnStatus, Ev!InStatus
      <4>7. QED
        BY <4>5, <4>6 DEF KeepsAgreed
    <3>2. QED
      BY <2>4, <3>1
  <2>5. CASE d # e
    <3>1. /\ config'[d] = config[d]
          /\ status'[d] = status[d]
          /\ postponeDeadline'[d] = postponeDeadline[d]
      BY <2>1, <2>2, <2>5
    <3>2. QED
      BY <1>1, <1>2, <1>3, <2>5, <3>1, AgreesElsewhere
  <2>6. QED
    BY <2>4, <2>5
<1>6. QED
  BY <1>4, <1>5

LEMMA AgreesReopened ==
  ASSUME BoxInv, EventPart!EventInv', NEW e \in Events, NEW d \in Events, Reopen(e)
  PROVE  KeepsAgreed(d)
<1>1. PartsInv /\ Agrees(e) /\ Agrees(d) /\ EventPart!EventInv
  BY DEF BoxInv, PartsInv
<1>2. EventPart!FinalizePostponement(e) /\ linked' = linked
  <2>1. Ev!FinalizePostponement(e)
    BY DEF Reopen
  <2>2. linked' = linked
    BY <2>1 DEF Ev!FinalizePostponement, Ev!linkVars
  <2>3. QED
    BY <2>1, <2>2, SameEvent
<1>3. EventPart!InStatus(e, "Postponed") /\ EventPart!Written(e, "Active")
  BY <1>1, <1>2, EventPart!EventMovedOn, EventAssumptions
<1>4. CASE ~linked
  <2>1. UNCHANGED paymentsVars
    BY <1>4 DEF Reopen
  <2>2. QED
    BY <1>1, <1>2, <1>3, <1>4, <2>1, AgreesUnlinked
<1>5. CASE linked
  <2>1. PICK terms \in Terms : terms = event'[e].terms
    BY <1>1, <1>3, TermsSent
  <2>2. StoreConfig(e, terms) /\ Reactivate(e)
    BY <1>5, <2>1 DEF Reopen, SyncAndResume, StoreConfig
  <2>3. /\ status \in [Events -> Statuses \cup {None}]
        /\ postponeDeadline \in [Events -> Nat \cup {None}]
    BY <1>1, PaymentsStored
  <2>4. /\ status'[e] = "Active"
        /\ \A f \in Events \ {e} :
             status'[f] = status[f] /\ postponeDeadline'[f] = postponeDeadline[f]
    BY <2>2, <2>3 DEF Reactivate
  <2>5. config[e] # None => config[e].cancel_ledger = None
    BY <1>1, <1>3 DEF Agrees, EventPart!InStatus
  <2>6. CASE d = e
    <3>1. KeepsAgreed(e)
      BY <1>1, <1>2, <1>3, <1>5, <2>1, <2>2, <2>4, <2>5, AgreesSynced
    <3>2. QED
      BY <2>6, <3>1
  <2>7. CASE d # e
    <3>1. config'[d] = config[d]
      BY <1>1, <2>2, <2>7, ConfigSynced
    <3>2. QED
      BY <1>1, <1>2, <1>3, <2>4, <2>7, <3>1, AgreesElsewhere
  <2>8. QED
    BY <2>6, <2>7
<1>6. QED
  BY <1>4, <1>5

\* The calls that the payments contract is not told of.
LEMMA AgreesUntold ==
  ASSUME BoxInv, NEW e \in Events, NEW d \in Events, ChangeTiersOrStatus(e)
  PROVE  KeepsAgreed(d)
<1>1. PartsInv /\ Agrees(e) /\ Agrees(d) /\ EventPart!EventInv
  BY DEF BoxInv, PartsInv
<1>2. UNCHANGED <<config, status, postponeDeadline>>
  BY DEF ChangeTiersOrStatus, paymentsVars, eventVars
<1>3. ASSUME NEW s \in {"Upcoming", "Active", "Completed"}, EventPart!Written(e, s),
             EventPart!InStatus(e, "Upcoming") \/ EventPart!InStatus(e, "Active"),
             EventPart!ButSupply(event'[e].terms) = EventPart!ButSupply(event[e].terms),
             linked' = linked
      PROVE  KeepsAgreed(d)
  <2>1. CASE d = e
    <3>1. EventPart!RoyaltyCapped(e)'
      BY <1>1, <1>3 DEF EventPart!Written, Agrees, EventPart!RoyaltyCapped
    <3>2. /\ event'[e] # None
          /\ event'[e].status \notin {"Cancelled", "Postponed"}
          /\ event[e].status \notin {"Cancelled", "Postponed"}
      BY <1>3 DEF EventPart!Written, EventPart!InStatus
    <3>3. KeepsAgreed(e)
      <4>1. Agrees(e)'
        BY <1>1, <1>2, <1>3, <3>1, <3>2 DEF Agrees
      <4>2. AgreeOnStatus(e) => AgreeOnStatus(e)'
        BY <1>2, <3>2 DEF AgreeOnStatus, Ev!InStatus
      <4>3. QED
        BY <4>1, <4>2 DEF KeepsAgreed
    <3>4. QED
      BY <2>1, <3>3
  <2>2. CASE d # e
    BY <1>1, <1>2, <1>3, <2>2, AgreesElsewhere
  <2>3. QED
    BY <2>1, <2>2
<1>4. ASSUME NEW t \in TierOffers,
             Ev!AddTicketTier(e, t) \/ (\E k \in DOMAIN tiers[e] : Ev!UpdateTier(e, k, t))
      PROVE  KeepsAgreed(d)
  <2>1. linked' = linked
    BY <1>4, ZenonT(30) DEF Ev!AddTicketTier, Ev!UpdateTier, Ev!linkVars
  <2>2. \/ EventPart!AddTicketTier(e, t)
        \/ \E k \in DOMAIN tiers[e] : EventPart!UpdateTier(e, k, t)
    BY <1>4, SameEvent
  <2>3. /\ EventPart!InStatus(e, "Upcoming") /\ EventPart!Written(e, "Upcoming")
        /\ EventPart!ButSupply(event'[e].terms) = EventPart!ButSupply(event[e].terms)
    BY <1>1, <2>2, EventPart!EventPlanned, EventAssumptions
  <2>4. QED
    BY <1>3, <2>1, <2>3
<1>5. ASSUME Ev!UpdateEventStatus(e)
      PROVE  KeepsAgreed(d)
  <2>1. linked' = linked
    BY <1>5 DEF Ev!UpdateEventStatus, Ev!linkVars
  <2>2. EventPart!UpdateEventStatus(e)
    BY <1>5, SameEvent
  <2>3. /\ EventPart!InStatus(e, "Upcoming") \/ EventPart!InStatus(e, "Active")
        /\ EventPart!Written(e, "Active") \/ EventPart!Written(e, "Completed")
        /\ event'[e].terms = event[e].terms
    BY <1>1, <2>2, EventPart!EventMovedOn, EventAssumptions
  <2>4. EventPart!ButSupply(event'[e].terms) = EventPart!ButSupply(event[e].terms)
    BY <2>3
  <2>5. QED
    BY <1>3, <2>1, <2>3, <2>4
<1>6. QED
  BY <1>4, <1>5 DEF ChangeTiersOrStatus

\* The calls that leave what the event contract stores of an event as it is.
LEMMA AgreesTraded ==
  ASSUME BoxInv, NEW d \in Events, Carried(d), linked => linked',
         UNCHANGED <<event, postponement>>
  PROVE  KeepsAgreed(d)
BY AgreesCarried DEF BoxInv


LEMMA AgreesStep ==
  ASSUME BoxInv, EventPart!EventInv', BoxNext, NEW d \in Events
  PROVE  /\ Agrees(d)'
         /\ AgreeOnStatus(d) =>
              AgreeOnStatus(d)' \/ \E s \in AdminStatuses : Override(d, s)
<1>1. PartsInv
  BY DEF BoxInv
<1>2. ASSUME Tick, UNCHANGED <<eventContractVars, ticketContractVars>>
      PROVE  KeepsAgreed(d)
  <2>1. UNCHANGED <<linked, event, postponement>>
    BY <1>2 DEF eventContractVars
  <2>2. Carried(d)
    BY <1>1, <1>2, CallsCarry
  <2>3. QED
    BY <2>1, <2>2, AgreesTraded
<1>3. ASSUME LinkContracts PROVE KeepsAgreed(d)
  <2>1. linked' /\ UNCHANGED <<event, postponement>>
    BY <1>3 DEF LinkContracts, Ev!Initialize, Ev!termVars, Ev!postponeVars
  <2>2. Carried(d)
    BY <1>1, <1>3, CallsCarry DEF LinkContracts
  <2>3. QED
    BY <2>1, <2>2, AgreesTraded
<1>4. ASSUME PaymentsCall PROVE KeepsAgreed(d)
  <2>1. UNCHANGED <<linked, event, postponement>>
    BY <1>4 DEF PaymentsCall, eventContractVars
  <2>2. PayForTicket => Carried(d)
    <3>1. \A p : CreatePayment(p) => Carried(d)
      BY <1>1, CallsCarry
    <3>2. QED
      BY <3>1 DEF PayForTicket
  <2>3. \A i : ClaimRefund(i) => Carried(d)
    BY <1>1, CallsCarry
  <2>4. Carried(d)
    BY <1>4, <2>2, <2>3 DEF PaymentsCall
  <2>5. QED
    BY <2>1, <2>4, AgreesTraded
<1>5. ASSUME TicketCall PROVE KeepsAgreed(d)
  <2>1. UNCHANGED <<linked, event, postponement>> /\ UNCHANGED paymentsVars
    BY <1>5 DEF TicketCall, eventContractVars
  <2>2. Carried(d)
    BY <1>1, <2>1, CallsCarry
  <2>3. QED
    BY <2>1, <2>2, AgreesTraded
<1>6. ASSUME NEW i \in PaymentIds, Refund(i)
      PROVE  KeepsAgreed(d)
  <2>1. PICK f, u, keepsTicket : Ev!RequestPostponementRefund(f, u, keepsTicket)
    BY <1>6 DEF Refund
  <2>2. UNCHANGED <<linked, event, postponement>>
    BY <2>1 DEF Ev!RequestPostponementRefund, Ev!linkVars, Ev!termVars, Ev!postponeVars
  <2>3. RequestPostponementRefund(i)
    BY <1>6 DEF Refund
  <2>4. Carried(d)
    BY <1>1, <2>3, CallsCarry
  <2>5. QED
    BY <2>2, <2>4, AgreesTraded
<1>7. ASSUME NEW e \in Events, PayOut(e)
      PROVE  KeepsAgreed(d)
  <2>1. UNCHANGED <<linked, event, postponement>>
    BY <1>7 DEF PayOut, eventContractVars
  <2>2. Carried(d)
    BY <1>1, <1>7, CallsCarry DEF PayOut
  <2>3. QED
    BY <2>1, <2>2, AgreesTraded
<1>8. ASSUME NEW e, NEW u, NEW k, NEW n, NEW nonce, Pay(e, u, k, n, nonce)
      PROVE  Carried(d)
  <2>1. (\E p : CreatePayment(p)) \/ UNCHANGED paymentsVars
    BY <1>8 DEF Pay
  <2>2. QED
    BY <1>1, <2>1, CallsCarry
<1>9. ASSUME NEW e, NEW u, NEW k, NEW nonce, Register(e, u, k, nonce)
      PROVE  KeepsAgreed(d)
  <2>1. UNCHANGED <<linked, event, postponement>>
    BY <1>9 DEF Register, Ev!RegisterForEvent, Ev!linkVars, Ev!termVars, Ev!postponeVars
  <2>2. Carried(d)
    BY <1>8, <1>9 DEF Register
  <2>3. QED
    BY <2>1, <2>2, AgreesTraded
<1>10. ASSUME NEW e, NEW u, NEW k, NEW nonce, NEW n, RegisterBatch(e, u, k, n, nonce)
       PROVE  KeepsAgreed(d)
  <2>1. Ev!BatchRegisterForEvent(e, u, k, n, TicketsListed(e, u))
    BY <1>10 DEF RegisterBatch
  <2>2. UNCHANGED <<linked, event, postponement>>
    BY <2>1 DEF Ev!BatchRegisterForEvent, Ev!linkVars, Ev!termVars, Ev!postponeVars
  <2>3. Carried(d)
    BY <1>8, <1>10 DEF RegisterBatch
  <2>4. QED
    BY <2>2, <2>3, AgreesTraded
<1>11. ASSUME NEW e \in Events, NEW offer \in Offers, OpenSale(e, offer)
       PROVE  KeepsAgreed(d)
  BY <1>11, AgreesPlanned
<1>12. ASSUME NEW e \in Events, NEW change \in DetailChanges, ChangeDetails(e, change)
       PROVE  KeepsAgreed(d)
  BY <1>12, AgreesPlanned
<1>13. ASSUME NEW e \in Events, ChangeTiersOrStatus(e)
       PROVE  KeepsAgreed(d)
  BY <1>13, AgreesUntold
<1>14. ASSUME NEW e \in Events, CallOff(e)
       PROVE  KeepsAgreed(d)
  BY <1>14, AgreesCalledOff
<1>15. ASSUME NEW e \in Events, NEW date, NEW window, PutOff(e, date, window)
       PROVE  KeepsAgreed(d)
  BY <1>15, AgreesPutOff
<1>16. ASSUME NEW e \in Events, Reopen(e)
       PROVE  KeepsAgreed(d)
  BY <1>16, AgreesReopened
<1>17. ASSUME SetVerifier PROVE KeepsAgreed(d)
  <2>1. UNCHANGED <<linked, event, postponement>> /\ UNCHANGED paymentsVars
    BY <1>17 DEF SetVerifier, Ev!SetAnonymousClaimVerifier, Ev!termVars,
                 Ev!postponeVars
  <2>2. Carried(d)
    BY <1>1, <2>1, CallsCarry
  <2>3. QED
    BY <2>1, <2>2, AgreesTraded
<1>18. ASSUME NEW p, Pause(p)
       PROVE  KeepsAgreed(d)
  <2>1. UNCHANGED <<linked, event, postponement>>
    BY <1>18 DEF Pause, eventContractVars
  <2>2. Carried(d)
    BY <1>1, <1>18, CallsCarry DEF Pause
  <2>3. QED
    BY <2>1, <2>2, AgreesTraded
<1>19. ASSUME NEW e \in Events, NEW m, MintDirectly(e, m)
       PROVE  KeepsAgreed(d)
  <2>1. UNCHANGED <<linked, event, postponement>> /\ UNCHANGED paymentsVars
    BY <1>19 DEF MintDirectly, eventContractVars
  <2>2. Carried(d)
    BY <1>1, <2>1, CallsCarry
  <2>3. QED
    BY <2>1, <2>2, AgreesTraded
<1>20. ASSUME NEW e \in Events, SetRules(e)
       PROVE  KeepsAgreed(d)
  <2>1. UNCHANGED <<linked, event, postponement>>
    BY <1>20 DEF SetRules, Ev!SetEventPrivacy, Ev!SetClaimSettings,
                 Ev!SetAnonClaimSettings, Ev!SetZkConfig, Ev!linkVars, Ev!termVars,
                 Ev!postponeVars
  <2>2. Carried(d)
    BY <1>1, <1>20, CallsCarry DEF SetRules
  <2>3. QED
    BY <2>1, <2>2, AgreesTraded
<1>21. ASSUME NEW e \in Events, NEW u, HoldSeat(e, u)
       PROVE  KeepsAgreed(d)
  <2>1. UNCHANGED <<linked, event, postponement>>
    BY <1>21 DEF HoldSeat, Ev!ReleaseExpiredReservation, Ev!ReserveTicket,
                 Ev!linkVars, Ev!termVars, Ev!postponeVars
  <2>2. Carried(d)
    BY <1>1, <1>21, CallsCarry DEF HoldSeat
  <2>3. QED
    BY <2>1, <2>2, AgreesTraded
<1>22. ASSUME NEW e \in Events, NEW k, NEW x, Attend(e, k, x) \/ ClaimSeat(e, k, x)
       PROVE  KeepsAgreed(d)
  <2>1. UNCHANGED <<linked, event, postponement>>
    BY <1>22 DEF Attend, ClaimSeat, Ev!VerifyAndAttend, Ev!ClaimAnonymousTicket,
                 Ev!linkVars, Ev!termVars, Ev!postponeVars
  <2>2. Carried(d)
    BY <1>1, <1>22, CallsCarry DEF Attend, ClaimSeat
  <2>3. QED
    BY <2>1, <2>2, AgreesTraded
<1>23. ASSUME NEW e \in Events, NEW s \in AdminStatuses, Override(e, s)
       PROVE  /\ Agrees(d)'
              /\ AgreeOnStatus(d) => AgreeOnStatus(d)' \/ Override(d, s)
  <2>1. UNCHANGED <<linked, event, postponement, config, postponeDeadline>>
    BY <1>23 DEF Override, SetEventStatus, eventContractVars
  <2>2. Agrees(d)'
    BY <2>1 DEF BoxInv, Agrees, EventPart!RoyaltyCapped
  <2>3. ASSUME d # e PROVE status'[d] = status[d]
    <3>1. /\ status \in [Events -> Statuses \cup {None}]
          /\ status' = [status EXCEPT ![e] = s]
      BY <1>1, <1>23, PaymentsStored DEF Override, SetEventStatus
    <3>2. QED
      BY <2>3, <3>1
  <2>4. d # e => (AgreeOnStatus(d) => AgreeOnStatus(d)')
    BY <2>1, <2>3 DEF AgreeOnStatus, Ev!InStatus
  <2>5. QED
    BY <1>23, <2>2, <2>4
<1>24. CASE \E e \in Events, s \in AdminStatuses : Override(e, s)
  BY <1>23, <1>24
<1>25. CASE KeepsAgreed(d)
  BY <1>25 DEF KeepsAgreed
<1>26. QED
  BY <1>2, <1>3, <1>4, <1>5, <1>6, <1>7, <1>9, <1>10, <1>11, <1>12, <1>13, <1>14,
     <1>15, <1>16, <1>17, <1>18, <1>19, <1>20, <1>21, <1>22, <1>24, <1>25 DEF BoxNext

LEMMA BoxIdle ==
  ASSUME UNCHANGED allVars
  PROVE  EventIdle /\ UNCHANGED ticketContractVars /\ PaymentsIdle
BY DEF allVars, EventIdle, PaymentsIdle

LEMMA BoxInvInit == BoxInit => BoxInv
<1> SUFFICES ASSUME BoxInit PROVE BoxInv
  OBVIOUS
<1>1. Ev!Init /\ Tix!Init /\ Init
  BY DEF BoxInit
<1>2. PartsInv
  <2>1. EventPart!EventInv
    BY <1>1, SameEvent, EventPart!EventInvInit, EventAssumptions
  <2>2. TicketPart!RegistryInv
    BY <1>1, SameTicket, TicketPart!RegistryInvInit, TicketAssumptions
  <2>3. PaymentsPart!RecordsTypeOK
    BY <1>1, SamePaymentsCalls, PaymentsPart!InitTypes, PaymentsAssumptions
  <2>4. QED
    BY <2>1, <2>2, <2>3 DEF PartsInv
<1>3. ASSUME NEW e \in Events PROVE Agrees(e)
  <2>1. event[e] = None
    BY <1>1 DEF Ev!Init
  <2>2. config[e] = None
    BY <1>1 DEF Init
  <2>3. QED
    BY <2>1, <2>2 DEF Agrees, EventPart!RoyaltyCapped
<1>4. QED
  BY <1>2, <1>3 DEF BoxInv

LEMMA BoxInvNext == BoxInv /\ [BoxNext]_allVars => BoxInv'
<1> SUFFICES ASSUME BoxInv, [BoxNext]_allVars PROVE BoxInv'
  OBVIOUS
<1>1. CASE BoxNext
  <2>1. PartsInv'
    BY <1>1, PartsNext
  <2>2. EventPart!EventInv'
    BY <2>1 DEF PartsInv
  <2>3. \A d \in Events : Agrees(d)'
    BY <1>1, <2>2, AgreesStep
  <2>4. QED
    BY <2>1, <2>3 DEF BoxInv
<1>2. CASE UNCHANGED allVars
  <2>1. EventIdle /\ UNCHANGED ticketContractVars /\ PaymentsIdle
    BY <1>2, BoxIdle
  <2>2. PartsInv'
    <3>1. EventPart!EventInv'
      BY <2>1, IdleEvent, EventPart!EventInvNext, EventAssumptions DEF BoxInv, PartsInv
    <3>2. TicketPart!RegistryInv'
      BY <2>1, IdleTicket, TicketPart!RegistryInvNext, TicketAssumptions
         DEF BoxInv, PartsInv
    <3>3. PaymentsPart!RecordsTypeOK'
      BY <2>1, IdlePayments, PaymentsPart!NextTypes, PaymentsAssumptions
         DEF BoxInv, PartsInv
    <3>4. QED
      BY <3>1, <3>2, <3>3 DEF PartsInv
  <2>3. ASSUME NEW d \in Events PROVE Agrees(d)'
    <3>1. UNCHANGED <<linked, event, postponement>>
      BY <2>1 DEF EventIdle, eventContractVars
    <3>2. Carried(d)
      BY <2>1, CallsCarry DEF PaymentsIdle, BoxInv
    <3>3. QED
      BY <3>1, <3>2, AgreesTraded DEF KeepsAgreed
  <2>4. QED
    BY <2>2, <2>3 DEF BoxInv
<1>3. QED
  BY <1>1, <1>2

LEMMA BoxInvariant == BoxSpec => []BoxInv
BY BoxInvInit, BoxInvNext, PTL DEF BoxSpec

\* Of every event the payments contract knows, the event contract has the same
\* terms and, while it is postponed, the same end of the refund window: each
\* lifecycle handler passes on what it wrote in the same transaction, and no
\* other call of the three contracts, the admin's set_event_status included,
\* changes those stores.
THEOREM ContractsStayAgreed == BoxSpec => []ContractsAgree
BY BoxInvariant, AgreementSeen, PTL

\* Two contracts that agree on whether an event is cancelled or postponed go on
\* agreeing through every postponement, resumption, cancellation, sync, pause
\* and late link, until the payments admin overrides the status there with
\* set_event_status.
THEOREM StatusesStayAgreed == BoxSpec => StatusesAgree
<1>1. BoxInv /\ BoxInv' /\ [BoxNext]_allVars =>
        [\A e \in Events : AgreeOnStatus(e) =>
           AgreeOnStatus(e)' \/ \E s \in AdminStatuses : Override(e, s)]_allVars
  <2>1. BoxInv' => EventPart!EventInv'
    BY DEF BoxInv, PartsInv
  <2>2. QED
    BY <2>1, AgreesStep
<1>2. QED
  BY <1>1, BoxInvariant, PTL DEF BoxSpec, StatusesAgree

-----------------------------------------------------------------------------
(* The composition implements each contract.                               *)

\* Seen from the event contract and from the ticket contract, every
\* transaction is one of its own calls: whatever was proved of register,
\* postpone or transfer alone holds when the contracts call each other.
THEOREM BoxRunsEventAndTicket == BoxSpec => Ev!Spec /\ Tix!Spec
<1>1. BoxInit => Ev!Init /\ Tix!Init
  BY DEF BoxInit
<1>2. BoxInv /\ [BoxNext]_allVars => [Ev!Next]_Ev!vars
  <2>1. EventIdle => UNCHANGED Ev!vars
    BY DEF EventIdle, eventContractVars, Ev!vars, Ev!linkVars, Ev!termVars,
           Ev!postponeVars, Ev!listVars, Ev!ruleVars, Ev!freeClaimVars, Ev!proofVars
  <2>2. QED
    BY <2>1, EventStep, BoxIdle DEF BoxInv
<1>3. BoxInv /\ [BoxNext]_allVars => [Tix!Next]_Tix!vars
  <2>1. UNCHANGED ticketContractVars => UNCHANGED Tix!vars
    BY DEF ticketContractVars, Tix!vars, Tix!linkVars, Tix!indexVars
  <2>2. QED
    BY <2>1, TicketStep, BoxIdle DEF BoxInv
<1>4. QED
  BY <1>1, <1>2, <1>3, BoxInvariant, PTL DEF BoxSpec, Ev!Spec, Tix!Spec

\* Every call the event contract makes to the payments contract is one the
\* model of the payments contract allows, for any amounts, terms, split tables
\* and deadlines: its conservation, refund and payout theorems are about the
\* calls it really receives.
THEOREM BoxRunsPayments == BoxSpec => PaymentsPart!Spec
<1>1. BoxInit => PaymentsPart!Init
  BY SamePaymentsCalls DEF BoxInit
<1>2. BoxInv /\ BoxInv' /\ [BoxNext]_allVars => [PaymentsPart!Next]_PaymentsPart!vars
  BY PaymentsStep, IdlePayments, BoxIdle DEF BoxInv, PartsInv
<1>3. QED
  BY <1>1, <1>2, BoxInvariant, PTL DEF BoxSpec, PaymentsPart!Spec



-----------------------------------------------------------------------------
(* Seats and tickets.                                                      *)

\* A registration sells the seats; no other call touches what was sold.
LEMMA SeatsBought ==
  ASSUME PartsInv, NEW e \in Events, NEW u \in Users, NEW k \in DOMAIN tiers[e],
         NEW n \in Nat, Ev!SellSeats(e, u, k, n)
  PROVE  /\ soldCount' = [soldCount EXCEPT ![e] = soldCount[e] + n]
         /\ \E sale \in EventPart!Tier :
              /\ sale.price = tiers[e][k].price
              /\ sale.sold = tiers[e][k].sold + n
              /\ tiers' = [tiers EXCEPT ![e][k] = sale]
<1>1. tiers[e] \in Seq(EventPart!Tier) /\ soldCount \in [Events -> Nat]
  BY DEF PartsInv, EventPart!EventInv, EventPart!TypeOK
<1>2. tiers[e][k] \in EventPart!Tier
  BY <1>1, ElementOfSeq
<1> DEFINE open == IF Ev!HasReservation(e, u) THEN Ev!Unreserve(tiers[e][k])
                   ELSE tiers[e][k]
           sale == [open EXCEPT !.sold = open.sold + n]
<1>3. /\ open \in EventPart!Tier
      /\ open.price = tiers[e][k].price /\ open.sold = tiers[e][k].sold
  BY <1>2 DEF Ev!Unreserve, EventPart!Tier
<1>4. /\ tiers' = [tiers EXCEPT ![e][k] = sale]
      /\ soldCount' = [soldCount EXCEPT ![e] = soldCount[e] + n]
  BY DEF Ev!SellSeats
<1> HIDE DEF open
<1>5. /\ sale \in EventPart!Tier
      /\ sale.price = tiers[e][k].price /\ sale.sold = tiers[e][k].sold + n
  BY <1>2, <1>3 DEF EventPart!Tier
<1> HIDE DEF sale
<1>6. QED
  BY <1>4, <1>5, ZenonT(30)

\* The seats without a ticket stay as many as they are.
SeatsSettled(d) == SeatsWithoutTicket(d)' = SeatsWithoutTicket(d)

\* The nullifiers of the anonymous claims on an event.
Claims(e) == {x \in Nullifiers : claimed[e][x] # None}

LEMMA SeatsCarried ==
  ASSUME NEW d, UNCHANGED <<soldCount, eventTickets, claimed>>
  PROVE  SeatsSettled(d)
BY DEF SeatsSettled, SeatsWithoutTicket

LEMMA SeatsTyped ==
  ASSUME PartsInv
  PROVE  /\ soldCount \in [Events -> Nat]
         /\ eventTickets \in [Events -> Seq(TicketPart!TicketIds)]
         /\ \A e \in Events : claimed[e] \in [Nullifiers -> Commitments \cup {None}]
         /\ \A e \in Events : IsFiniteSet(Claims(e)) /\ Cardinality(Claims(e)) \in Nat
<1>1. /\ soldCount \in [Events -> Nat]
      /\ eventTickets \in [Events -> Seq(TicketPart!TicketIds)]
      /\ claimed \in [Events -> [Nullifiers -> Commitments \cup {None}]]
  BY DEF PartsInv, EventPart!EventInv, EventPart!TypeOK, TicketPart!RegistryInv,
         TicketPart!TypeOK
<1>2. ASSUME NEW e \in Events
      PROVE  IsFiniteSet(Claims(e)) /\ Cardinality(Claims(e)) \in Nat
  <2>1. Claims(e) \subseteq Nullifiers
    BY DEF Claims
  <2>2. IsFiniteSet(Claims(e))
    BY <2>1, NullifierAssumption, FS_Subset
  <2>3. QED
    BY <2>2, FS_CardinalityType
<1>3. QED
  BY <1>1, <1>2

\* As many tickets are minted as seats are sold.
LEMMA SeatsMinted ==
  ASSUME PartsInv, NEW e \in Events, NEW u, NEW n \in Nat \ {0},
         soldCount' = [soldCount EXCEPT ![e] = soldCount[e] + n],
         UNCHANGED claimed, Mint(e, u, n), NEW d \in Events
  PROVE  SeatsSettled(d)
<1>1. /\ soldCount \in [Events -> Nat]
      /\ eventTickets \in [Events -> Seq(TicketPart!TicketIds)]
  BY SeatsTyped
<1> DEFINE appended == [l \in 1..n |-> nextTicketId + l - 1]
<1>2. eventTickets' = [eventTickets EXCEPT ![e] = @ \o appended]
  BY DEF Mint, Tix!MintTickets
<1>3. appended \in Seq(TicketPart!TicketIds) /\ Len(appended) = n
  <2>1. nextTicketId \in Nat
    BY DEF PartsInv, TicketPart!RegistryInv, TicketPart!TypeOK
  <2>2. nextTicketId..(nextTicketId + n - 1) \subseteq TicketPart!TicketIds
    BY DEF Mint, Tix!MintTickets, Tix!NewIds, Tix!TicketIds, TicketPart!TicketIds
  <2>3. \A l \in 1..n : appended[l] \in nextTicketId..(nextTicketId + n - 1)
    BY <2>1
  <2>4. \A l \in 1..n : appended[l] \in TicketPart!TicketIds
    BY <2>2, <2>3
  <2>5. appended = [l \in 1..n |-> appended[l]]
    OBVIOUS
  <2> HIDE DEF appended
  <2>6. QED
    BY <2>4, <2>5
<1> HIDE DEF appended
<1>4. /\ eventTickets[e] \in Seq(TicketPart!TicketIds)
      /\ eventTickets[d] \in Seq(TicketPart!TicketIds)
  BY <1>1
<1>5. Len(eventTickets[e] \o appended) = Len(eventTickets[e]) + n
  BY <1>3, <1>4, ConcatProperties, ZenonT(30)
<1>6. /\ Len(eventTickets[e]) \in Nat /\ Len(eventTickets[d]) \in Nat
      /\ soldCount[e] \in Nat /\ soldCount[d] \in Nat
  BY <1>1, <1>4, LenProperties
<1>7. soldCount'[d] - Len(eventTickets'[d]) = soldCount[d] - Len(eventTickets[d])
  <2>1. CASE d = e
    <3>1. Len(eventTickets'[d]) = Len(eventTickets[d]) + n
      BY <1>1, <1>2, <1>5, <2>1
    <3>2. soldCount'[d] = soldCount[d] + n
      BY <1>1, <2>1
    <3>3. QED
      BY <1>6, <3>1, <3>2
  <2>2. CASE d # e
    <3>1. eventTickets'[d] = eventTickets[d] /\ soldCount'[d] = soldCount[d]
      BY <1>1, <1>2, <2>2
    <3>2. QED
      BY <3>1
  <2>3. QED
    BY <2>1, <2>2
<1>8. soldCount'[d] \in Int /\ Len(eventTickets'[d]) \in Int
  <2>1. CASE d = e
    BY <1>1, <1>2, <1>5, <1>6, <2>1
  <2>2. CASE d # e
    BY <1>1, <1>2, <1>6, <2>2
  <2>3. QED
    BY <2>1, <2>2
<1>9. Claims(d)' = Claims(d) /\ Cardinality(Claims(d)) \in Nat
  BY SeatsTyped DEF Claims
<1>10. /\ SeatsWithoutTicket(d) =
            soldCount[d] - Cardinality(Claims(d)) - Len(eventTickets[d])
       /\ SeatsWithoutTicket(d)' =
            soldCount'[d] - Cardinality(Claims(d)') - Len(eventTickets'[d])
  BY DEF SeatsWithoutTicket, Claims
<1>11. SeatsWithoutTicket(d)' =
         soldCount'[d] - Cardinality(Claims(d)) - Len(eventTickets'[d])
  BY <1>9, <1>10
<1>12. QED
  <2> DEFINE c == Cardinality(Claims(d))
             l == Len(eventTickets[d])
             m == Len(eventTickets'[d])
  <2>1. /\ SeatsWithoutTicket(d) = soldCount[d] - c - l
        /\ SeatsWithoutTicket(d)' = soldCount'[d] - c - m
        /\ c \in Int /\ l \in Int /\ m \in Int
        /\ soldCount[d] \in Int /\ soldCount'[d] \in Int
        /\ soldCount'[d] - m = soldCount[d] - l
    BY <1>6, <1>7, <1>8, <1>9, <1>10, <1>11
  <2> HIDE DEF c, l, m
  <2>2. QED
    BY <2>1 DEF SeatsSettled

\* An anonymous claim is counted with its seat.
LEMMA SeatsClaimed ==
  ASSUME PartsInv, NEW e \in Events, NEW k \in DOMAIN tiers[e],
         NEW claim \in AnonymousClaims, ClaimSeat(e, k, claim), NEW d \in Events
  PROVE  SeatsSettled(d)
<1>1. /\ soldCount \in [Events -> Nat]
      /\ eventTickets \in [Events -> Seq(TicketPart!TicketIds)]
      /\ \A f \in Events : claimed[f] \in [Nullifiers -> Commitments \cup {None}]
      /\ claimed \in [Events -> [Nullifiers -> Commitments \cup {None}]]
      /\ IsFiniteSet(Claims(d)) /\ Cardinality(Claims(d)) \in Nat
  BY SeatsTyped DEF PartsInv, EventPart!EventInv, EventPart!TypeOK
<1>2. PICK x \in Nullifiers, c \in Commitments :
        /\ claimed[e][x] = None
        /\ claimed' = [claimed EXCEPT ![e][x] = c]
  <2>1. AnonymousClaims \subseteq EventPart!AnonymousTicketClaim
    BY EventAssumptions DEF EventPart!EventConstants
  <2>2. claim.nullifier \in Nullifiers /\ claim.ticket_commitment \in Commitments
    BY <2>1 DEF EventPart!AnonymousTicketClaim
  <2>3. QED
    BY <2>2 DEF ClaimSeat, Ev!ClaimAnonymousTicket
<1>3. c # None
  BY EventAssumptions DEF EventPart!EventConstants
<1>4. /\ soldCount' = [soldCount EXCEPT ![e] = soldCount[e] + 1]
      /\ UNCHANGED eventTickets
  BY DEF ClaimSeat, Ev!ClaimAnonymousTicket, Ev!SellToProof, ticketContractVars
<1>5. CASE d # e
  <2>1. /\ soldCount'[d] = soldCount[d] /\ claimed'[d] = claimed[d]
        /\ eventTickets'[d] = eventTickets[d]
    BY <1>1, <1>2, <1>4, <1>5
  <2>2. QED
    BY <2>1 DEF SeatsSettled, SeatsWithoutTicket
<1>6. CASE d = e
  <2>1. Claims(d)' = Claims(d) \cup {x} /\ x \notin Claims(d)
    <3>1. \A y \in Nullifiers : claimed'[d][y] = IF y = x THEN c ELSE claimed[d][y]
      BY <1>1, <1>2, <1>6
    <3>2. QED
      BY <1>2, <1>3, <1>6, <3>1 DEF Claims
  <2>2. Cardinality(Claims(d) \cup {x}) = Cardinality(Claims(d)) + 1
    BY <1>1, <2>1, FS_AddElement
  <2>3. soldCount'[d] = soldCount[d] + 1 /\ soldCount[d] \in Nat
    BY <1>1, <1>4, <1>6
  <2>4. Len(eventTickets[d]) \in Nat
    BY <1>1, LenProperties
  <2>5. /\ SeatsWithoutTicket(d) =
             soldCount[d] - Cardinality(Claims(d)) - Len(eventTickets[d])
        /\ SeatsWithoutTicket(d)' =
             soldCount'[d] - Cardinality(Claims(d)') - Len(eventTickets'[d])
    BY DEF SeatsWithoutTicket, Claims
  <2>6. /\ soldCount[d] \in Int /\ Cardinality(Claims(d)) \in Int
        /\ Len(eventTickets[d]) \in Int
    BY <1>1, <2>3, <2>4
  <2>7. PICK s \in Int, c0 \in Int, l \in Int :
          /\ s = soldCount[d] /\ c0 = Cardinality(Claims(d))
          /\ l = Len(eventTickets[d])
    BY <2>6
  <2>8. soldCount'[d] = s + 1
    BY <2>3, <2>7
  <2>9. Cardinality(Claims(d)') = c0 + 1
    BY <2>1, <2>2, <2>7
  <2>10. Len(eventTickets'[d]) = l
    BY <1>4, <2>7
  <2>11. SeatsWithoutTicket(d) = s - c0 - l
    BY <2>5, <2>7
  <2>12. SeatsWithoutTicket(d)' = (s + 1) - (c0 + 1) - l
    BY <2>5, <2>8, <2>9, <2>10
  <2>13. QED
    BY <2>11, <2>12 DEF SeatsSettled
<1>7. QED
  BY <1>5, <1>6

\* Of the linked contracts, those steps that sell a seat mint its ticket.
LEMMA SeatsStep ==
  ASSUME BoxInv, BoxNext, linked, eventContractSet, NEW d \in Events
  PROVE  SeatsSettled(d)
<1>1. PartsInv
  BY DEF BoxInv
<1> USE DEF Ev!proofVars
<1>2. CASE \/ Tick /\ UNCHANGED <<eventContractVars, ticketContractVars>>
           \/ PaymentsCall
           \/ \E p \in PauseSwitch : Pause(p)
           \/ \E e \in Events : PayOut(e)
           \/ \E e \in Events, s \in AdminStatuses : Override(e, s)
  <2>1. UNCHANGED <<soldCount, eventTickets, claimed>>
    BY <1>2 DEF PaymentsCall, Pause, PayOut, Override, eventContractVars,
                ticketContractVars
  <2>2. QED
    BY <2>1, SeatsCarried
<1>3. CASE LinkContracts
  <2>1. UNCHANGED <<soldCount, eventTickets, claimed>>
    BY <1>3 DEF LinkContracts, Ev!Initialize, Tix!SetEventContract, ticketContractVars
  <2>2. QED
    BY <2>1, SeatsCarried
<1>4. CASE SetVerifier
  <2>1. UNCHANGED <<soldCount, eventTickets, claimed>>
    BY <1>4 DEF SetVerifier, Ev!SetAnonymousClaimVerifier, ticketContractVars
  <2>2. QED
    BY <2>1, SeatsCarried
<1>5. CASE TicketCall
  <2>1. UNCHANGED <<soldCount, claimed>>
    BY <1>5 DEF TicketCall, eventContractVars
  <2>2. UNCHANGED eventTickets
    BY <1>5 DEF TicketCall, Tix!Initialize, Tix!SetEventContract, Tix!CancelTicket,
                Tix!UseTicket, Tix!SetRecoveryKey, Tix!TransferTicket, Tix!RecoverTicket
  <2>3. QED
    BY <2>1, <2>2, SeatsCarried
<1>6. ASSUME NEW i \in PaymentIds, Refund(i)
      PROVE  SeatsSettled(d)
  <2>1. PICK e, u, keepsTicket, t :
          Ev!RequestPostponementRefund(e, u, keepsTicket) /\ Tix!CancelTicket(t)
    BY <1>6 DEF Refund
  <2>2. UNCHANGED <<soldCount, eventTickets, claimed>>
    BY <2>1 DEF Ev!RequestPostponementRefund, Tix!CancelTicket
  <2>3. QED
    BY <2>2, SeatsCarried
<1>7. ASSUME NEW e \in Events, NEW offer \in Offers, OpenSale(e, offer)
      PROVE  SeatsSettled(d)
  <2>1. UNCHANGED <<soldCount, eventTickets, claimed>>
    BY <1>7 DEF OpenSale, Ev!CreateEvent, ticketContractVars
  <2>2. QED
    BY <2>1, SeatsCarried
<1>8. ASSUME NEW e \in Events, NEW change \in DetailChanges, ChangeDetails(e, change)
      PROVE  SeatsSettled(d)
  <2>1. UNCHANGED <<soldCount, eventTickets, claimed>>
    BY <1>8 DEF ChangeDetails, Ev!UpdateEventDetails, ticketContractVars
  <2>2. QED
    BY <2>1, SeatsCarried
<1>9. ASSUME NEW e \in Events, ChangeTiersOrStatus(e)
      PROVE  SeatsSettled(d)
  <2>1. UNCHANGED <<soldCount, claimed>>
    BY <1>9, ZenonT(30) DEF ChangeTiersOrStatus, Ev!AddTicketTier, Ev!UpdateTier,
                Ev!UpdateEventStatus
  <2>2. UNCHANGED eventTickets
    BY <1>9 DEF ChangeTiersOrStatus, ticketContractVars
  <2>3. QED
    BY <2>1, <2>2, SeatsCarried
<1>10. ASSUME NEW e \in Events, SetRules(e)
       PROVE  SeatsSettled(d)
  <2>1. UNCHANGED <<soldCount, eventTickets, claimed>>
    BY <1>10 DEF SetRules, Ev!SetEventPrivacy, Ev!SetClaimSettings,
                 Ev!SetAnonClaimSettings, Ev!SetZkConfig, ticketContractVars
  <2>2. QED
    BY <2>1, SeatsCarried
<1>11. ASSUME NEW e \in Events, CallOff(e) \/ Reopen(e)
       PROVE  SeatsSettled(d)
  <2>1. UNCHANGED <<soldCount, eventTickets, claimed>>
    BY <1>11 DEF CallOff, Reopen, Ev!CancelEvent, Ev!FinalizePostponement,
                 ticketContractVars
  <2>2. QED
    BY <2>1, SeatsCarried
<1>12. ASSUME NEW e \in Events, NEW date, NEW window, PutOff(e, date, window)
       PROVE  SeatsSettled(d)
  <2>1. UNCHANGED <<soldCount, eventTickets, claimed>>
    BY <1>12 DEF PutOff, Ev!PostponeEvent, ticketContractVars
  <2>2. QED
    BY <2>1, SeatsCarried
<1>13. ASSUME NEW e \in Events, NEW m, MintDirectly(e, m)
       PROVE  SeatsSettled(d)
  BY <1>13 DEF MintDirectly
<1>14. ASSUME NEW e \in Events, NEW u \in Users, HoldSeat(e, u)
       PROVE  SeatsSettled(d)
  <2>1. UNCHANGED <<soldCount, eventTickets, claimed>>
    BY <1>14 DEF HoldSeat, Ev!ReleaseExpiredReservation, Ev!ReserveTicket,
                 ticketContractVars
  <2>2. QED
    BY <2>1, SeatsCarried
<1>15. ASSUME NEW e \in Events, NEW k \in DOMAIN tiers[e], NEW passport \in Passports,
              Attend(e, k, passport)
       PROVE  SeatsSettled(d)
  <2>1. /\ soldCount' = [soldCount EXCEPT ![e] = soldCount[e] + 1]
        /\ UNCHANGED claimed
    BY <1>15 DEF Attend, Ev!VerifyAndAttend, Ev!SellToProof
  <2>2. Mint(e, EventContractAddress, 1)
    BY <1>15 DEF Attend
  <2>3. 1 \in Nat \ {0}
    OBVIOUS
  <2>4. QED
    BY <1>1, <2>1, <2>2, <2>3, SeatsMinted
<1>16. ASSUME NEW e \in Events, NEW k \in DOMAIN tiers[e], NEW claim \in AnonymousClaims,
              ClaimSeat(e, k, claim)
       PROVE  SeatsSettled(d)
  BY <1>1, <1>16, SeatsClaimed
<1>17. ASSUME NEW e \in Events, NEW u \in Users, NEW k \in DOMAIN tiers[e],
              NEW nonce \in Nonces, Register(e, u, k, nonce)
       PROVE  SeatsSettled(d)
  <2>1. Ev!SellSeats(e, u, k, 1) /\ Mint(e, u, 1) /\ UNCHANGED claimed
    BY <1>17 DEF Register, Ev!RegisterForEvent
  <2>2. 1 \in Nat \ {0}
    OBVIOUS
  <2>3. soldCount' = [soldCount EXCEPT ![e] = soldCount[e] + 1]
    BY <1>1, <2>1, SeatsBought
  <2>4. QED
    BY <1>1, <2>1, <2>2, <2>3, SeatsMinted
<1>18. ASSUME NEW e \in Events, NEW u \in Users, NEW k \in DOMAIN tiers[e],
              NEW nonce \in Nonces, NEW n \in 1..MaxBatch,
              RegisterBatch(e, u, k, n, nonce)
       PROVE  SeatsSettled(d)
  <2>1. Ev!SellSeats(e, u, k, n) /\ Mint(e, u, n) /\ UNCHANGED claimed
    BY <1>18 DEF RegisterBatch, Ev!BatchRegisterForEvent
  <2>2. n \in Nat \ {0}
    BY TicketAssumptions DEF TicketPart!BoundsAssumption
  <2>3. soldCount' = [soldCount EXCEPT ![e] = soldCount[e] + n]
    BY <1>1, <2>1, <2>2, SeatsBought
  <2>4. QED
    BY <1>1, <2>1, <2>2, <2>3, SeatsMinted
<1>19. QED
  BY <1>2, <1>3, <1>4, <1>5, <1>6, <1>7, <1>8, <1>9, <1>10, <1>11, <1>12, <1>13,
     <1>14, <1>15, <1>16, <1>17, <1>18 DEF BoxNext

\* Of linked contracts, every call that sells seats - register_for_event,
\* batch_register_for_event and verify_and_attend - mints as many tickets in
\* the same transaction, claim_anonymous_ticket records the nullifier of the
\* one seat it takes, and no other call of the three contracts sells a seat or
\* mints a ticket.
THEOREM SeatsKeepTickets == BoxSpec => SeatsHaveTickets
<1>1. BoxInv /\ [BoxNext]_allVars =>
        [\A e \in Events : linked /\ eventContractSet =>
           SeatsWithoutTicket(e)' = SeatsWithoutTicket(e)]_allVars
  BY SeatsStep DEF SeatsSettled
<1>2. QED
  BY <1>1, BoxInvariant, PTL DEF BoxSpec, SeatsHaveTickets


-----------------------------------------------------------------------------
(* Seats and money.                                                        *)

\* The price of what was sold, tier by tier.
Earned(ts) == SumFunction([k \in DOMAIN ts |-> ts[k].price * ts[k].sold])

LEMMA EarnedColumn ==
  ASSUME NEW ts \in Seq(EventPart!Tier)
  PROVE  /\ IsFiniteSet(DOMAIN ts)
         /\ [k \in DOMAIN ts |-> ts[k].price * ts[k].sold] \in [DOMAIN ts -> Int]
<1>1. DOMAIN ts = 1..Len(ts) /\ 1 \in Int /\ Len(ts) \in Int
  OBVIOUS
<1>2. IsFiniteSet(DOMAIN ts)
  BY <1>1, FS_Interval
<1>3. \A k \in DOMAIN ts : ts[k].price \in Nat /\ ts[k].sold \in Nat
  <2>1. \A k \in DOMAIN ts : ts[k] \in EventPart!Tier
    OBVIOUS
  <2>2. QED
    BY <2>1 DEF EventPart!Tier
<1>4. \A p \in Nat, s \in Nat : p * s \in Int
  OBVIOUS
<1>5. QED
  BY <1>2, <1>3, <1>4

LEMMA EarnedNothing ==
  ASSUME NEW ts \in Seq(EventPart!Tier), \A k \in DOMAIN ts : ts[k].sold = 0
  PROVE  Earned(ts) = 0
<1> DEFINE S == DOMAIN ts
           F == [k \in DOMAIN ts |-> ts[k].price * ts[k].sold]
<1>1. IsFiniteSet(S) /\ F \in [S -> Int]
  BY EarnedColumn
<1>2. \A k \in S : F[k] = 0
  <2>1. \A k \in DOMAIN ts : ts[k].price \in Nat
    <3>1. \A k \in DOMAIN ts : ts[k] \in EventPart!Tier
      OBVIOUS
    <3>2. QED
      BY <3>1 DEF EventPart!Tier
  <2>2. QED
    BY <2>1
<1>3. Earned(ts) = SumFunction(F)
  BY DEF Earned
<1> HIDE DEF S, F
<1>4. QED
  BY <1>1, <1>2, <1>3, SumOfZeros

LEMMA EarnedMore ==
  ASSUME NEW ts \in Seq(EventPart!Tier), NEW k \in DOMAIN ts, NEW n \in Nat,
         NEW sale \in EventPart!Tier, sale.price = ts[k].price,
         sale.sold = ts[k].sold + n
  PROVE  Earned([ts EXCEPT ![k] = sale]) = Earned(ts) + ts[k].price * n
<1> DEFINE us == [ts EXCEPT ![k] = sale]
           S == DOMAIN ts
           F == [l \in DOMAIN ts |-> ts[l].price * ts[l].sold]
           G == [l \in DOMAIN us |-> us[l].price * us[l].sold]
<1>1. us \in Seq(EventPart!Tier) /\ DOMAIN us = S
  OBVIOUS
<1>2. IsFiniteSet(S) /\ F \in [S -> Int]
  BY EarnedColumn
<1>3. us[k] = sale /\ \A l \in S \ {k} : us[l] = ts[l]
  OBVIOUS
<1> HIDE DEF us
<1>4. G \in [S -> Int]
  BY <1>1, EarnedColumn
<1>5. \A l \in S \ {k} : F[l] = G[l]
  BY <1>1, <1>3
<1>6. k \in S /\ F[k] = ts[k].price * ts[k].sold /\ G[k] = sale.price * sale.sold
  BY <1>1, <1>3
<1>7. Earned(ts) = SumFunction(F) /\ Earned(us) = SumFunction(G)
  BY DEF Earned
<1> HIDE DEF S, F, G
<1>8. SumFunction(G) = SumFunction(F) + (G[k] - F[k])
  BY <1>2, <1>4, <1>5, <1>6, SumChanged, ZenonT(30)
<1>9. SumFunction(F) \in Int
  BY <1>2, SumType
<1>10. G[k] - F[k] = ts[k].price * n
  <2>1. ts[k] \in EventPart!Tier
    BY ElementOfSeq
  <2>2. ts[k].price \in Nat /\ ts[k].sold \in Nat
    BY <2>1 DEF EventPart!Tier
  <2>3. ASSUME NEW p \in Nat, NEW s \in Nat PROVE p * (s + n) - p * s = p * n
    OBVIOUS
  <2>4. ts[k].price * (ts[k].sold + n) - ts[k].price * ts[k].sold = ts[k].price * n
    BY <2>2, <2>3
  <2>5. QED
    BY <1>6, <2>4
<1>11. Earned(us) = Earned(ts) + ts[k].price * n
  BY <1>7, <1>8, <1>9, <1>10
<1>12. QED
  BY <1>11 DEF us

\* Tiers that differ in neither price nor sales have earned the same.
LEMMA EarnedSame ==
  ASSUME NEW ts, NEW us, DOMAIN us = DOMAIN ts,
         \A k \in DOMAIN ts : us[k].price = ts[k].price /\ us[k].sold = ts[k].sold
  PROVE  Earned(us) = Earned(ts)
<1>1. [k \in DOMAIN us |-> us[k].price * us[k].sold]
        = [k \in DOMAIN ts |-> ts[k].price * ts[k].sold]
  OBVIOUS
<1>2. QED
  BY <1>1 DEF Earned

LEMMA EarnedCounted ==
  ASSUME NEW ts \in Seq(EventPart!Tier)
  PROVE  Earned(ts) \in Int
BY EarnedColumn, SumType DEF Earned

\* What the seats cost beyond what is booked does not grow.
StaysCovered(d) == Uncovered(d)' <= Uncovered(d)

LEMMA UncoveredSeen ==
  /\ \A e : Uncovered(e) = Earned(tiers[e]) - totalVolume[e][AcceptedToken]
  /\ \A e : Uncovered(e)' = Earned(tiers'[e]) - totalVolume'[e][AcceptedToken]
BY DEF Uncovered, Earned

\* The volume a step leaves on the books is never less.
LEMMA VolumeKept ==
  /\ \A i : ClaimRefund(i) \/ RequestPostponementRefund(i) => UNCHANGED totalVolume
  /\ \A e : PayOut(e) => UNCHANGED totalVolume
  /\ \A e, terms : SyncEventConfig(e, terms) => UNCHANGED totalVolume
  /\ \A e, terms, rows : SyncNewEvent(e, terms, rows) => UNCHANGED totalVolume
  /\ \A e, terms : SyncAndResume(e, terms) => UNCHANGED totalVolume
  /\ \A e : CancelEvent(e) => UNCHANGED totalVolume
  /\ \A e, d : PostponeEvent(e, d) => UNCHANGED totalVolume
  /\ Tick \/ UNCHANGED paymentsVars => UNCHANGED totalVolume
<1>1. \A i : ClaimRefund(i) \/ RequestPostponementRefund(i) => UNCHANGED totalVolume
  BY DEF ClaimRefund, RequestPostponementRefund, RefundFromRevenue, BookRefund
<1>2. \A e : PayOut(e) => UNCHANGED totalVolume
  <2>1. \A e : WithdrawRevenue(e) => UNCHANGED totalVolume
    BY DEF WithdrawRevenue, PayoutFrame
  <2>2. \A e, u : WithdrawSplit(e, u) => UNCHANGED totalVolume
    BY DEF WithdrawSplit, PayoutFrame
  <2>3. \A e, u : FlagCohost(e, u) => UNCHANGED totalVolume
    BY DEF FlagCohost, bookVars
  <2>4. QED
    BY <2>1, <2>2, <2>3 DEF PayOut
<1>3. AdministrationFrame => UNCHANGED totalVolume
  BY DEF AdministrationFrame, bookVars
<1>4. QED
  BY <1>1, <1>2, <1>3
     DEF SyncEventConfig, SyncNewEvent, SyncAndResume, CancelEvent, PostponeEvent, Tick,
         paymentsVars, bookVars


\* A purchase books its amount on its event and takes nothing off any other.
LEMMA VolumeBought ==
  ASSUME totalVolume \in [Events -> [Tokens -> Nat]], NEW p, CreatePayment(p),
         p.event \in Events, p.token \in Tokens, p.amount \in Nat
  PROVE  /\ totalVolume'[p.event][p.token] = totalVolume[p.event][p.token] + p.amount
         /\ \A d \in Events, t \in Tokens : totalVolume[d][t] <= totalVolume'[d][t]
<1>1. totalVolume' = [totalVolume EXCEPT ![p.event][p.token] = @ + p.amount]
  BY DEF CreatePayment
<1>2. totalVolume'[p.event][p.token] = totalVolume[p.event][p.token] + p.amount
  BY <1>1
<1>3. ASSUME NEW d \in Events, NEW t \in Tokens
      PROVE  totalVolume[d][t] <= totalVolume'[d][t]
  <2>1. totalVolume[d][t] \in Nat
    OBVIOUS
  <2>2. CASE d = p.event /\ t = p.token
    BY <1>2, <2>1, <2>2
  <2>3. CASE ~(d = p.event /\ t = p.token)
    <3>1. totalVolume'[d][t] = totalVolume[d][t]
      BY <1>1, <2>3
    <3>2. QED
      BY <2>1, <3>1
  <2>4. QED
    BY <2>2, <2>3
<1>4. QED
  BY <1>2, <1>3

\* The event has at least as much booked as before, and its seats cost as much.
LEMMA PaidCarried ==
  ASSUME totalVolume \in [Events -> [Tokens -> Nat]],
         totalVolume' \in [Events -> [Tokens -> Nat]],
         EventPart!EventInv, NEW d \in Events,
         Earned(tiers'[d]) = Earned(tiers[d]),
         totalVolume[d][AcceptedToken] <= totalVolume'[d][AcceptedToken]
  PROVE  StaysCovered(d)
<1>1. PICK ts : ts = tiers[d]
  OBVIOUS
<1>2. ts \in Seq(EventPart!Tier)
  BY <1>1 DEF EventPart!EventInv, EventPart!TypeOK
<1>3. Earned(ts) \in Int
  BY <1>2, EarnedCounted
<1>4. AcceptedToken \in Tokens
  BY ConstantsAssumption
<1>5. totalVolume[d][AcceptedToken] \in Int /\ totalVolume'[d][AcceptedToken] \in Int
  BY <1>4
<1>6. /\ Uncovered(d) = Earned(ts) - totalVolume[d][AcceptedToken]
      /\ Uncovered(d)' = Earned(ts) - totalVolume'[d][AcceptedToken]
  BY <1>1, UncoveredSeen
<1>7. QED
  BY <1>3, <1>5, <1>6 DEF StaysCovered

\* Before sales open nothing is owed, whatever the tiers.
LEMMA PaidUnopened ==
  ASSUME totalVolume \in [Events -> [Tokens -> Nat]],
         totalVolume' \in [Events -> [Tokens -> Nat]],
         EventPart!EventInv, EventPart!EventInv', NEW d \in Events,
         EventPart!Unopened(d), EventPart!Written(d, "Upcoming"),
         UNCHANGED totalVolume
  PROVE  StaysCovered(d)
<1>1. PICK ts, us : ts = tiers[d] /\ us = tiers'[d]
  OBVIOUS
<1>2. ts \in Seq(EventPart!Tier) /\ us \in Seq(EventPart!Tier)
  BY <1>1 DEF EventPart!EventInv, EventPart!TypeOK
<1>3. EventPart!Unopened(d)'
  BY DEF EventPart!Written, EventPart!Unopened, EventPart!InStatus
<1>4. EventPart!SeatsOf(d) /\ EventPart!SeatsOf(d)'
  BY DEF EventPart!EventInv, EventPart!SeatsInv
<1>5. /\ \A k \in DOMAIN ts : ts[k].sold = 0
      /\ \A k \in DOMAIN us : us[k].sold = 0
  BY <1>1, <1>3, <1>4 DEF EventPart!SeatsOf
<1>6. Earned(ts) = 0 /\ Earned(us) = 0
  BY <1>2, <1>5, EarnedNothing
<1>7. Earned(tiers'[d]) = Earned(tiers[d])
  BY <1>1, <1>6
<1>8. totalVolume[d][AcceptedToken] <= totalVolume'[d][AcceptedToken]
  <2>1. totalVolume[d][AcceptedToken] \in Nat
    BY ConstantsAssumption
  <2>2. QED
    BY <2>1
<1>9. QED
  BY <1>7, <1>8, PaidCarried

\* A registration books the price of the seats it sells.
LEMMA PaidSold ==
  ASSUME BoxInv, totalVolume \in [Events -> [Tokens -> Nat]],
         totalVolume' \in [Events -> [Tokens -> Nat]],
         NEW e \in Events, NEW u \in Users, NEW k \in DOMAIN tiers[e],
         NEW n \in Nat \ {0}, NEW nonce \in Nonces,
         Ev!SellSeats(e, u, k, n), Pay(e, u, k, n, nonce), NEW d \in Events
  PROVE  StaysCovered(d)
<1>1. PartsInv /\ EventPart!EventInv /\ AcceptedToken \in Tokens
  BY ConstantsAssumption DEF BoxInv, PartsInv
<1>2. tiers \in [Events -> Seq(EventPart!Tier)]
  BY <1>1 DEF EventPart!EventInv, EventPart!TypeOK
<1>3. PICK sale \in EventPart!Tier :
        /\ sale.price = tiers[e][k].price
        /\ sale.sold = tiers[e][k].sold + n
        /\ tiers' = [tiers EXCEPT ![e][k] = sale]
  BY <1>1, SeatsBought
<1>4. tiers[e][k].price \in Nat
  BY <1>1, TierPrice
<1>5. PICK a : a = tiers[e][k].price * n
  OBVIOUS
<1>6. a \in Nat
  BY <1>4, <1>5
<1>7. /\ totalVolume'[e][AcceptedToken] = totalVolume[e][AcceptedToken] + a
      /\ \A f \in Events :
           totalVolume[f][AcceptedToken] <= totalVolume'[f][AcceptedToken]
  <2>1. CASE tiers[e][k].price = 0
    <3>1. a = 0
      BY <1>5, <2>1
    <3>2. totalVolume' = totalVolume
      BY <2>1 DEF Pay, paymentsVars, bookVars
    <3>3. \A f \in Events : totalVolume[f][AcceptedToken] \in Nat
      BY <1>1
    <3>4. QED
      BY <3>1, <3>2, <3>3
  <2>2. CASE tiers[e][k].price # 0
    <3>1. PICK request : request =
            [payer |-> u, event |-> e, amount |-> a, token |-> AcceptedToken,
             nonce |-> nonce, level |-> "Standard", nullifier |-> None,
             commitment |-> None, is_anonymous |-> FALSE, is_verified |-> FALSE]
      BY ZenonT(30)
    <3>2. CreatePayment(request)
      BY <1>5, <2>2, <3>1 DEF Pay
    <3>3. /\ request.event = e /\ request.token = AcceptedToken
          /\ request.amount = a
      BY <3>1
    <3>4. QED
      BY <1>1, <1>6, <3>2, <3>3, VolumeBought, ZenonT(30)
  <2>3. QED
    BY <2>1, <2>2
<1>8. CASE d # e
  <2>1. tiers'[d] = tiers[d]
    BY <1>2, <1>3, <1>8
  <2>2. QED
    BY <1>1, <1>7, <2>1, PaidCarried
<1>9. CASE d = e
  <2>1. PICK ts : ts = tiers[e]
    OBVIOUS
  <2>2. ts \in Seq(EventPart!Tier) /\ k \in DOMAIN ts
    BY <1>2, <2>1
  <2>3. Earned([ts EXCEPT ![k] = sale]) = Earned(ts) + ts[k].price * n
    BY <1>3, <2>1, <2>2, EarnedMore
  <2>4. tiers'[e] = [ts EXCEPT ![k] = sale]
    BY <1>2, <1>3, <2>1
  <2>5. Earned(ts) \in Int
    BY <2>2, EarnedCounted
  <2>6. PICK us : us = [ts EXCEPT ![k] = sale]
    BY ZenonT(30)
  <2>7. Earned(us) = Earned(ts) + a
    BY <1>5, <2>1, <2>3, <2>6
  <2>8. totalVolume[e][AcceptedToken] \in Int
    BY <1>1
  <2>9. us = tiers'[e]
    BY <2>4, <2>6
  <2>10. /\ Uncovered(d) = Earned(ts) - totalVolume[e][AcceptedToken]
         /\ Uncovered(d)' = Earned(us) - totalVolume'[e][AcceptedToken]
    BY <1>9, <2>1, <2>9, UncoveredSeen
  <2>11. QED
    BY <1>6, <1>7, <2>5, <2>7, <2>8, <2>10 DEF StaysCovered
<1>10. QED
  BY <1>8, <1>9

\* A seat of a free tier costs nothing.
LEMMA PaidFree ==
  ASSUME totalVolume \in [Events -> [Tokens -> Nat]],
         totalVolume' \in [Events -> [Tokens -> Nat]], EventPart!EventInv,
         NEW e \in Events, NEW k \in DOMAIN tiers[e], Ev!SellToProof(e, k),
         tiers[e][k].price = 0, UNCHANGED totalVolume, NEW d \in Events
  PROVE  StaysCovered(d)
<1>1. tiers \in [Events -> Seq(EventPart!Tier)]
  BY DEF EventPart!EventInv, EventPart!TypeOK
<1>2. totalVolume[d][AcceptedToken] <= totalVolume'[d][AcceptedToken]
  <2>1. totalVolume[d][AcceptedToken] \in Nat
    BY ConstantsAssumption
  <2>2. QED
    BY <2>1
<1>3. CASE d # e
  <2>1. tiers'[d] = tiers[d]
    BY <1>1, <1>3 DEF Ev!SellToProof
  <2>2. QED
    BY <1>2, <2>1, PaidCarried
<1>4. CASE d = e
  <2>1. PICK ts : ts = tiers[e]
    OBVIOUS
  <2>2. ts \in Seq(EventPart!Tier) /\ k \in DOMAIN ts /\ ts[k] \in EventPart!Tier
    BY <1>1, <2>1, ElementOfSeq
  <2>3. PICK sale : sale = [ts[k] EXCEPT !.sold = ts[k].sold + 1]
    OBVIOUS
  <2>4. /\ sale \in EventPart!Tier
        /\ sale.price = ts[k].price /\ sale.sold = ts[k].sold + 1
    <3>1. PICK t \in EventPart!Tier : t = ts[k]
      BY <2>2
    <3>2. sale = [t EXCEPT !.sold = t.sold + 1]
      BY <2>3, <3>1
    <3>3. sale \in EventPart!Tier /\ sale.price = t.price /\ sale.sold = t.sold + 1
      BY <3>2 DEF EventPart!Tier
    <3>4. QED
      BY <3>1, <3>3
  <2>5. tiers'[e] = [ts EXCEPT ![k] = sale]
    BY <1>1, <2>1, <2>3 DEF Ev!SellToProof
  <2>6. 1 \in Nat /\ ts[k].price = 0
    BY <2>1
  <2>7. Earned([ts EXCEPT ![k] = sale]) = Earned(ts) + ts[k].price * 1
    BY <2>2, <2>4, <2>6, EarnedMore
  <2>8. Earned(ts) \in Int
    BY <2>2, EarnedCounted
  <2>9. Earned([ts EXCEPT ![k] = sale]) = Earned(ts)
    BY <2>6, <2>7, <2>8
  <2>10. PICK us : us = [ts EXCEPT ![k] = sale]
    BY ZenonT(30)
  <2>11. Earned(us) = Earned(ts) /\ us = tiers'[d] /\ ts = tiers[d]
    BY <1>4, <2>1, <2>5, <2>9, <2>10
  <2>12. QED
    BY <1>2, <2>11, PaidCarried
<1>5. QED
  BY <1>3, <1>4

\* Reserving a seat, or freeing it, sells none and reprices none.
LEMMA PaidHeld ==
  ASSUME EventPart!EventInv, NEW e \in Events, NEW u \in Users, HoldSeat(e, u),
         NEW d \in Events
  PROVE  Earned(tiers'[d]) = Earned(tiers[d])
<1> DEFINE Alike(us, ts) ==
      /\ DOMAIN us = DOMAIN ts
      /\ \A k \in DOMAIN ts : /\ us[k] \in EventPart!Tier
                              /\ us[k].price = ts[k].price
                              /\ us[k].sold = ts[k].sold
<1>1. tiers \in [Events -> Seq(EventPart!Tier)]
  BY DEF EventPart!EventInv, EventPart!TypeOK
<1>2. tiers[e] \in Seq(EventPart!Tier) /\ \A k \in DOMAIN tiers[e] :
        tiers[e][k] \in EventPart!Tier
  BY <1>1, ElementOfSeq
<1>3. Alike(tiers[e], tiers[e])
  BY <1>2
<1>4. Alike(Ev!Freed(e, u), tiers[e])
  <2>1. \A t \in EventPart!Tier :
          /\ Ev!Unreserve(t) \in EventPart!Tier
          /\ Ev!Unreserve(t).price = t.price /\ Ev!Unreserve(t).sold = t.sold
    BY DEF Ev!Unreserve, EventPart!Tier
  <2>2. PICK k : k = reservation[e][u].tier
    OBVIOUS
  <2>3. Ev!Freed(e, u) = [tiers[e] EXCEPT ![k] = Ev!Unreserve(tiers[e][k])]
    BY <2>2 DEF Ev!Freed
  <2>4. /\ DOMAIN Ev!Freed(e, u) = DOMAIN tiers[e]
        /\ \A l \in DOMAIN tiers[e] :
             \/ Ev!Freed(e, u)[l] = tiers[e][l]
             \/ Ev!Freed(e, u)[l] = Ev!Unreserve(tiers[e][l])
    BY <1>2, <2>3
  <2>5. QED
    BY <1>2, <2>1, <2>4
<1>5. ASSUME NEW k \in DOMAIN tiers[e], Ev!ReserveTicket(e, u, k)
      PROVE  Alike(tiers'[e], tiers[e])
  <2>1. PICK open : /\ open = IF Ev!HasReservation(e, u) THEN Ev!Freed(e, u) ELSE tiers[e]
                    /\ tiers' = [tiers EXCEPT ![e] = [open EXCEPT ![k].reserved = @ + 1]]
    BY <1>5 DEF Ev!ReserveTicket
  <2>2. Alike(open, tiers[e])
    BY <1>3, <1>4, <2>1
  <2>3. PICK held : held = [open[k] EXCEPT !.reserved = @ + 1]
    OBVIOUS
  <2>4. open[k] \in EventPart!Tier
    BY <2>2
  <2>5. /\ held \in EventPart!Tier
        /\ held.price = open[k].price /\ held.sold = open[k].sold
    BY <2>3, <2>4 DEF EventPart!Tier
  <2>6. tiers'[e] = [open EXCEPT ![k] = held]
    BY <1>1, <2>1, <2>3
  <2>7. /\ DOMAIN tiers'[e] = DOMAIN open
        /\ \A l \in DOMAIN open :
             tiers'[e][l] = IF l = k THEN held ELSE open[l]
    BY <2>6
  <2>8. QED
    BY <2>2, <2>5, <2>7
<1>6. Alike(tiers'[e], tiers[e])
  <2>1. ASSUME Ev!ReleaseExpiredReservation(e, u) PROVE tiers'[e] = Ev!Freed(e, u)
    BY <1>1, <2>1 DEF Ev!ReleaseExpiredReservation
  <2>2. QED
    BY <1>4, <1>5, <2>1 DEF HoldSeat
<1>7. d # e => tiers'[d] = tiers[d]
  BY <1>1 DEF HoldSeat, Ev!ReleaseExpiredReservation, Ev!ReserveTicket
<1>8. Earned(tiers'[e]) = Earned(tiers[e])
  BY <1>6, EarnedSame
<1>9. QED
  BY <1>7, <1>8

LEMMA PaidStep ==
  ASSUME BoxInv, BoxInv', BoxNext, linked,
         totalVolume \in [Events -> [Tokens -> Nat]],
         totalVolume' \in [Events -> [Tokens -> Nat]], NEW d \in Events
  PROVE  StaysCovered(d)
<1>1. /\ PartsInv /\ EventPart!EventInv /\ EventPart!EventInv'
      /\ AcceptedToken \in Tokens
  BY ConstantsAssumption DEF BoxInv, PartsInv
<1>2. ASSUME Earned(tiers'[d]) = Earned(tiers[d]), UNCHANGED totalVolume
      PROVE  StaysCovered(d)
  <2>1. totalVolume[d][AcceptedToken] \in Nat
    BY <1>1
  <2>2. totalVolume[d][AcceptedToken] <= totalVolume'[d][AcceptedToken]
    BY <1>2, <2>1
  <2>3. QED
    BY <1>1, <1>2, <2>2, PaidCarried
<1>3. ASSUME NEW e \in Events, EventPart!Unopened(e), EventPart!Written(e, "Upcoming"),
             UNCHANGED totalVolume, \A f \in Events \ {e} : tiers'[f] = tiers[f]
      PROVE  StaysCovered(d)
  <2>1. CASE d = e
    BY <1>1, <1>3, <2>1, PaidUnopened
  <2>2. CASE d # e
    BY <1>2, <1>3, <2>2
  <2>3. QED
    BY <2>1, <2>2
<1>4. tiers \in [Events -> Seq(EventPart!Tier)]
  BY <1>1 DEF EventPart!EventInv, EventPart!TypeOK
<1>5. CASE Tick /\ UNCHANGED <<eventContractVars, ticketContractVars>>
  <2>1. UNCHANGED totalVolume /\ tiers' = tiers
    BY <1>5, VolumeKept DEF eventContractVars
  <2>2. QED
    BY <1>2, <2>1
<1>6. CASE LinkContracts \/ SetVerifier \/ TicketCall
  <2>1. UNCHANGED totalVolume
    BY <1>6, VolumeKept DEF LinkContracts, SetVerifier, TicketCall
  <2>2. tiers' = tiers
    BY <1>6 DEF LinkContracts, SetVerifier, Ev!Initialize,
                Ev!SetAnonymousClaimVerifier, TicketCall, eventContractVars
  <2>3. QED
    BY <1>2, <2>1, <2>2
<1>7. CASE PaymentsCall
  <2>1. tiers' = tiers
    BY <1>7 DEF PaymentsCall, eventContractVars
  <2>2. CASE \E i \in PaymentIds : ClaimRefund(i)
    BY <1>2, <2>1, <2>2, VolumeKept
  <2>3. CASE PayForTicket
    <3>1. PICK p : /\ CreatePayment(p)
                   /\ p.event \in Events /\ p.token \in Tokens /\ p.amount \in Amounts
      BY <2>3 DEF PayForTicket
    <3>2. p.amount \in Nat
      BY <3>1, ConstantsAssumption, ZenonT(30)
    <3>3. totalVolume[d][AcceptedToken] <= totalVolume'[d][AcceptedToken]
      BY <1>1, <3>1, <3>2, VolumeBought
    <3>4. QED
      BY <1>1, <2>1, <3>3, PaidCarried
  <2>4. QED
    BY <1>7, <2>2, <2>3 DEF PaymentsCall
<1>8. ASSUME NEW i \in PaymentIds, Refund(i)
      PROVE  StaysCovered(d)
  <2>1. PICK e, u, keepsTicket : Ev!RequestPostponementRefund(e, u, keepsTicket)
    BY <1>8 DEF Refund
  <2>2. tiers' = tiers
    BY <2>1 DEF Ev!RequestPostponementRefund
  <2>3. RequestPostponementRefund(i)
    BY <1>8 DEF Refund
  <2>4. QED
    BY <1>2, <2>2, <2>3, VolumeKept
<1>9. ASSUME NEW e \in Events, NEW offer \in Offers, OpenSale(e, offer)
      PROVE  StaysCovered(d)
  <2>1. Ev!CreateEvent(e, offer)
    BY <1>9 DEF OpenSale
  <2>2. EventPart!CreateEvent(e, offer)
    BY <2>1, SameEvent
  <2>3. EventPart!Unopened(e) /\ EventPart!Written(e, "Upcoming")
    BY <1>1, <2>2, EventPart!EventPlanned, EventAssumptions DEF EventPart!Unopened
  <2>4. \A f \in Events \ {e} : tiers'[f] = tiers[f]
    BY <1>4, <2>1 DEF Ev!CreateEvent
  <2>5. AdministrationFrame
    BY <1>9 DEF OpenSale, SyncNewEvent
  <2>6. UNCHANGED totalVolume
    BY <2>5 DEF AdministrationFrame, bookVars
  <2>7. QED
    BY <1>3, <2>3, <2>4, <2>6
<1>10. ASSUME NEW e \in Events, NEW change \in DetailChanges, ChangeDetails(e, change)
       PROVE  StaysCovered(d)
  <2>1. tiers' = tiers
    BY <1>10 DEF ChangeDetails, Ev!UpdateEventDetails
  <2>2. AdministrationFrame
    BY <1>10 DEF ChangeDetails, SyncEventConfig
  <2>3. UNCHANGED totalVolume
    BY <2>2 DEF AdministrationFrame, bookVars
  <2>4. QED
    BY <1>2, <2>1, <2>3
<1>11. ASSUME NEW e \in Events, ChangeTiersOrStatus(e)
       PROVE  StaysCovered(d)
  <2>1. UNCHANGED totalVolume
    BY <1>11, VolumeKept DEF ChangeTiersOrStatus
  <2>2. ASSUME NEW t \in TierOffers, Ev!AddTicketTier(e, t)
        PROVE  StaysCovered(d)
    <3>1. EventPart!AddTicketTier(e, t)
      BY <2>2, SameEvent
    <3>2. EventPart!Unopened(e) /\ EventPart!Written(e, "Upcoming")
      BY <1>1, <3>1, EventPart!EventPlanned, EventAssumptions DEF EventPart!Unopened
    <3>3. \A f \in Events \ {e} : tiers'[f] = tiers[f]
      BY <1>4, <2>2 DEF Ev!AddTicketTier
    <3>4. QED
      BY <1>3, <2>1, <3>2, <3>3
  <2>3. ASSUME NEW t \in TierOffers, NEW k \in DOMAIN tiers[e], Ev!UpdateTier(e, k, t)
        PROVE  StaysCovered(d)
    <3>1. EventPart!UpdateTier(e, k, t)
      BY <2>3, SameEvent
    <3>2. EventPart!Unopened(e) /\ EventPart!Written(e, "Upcoming")
      BY <1>1, <3>1, EventPart!EventPlanned, EventAssumptions DEF EventPart!Unopened
    <3>3. \A f \in Events \ {e} : tiers'[f] = tiers[f]
      BY <1>4, <2>3 DEF Ev!UpdateTier
    <3>4. QED
      BY <1>3, <2>1, <3>2, <3>3
  <2>4. CASE Ev!UpdateEventStatus(e)
    <3>1. tiers' = tiers
      BY <2>4 DEF Ev!UpdateEventStatus
    <3>2. QED
      BY <1>2, <2>1, <3>1
  <2>5. QED
    BY <1>11, <2>2, <2>3, <2>4 DEF ChangeTiersOrStatus
<1>12. ASSUME NEW e \in Events, SetRules(e)
       PROVE  StaysCovered(d)
  <2>1. tiers' = tiers
    BY <1>12 DEF SetRules, Ev!SetEventPrivacy, Ev!SetClaimSettings,
                 Ev!SetAnonClaimSettings, Ev!SetZkConfig
  <2>2. UNCHANGED totalVolume
    BY <1>12, VolumeKept DEF SetRules
  <2>3. QED
    BY <1>2, <2>1, <2>2
<1>13. ASSUME NEW e \in Events, CallOff(e)
       PROVE  StaysCovered(d)
  <2>1. tiers' = tiers
    BY <1>13 DEF CallOff, Ev!CancelEvent
  <2>2. QED
    BY <1>2, <1>13, <2>1, VolumeKept DEF CallOff
<1>14. ASSUME NEW e \in Events, NEW date, NEW window, PutOff(e, date, window)
       PROVE  StaysCovered(d)
  <2>1. tiers' = tiers
    BY <1>14 DEF PutOff, Ev!PostponeEvent
  <2>2. AdministrationFrame
    BY <1>14 DEF PutOff, PostponeEvent
  <2>3. UNCHANGED totalVolume
    BY <2>2 DEF AdministrationFrame, bookVars
  <2>4. QED
    BY <1>2, <2>1, <2>3
<1>15. ASSUME NEW e \in Events, Reopen(e)
       PROVE  StaysCovered(d)
  <2>1. tiers' = tiers
    BY <1>15 DEF Reopen, Ev!FinalizePostponement
  <2>2. AdministrationFrame
    BY <1>15 DEF Reopen, SyncAndResume
  <2>3. UNCHANGED totalVolume
    BY <2>2 DEF AdministrationFrame, bookVars
  <2>4. QED
    BY <1>2, <2>1, <2>3
<1>16. ASSUME NEW e \in Events, PayOut(e)
       PROVE  StaysCovered(d)
  <2>1. tiers' = tiers
    BY <1>16 DEF PayOut, eventContractVars
  <2>2. QED
    BY <1>2, <1>16, <2>1, VolumeKept
<1>17. CASE \/ \E e \in Events, s \in AdminStatuses : Override(e, s)
            \/ \E p \in PauseSwitch : Pause(p)
  <2>1. tiers' = tiers
    BY <1>17 DEF Override, Pause, eventContractVars
  <2>2. UNCHANGED totalVolume
    BY <1>17 DEF Override, Pause, SetEventStatus, SetPaused, AdministrationFrame, bookVars
  <2>3. QED
    BY <1>2, <2>1, <2>2
<1>18. ASSUME NEW e \in Events, NEW m, MintDirectly(e, m)
       PROVE  StaysCovered(d)
  <2>1. tiers' = tiers
    BY <1>18 DEF MintDirectly, eventContractVars
  <2>2. QED
    BY <1>2, <1>18, <2>1, VolumeKept DEF MintDirectly
<1>19. ASSUME NEW e \in Events, NEW u \in Users, HoldSeat(e, u)
       PROVE  StaysCovered(d)
  <2>1. Earned(tiers'[d]) = Earned(tiers[d])
    BY <1>1, <1>19, PaidHeld
  <2>2. QED
    BY <1>2, <1>19, <2>1, VolumeKept DEF HoldSeat
<1>20. ASSUME NEW e \in Events, NEW k \in DOMAIN tiers[e], Ev!SellToProof(e, k),
              tiers[e][k].price = 0, UNCHANGED paymentsVars
       PROVE  StaysCovered(d)
  BY <1>1, <1>20, PaidFree, VolumeKept
<1>21. ASSUME NEW e \in Events, NEW k \in DOMAIN tiers[e], NEW passport \in Passports,
              Attend(e, k, passport)
       PROVE  StaysCovered(d)
  BY <1>20, <1>21 DEF Attend, Ev!VerifyAndAttend
<1>22. ASSUME NEW e \in Events, NEW k \in DOMAIN tiers[e], NEW claim \in AnonymousClaims,
              ClaimSeat(e, k, claim)
       PROVE  StaysCovered(d)
  BY <1>20, <1>22 DEF ClaimSeat, Ev!ClaimAnonymousTicket
<1>23. ASSUME NEW e \in Events, NEW u \in Users, NEW k \in DOMAIN tiers[e],
              NEW nonce \in Nonces, Register(e, u, k, nonce)
       PROVE  StaysCovered(d)
  <2>1. Ev!SellSeats(e, u, k, 1) /\ Pay(e, u, k, 1, nonce)
    BY <1>23 DEF Register, Ev!RegisterForEvent
  <2>2. 1 \in Nat \ {0}
    OBVIOUS
  <2>3. QED
    BY <2>1, <2>2, PaidSold
<1>24. ASSUME NEW e \in Events, NEW u \in Users, NEW k \in DOMAIN tiers[e],
              NEW nonce \in Nonces, NEW n \in 1..MaxBatch,
              RegisterBatch(e, u, k, n, nonce)
       PROVE  StaysCovered(d)
  <2>1. Ev!SellSeats(e, u, k, n) /\ Pay(e, u, k, n, nonce)
    BY <1>24 DEF RegisterBatch, Ev!BatchRegisterForEvent
  <2>2. n \in Nat \ {0}
    BY TicketAssumptions DEF TicketPart!BoundsAssumption
  <2>3. QED
    BY <2>1, <2>2, PaidSold
<1>25. QED
  BY <1>5, <1>6, <1>7, <1>8, <1>9, <1>10, <1>11, <1>12, <1>13, <1>14, <1>15, <1>16,
     <1>17, <1>18, <1>19, <1>21, <1>22, <1>23, <1>24 DEF BoxNext

\* The payments contract counts the volume of every event in every token.
LEMMA VolumesTyped ==
  PaymentsPart!BooksInv => totalVolume \in [Events -> [Tokens -> Nat]]
BY DEF PaymentsPart!BooksInv, PaymentsPart!MoneyTypeOK

\* From the link on every seat that is sold is paid for: a registration books
\* the price of all of its tickets with the payments contract in the
\* transaction that sells them, a proof gets a seat of a free tier only, prices
\* change only before the first sale, and no refund, payout or override takes
\* from the volume that was booked.
THEOREM SeatsStayPaidFor == BoxSpec => SeatsPaidFor
<1>1. BoxInv /\ BoxInv' /\ PaymentsPart!BooksInv /\ PaymentsPart!BooksInv'
        /\ [BoxNext]_allVars =>
          [\A e \in Events : linked => Uncovered(e)' <= Uncovered(e)]_allVars
  <2>1. (PaymentsPart!BooksInv => totalVolume \in [Events -> [Tokens -> Nat]])'
    BY DEF PaymentsPart!BooksInv, PaymentsPart!MoneyTypeOK
  <2>2. QED
    BY <2>1, VolumesTyped, PaidStep DEF StaysCovered
<1>2. PaymentsPart!Spec => []PaymentsPart!BooksInv
  BY PaymentsPart!BooksInvariant, PaymentsAssumptions
<1>3. QED
  BY <1>1, <1>2, BoxInvariant, BoxRunsPayments, PTL DEF BoxSpec, SeatsPaidFor
=============================================================================
