------------------------------- MODULE BoxOffice -------------------------------
(***************************************************************************)
(* The event, payments and ticket contracts together.  A call on the event *)
(* contract and the calls it makes are one transaction, so one step here:  *)
(* if the other contract refuses, the whole step does not happen.  Every   *)
(* call of the event and of the ticket contract is here, made by the event *)
(* contract or directly, behind its back; but for admin_transfer_ticket,   *)
(* which only a resale makes.  Of the calls made directly to the payments  *)
(* contract there are the plain purchase, the claim after a cancellation,  *)
(* the admin's status override and the pause: no other one writes a        *)
(* status, a deadline or the terms of an event or takes off what is booked *)
(* on it, and the other two forms of a purchase book more in the same way. *)
(*                                                                         *)
(* The links, once made, are to these contracts: nobody calls the event    *)
(* contract's initialize, or the ticket contract's initialize,             *)
(* set_payments_contract or set_event_contract, with another address.      *)
(***************************************************************************)
EXTENDS PaymentsProperties

CONSTANTS
  Offers, DetailChanges, TierOffers, NewDates, ChoiceWindows, ClaimRules,
  AnonRules, PrivacyLevels, ZkSwitch, AnonymousClaims, Commitments, Passports,
  RESERVATION_SECS, MIN_WITHDRAWAL_DELAY_LEDGERS,
  MIN_POSTPONEMENT_CHOICE_WINDOW_LEDGERS, MAX_POSTPONEMENT_CHOICE_WINDOW_LEDGERS,
  MAX_POSTPONEMENTS, MAX_ANONYMOUS_PROOF_TTL_LEDGERS, MaxTierCapacity, U32_MAX,
  MaxBatch, MaxTiers,
  MaxTickets,
  EventContractAddress,  \* holds the tickets of passport attendance
  DirectMints            \* minted without the event contract, before any link

VARIABLES
  linked, verifierSet, event, tiers, soldCount, eventPrivacy, postponement,
  postponeCount, registered, attendees, reservation, claimSettings, freeClaims,
  lastFreeClaim, anonSettings, anonWindow, claimed, zkEnabled, zkNullifiers

VARIABLES
  initialized, eventContractSet, nextTicketId, ticket, ownerTicket,
  walletTickets,   \* the ticket contract's OwnerTicketIndex
  eventTickets, recoveryKey, attendanceCredential

Ev == INSTANCE EventContract

\* Who may hold a ticket of the ticket contract.
TicketHolders == Users \cup {EventContractAddress}

Tix == INSTANCE TicketRegistry WITH
  Users <- TicketHolders, ownerTickets <- walletTickets

\* The constants are what the two contracts assume of them.
ASSUME EventContractAssumption == Ev!EventConstants /\ Ev!EventNone
ASSUME TicketContractAssumption == Tix!BoundsAssumption /\ Tix!NoneAssumption
ASSUME AddressAssumption == EventContractAddress \notin Users \cup {None}
ASSUME MintAssumption ==
  DirectMints \subseteq
    [organizer: Users, owner: TicketHolders, count: 1..MaxBatch]

\* A nullifier is one of the 2^256 values of 32 bytes.
ASSUME NullifierAssumption == IsFiniteSet(Nullifiers)

\* What each contract stores.
eventContractVars ==
  <<linked, verifierSet, event, tiers, soldCount, eventPrivacy, postponement,
    postponeCount, registered, attendees, reservation, claimSettings, freeClaims,
    lastFreeClaim, anonSettings, anonWindow, claimed, zkEnabled, zkNullifiers>>
paymentsVars == <<adminVars, eventVars, saleVars, payments, ticketVars,
                  disputeVars, bookVars, splitVars>>
ticketContractVars ==
  <<initialized, eventContractSet, nextTicketId, ticket, ownerTicket,
    walletTickets, eventTickets, recoveryKey, attendanceCredential>>
allVars == <<now, eventContractVars, paymentsVars, ticketContractVars>>

BoxInit == Init /\ Ev!Init /\ Tix!Init

-----------------------------------------------------------------------------
(* The organizer's calls.                                                  *)

\* The ticket contract may refuse the link, which initialize ignores.
LinkContracts ==
  /\ Ev!Initialize
  /\ IF initialized THEN Tix!SetEventContract ELSE UNCHANGED ticketContractVars
  /\ UNCHANGED paymentsVars

OpenSale(e, offer) ==
  /\ Ev!CreateEvent(e, offer)
  /\ IF linked THEN SyncNewEvent(e, event'[e].terms, offer.revenue_splits)
     ELSE UNCHANGED paymentsVars
  /\ UNCHANGED ticketContractVars

ChangeDetails(e, change) ==
  /\ Ev!UpdateEventDetails(e, change)
  /\ IF linked THEN SyncEventConfig(e, event'[e].terms) ELSE UNCHANGED paymentsVars
  /\ UNCHANGED ticketContractVars

\* The calls that leave the other two contracts alone.
ChangeTiersOrStatus(e) ==
  /\ \/ \E t \in TierOffers :
          \/ Ev!AddTicketTier(e, t)
          \/ \E k \in DOMAIN tiers[e] : Ev!UpdateTier(e, k, t)
     \/ Ev!UpdateEventStatus(e)
  /\ UNCHANGED <<paymentsVars, ticketContractVars>>

SetRules(e) ==
  /\ \/ \E level \in PrivacyLevels : Ev!SetEventPrivacy(e, level)
     \/ \E settings \in ClaimRules : Ev!SetClaimSettings(e, settings)
     \/ \E settings \in AnonRules : Ev!SetAnonClaimSettings(e, settings)
     \/ \E enabled \in ZkSwitch : Ev!SetZkConfig(e, enabled)
  /\ UNCHANGED <<paymentsVars, ticketContractVars>>

SetVerifier ==
  /\ Ev!SetAnonymousClaimVerifier
  /\ UNCHANGED <<paymentsVars, ticketContractVars>>

\* Mutant: the payments contract is not told of a cancellation.
CallOffUntold(e) ==
  /\ Ev!CancelEvent(e)
  /\ UNCHANGED <<paymentsVars, ticketContractVars>>

CallOff(e) ==
  /\ Ev!CancelEvent(e)
  /\ IF linked THEN CancelEvent(e) ELSE UNCHANGED paymentsVars
  /\ UNCHANGED ticketContractVars

PutOff(e, date, window) ==
  /\ Ev!PostponeEvent(e, date, window)
  /\ IF linked THEN PostponeEvent(e, now + window) ELSE UNCHANGED paymentsVars
  /\ UNCHANGED ticketContractVars

\* Mutant: the terms are passed on as they were before the new dates.
ReopenWithOldTerms(e) ==
  /\ Ev!FinalizePostponement(e)
  /\ IF linked THEN SyncAndResume(e, event[e].terms) ELSE UNCHANGED paymentsVars
  /\ UNCHANGED ticketContractVars

Reopen(e) ==
  /\ Ev!FinalizePostponement(e)
  /\ IF linked THEN SyncAndResume(e, event'[e].terms) ELSE UNCHANGED paymentsVars
  /\ UNCHANGED ticketContractVars

\* withdraw_revenue, withdraw_split and flag_cohost leave nothing in the event
\* contract.
PayOut(e) ==
  /\ \/ Ev!InStatus(e, "Completed") /\ WithdrawRevenue(e)
     \/ event[e] # None /\ \E u \in Users : WithdrawSplit(e, u)
     \/ event[e] # None /\ \E u \in Users : FlagCohost(e, u)
  /\ linked
  /\ UNCHANGED <<eventContractVars, ticketContractVars>>

-----------------------------------------------------------------------------
(* The attendees' calls.                                                   *)

\* Whom the ticket contract asks to authorise a minting: the event contract if
\* it is set, else the payments contract, which never mints, and else the
\* organizer, who signs for it here.
Mint(e, u, n) ==
  /\ eventContractSet \/ ~initialized
  /\ Tix!MintTickets(e, event[e].terms.organizer, u, n)

\* Mutant: a batch is charged the price of one ticket.
PayForOne(e, u, k, n, nonce) ==
  IF tiers[e][k].price = 0 THEN UNCHANGED paymentsVars
  ELSE CreatePayment([payer |-> u, event |-> e, amount |-> tiers[e][k].price,
                      token |-> AcceptedToken, nonce |-> nonce,
                      level |-> "Standard", nullifier |-> None,
                      commitment |-> None,
                      is_anonymous |-> FALSE, is_verified |-> FALSE])

\* One payment for all n tickets; a free tier makes none.
Pay(e, u, k, n, nonce) ==
  IF tiers[e][k].price = 0 THEN UNCHANGED paymentsVars
  ELSE CreatePayment([payer |-> u, event |-> e, amount |-> tiers[e][k].price * n,
                      token |-> AcceptedToken, nonce |-> nonce,
                      level |-> "Standard", nullifier |-> None,
                      commitment |-> None,
                      is_anonymous |-> FALSE, is_verified |-> FALSE])

Register(e, u, k, nonce) ==
  /\ Ev!RegisterForEvent(e, u, k)
  /\ Pay(e, u, k, 1, nonce)
  /\ Mint(e, u, 1)

\* count_user_event_tickets: of any tier and status.
TicketsListed(e, u) ==
  Cardinality({j \in DOMAIN walletTickets[u] :
                 ticket[walletTickets[u][j]].event_id = e})

\* Mutant: a batch mints a single ticket.
RegisterBatchMintOne(e, u, k, n, nonce) ==
  /\ Ev!BatchRegisterForEvent(e, u, k, n, TicketsListed(e, u))
  /\ Pay(e, u, k, n, nonce)
  /\ Mint(e, u, 1)

RegisterBatch(e, u, k, n, nonce) ==
  /\ Ev!BatchRegisterForEvent(e, u, k, n, TicketsListed(e, u))
  /\ Pay(e, u, k, n, nonce)
  /\ Mint(e, u, n)

\* Mutant: passport attendance mints no ticket.
AttendWithoutTicket(e, k, passport) ==
  /\ Ev!VerifyAndAttend(e, k, passport)
  /\ UNCHANGED <<paymentsVars, ticketContractVars>>

\* Before the link a seat is sold without payment and without a ticket; from
\* then on only a free one, whose ticket goes to the event contract itself.
Attend(e, k, passport) ==
  /\ Ev!VerifyAndAttend(e, k, passport)
  /\ IF linked THEN Mint(e, EventContractAddress, 1) ELSE UNCHANGED ticketContractVars
  /\ UNCHANGED paymentsVars

\* A seat without a ticket, and of a free tier.
ClaimSeat(e, k, claim) ==
  /\ Ev!ClaimAnonymousTicket(e, k, claim)
  /\ UNCHANGED <<paymentsVars, ticketContractVars>>

\* Anyone may release what has expired.
HoldSeat(e, u) ==
  /\ \/ Ev!ReleaseExpiredReservation(e, u)
     \/ \E k \in DOMAIN tiers[e] : Ev!ReserveTicket(e, u, k)
  /\ UNCHANGED <<paymentsVars, ticketContractVars>>

\* A ticket request_postponement_refund may cancel.
Revocable(e, i) == Tix!IsValid(i) /\ ticket[i].event_id = e

\* The owner of payment ticket i gets the payment back, and the first ticket
\* of the event it holds in the ticket contract is cancelled.
Refund(i) ==
  LET e == payments[i].event
      u == owner[i]
      wallet == walletTickets[u]
      revocable == {j \in DOMAIN wallet : Revocable(e, wallet[j])}
  IN
  /\ payments[i] # None
  /\ u # None
  /\ \E j \in revocable :
       /\ \A l \in revocable : j <= l
       /\ Tix!CancelTicket(wallet[j])
       /\ Ev!RequestPostponementRefund(e, u, revocable # {j})
  /\ RequestPostponementRefund(i)

-----------------------------------------------------------------------------
(* Calls to the payments or the ticket contract that the event contract    *)
(* does not see.                                                           *)

\* A purchase without a seat and a claim after a cancellation.
PaymentsCall ==
  /\ \/ PayForTicket
     \/ \E i \in PaymentIds : ClaimRefund(i)
  /\ UNCHANGED <<eventContractVars, ticketContractVars>>

\* The admin of the payments contract pauses it or overrides a status.
Override(e, s) ==
  /\ SetEventStatus(e, s)
  /\ UNCHANGED <<eventContractVars, ticketContractVars>>

Pause(p) ==
  /\ SetPaused(p)
  /\ UNCHANGED <<eventContractVars, ticketContractVars>>

\* A ticket minted before the contracts are linked, when the organizer whom
\* the caller names may authorise it.
MintDirectly(e, m) ==
  /\ ~initialized
  /\ ~eventContractSet
  /\ Tix!MintTickets(e, m.organizer, m.owner, m.count)
  /\ UNCHANGED <<now, eventContractVars, paymentsVars>>

\* Every other call needs the owner of the ticket, which the event contract
\* never acts as.
TicketCall ==
  /\ \/ Tix!Initialize
     \/ Tix!SetEventContract
     \/ \E i \in Tix!TicketIds :
          /\ ticket[i] # None
          /\ ticket[i].owner \in Users
          /\ \/ Tix!CancelTicket(i)
             \/ Tix!UseTicket(i)
             \/ Tix!SetRecoveryKey(i)
             \/ \E to \in TicketHolders :
                  Tix!TransferTicket(i, to) \/ Tix!RecoverTicket(i, to)
  /\ UNCHANGED <<now, eventContractVars, paymentsVars>>

BoxNext ==
  \/ Tick /\ UNCHANGED <<eventContractVars, ticketContractVars>>
  \/ LinkContracts
  \/ SetVerifier
  \/ PaymentsCall
  \/ \E p \in PauseSwitch : Pause(p)
  \/ TicketCall
  \/ \E i \in PaymentIds : Refund(i)
  \/ \E e \in Events :
       \/ \E offer \in Offers : OpenSale(e, offer)
       \/ \E change \in DetailChanges : ChangeDetails(e, change)
       \/ ChangeTiersOrStatus(e)
       \/ SetRules(e)
       \/ CallOff(e)
       \/ \E date \in NewDates, window \in ChoiceWindows : PutOff(e, date, window)
       \/ Reopen(e)
       \/ PayOut(e)
       \/ \E s \in AdminStatuses : Override(e, s)
       \/ \E m \in DirectMints : MintDirectly(e, m)
       \/ \E u \in Users : HoldSeat(e, u)
       \/ \E k \in DOMAIN tiers[e] :
            \/ \E passport \in Passports : Attend(e, k, passport)
            \/ \E claim \in AnonymousClaims : ClaimSeat(e, k, claim)
       \/ \E u \in Users, k \in DOMAIN tiers[e], nonce \in Nonces :
            \/ Register(e, u, k, nonce)
            \/ \E n \in 1..MaxBatch : RegisterBatch(e, u, k, n, nonce)

BoxSpec == BoxInit /\ [][BoxNext]_allVars

-----------------------------------------------------------------------------
(* What must hold between the contracts.                                   *)

\* Of an event the payments contract knows, it has the terms the event contract
\* has (but for the supply, which tier changes do not pass on) and, while the
\* event is postponed, the same end of the refund window, whatever status the
\* admin has set there.
ContractsAgree ==
  \A e \in Events : config[e] # None =>
    /\ event[e] # None
    /\ [config[e].terms EXCEPT !.max_supply = 0]
         = [event[e].terms EXCEPT !.max_supply = 0]
    /\ event[e].status = "Postponed" =>
         postponeDeadline[e] = postponement[e].choice_deadline_ledger

\* The payments contract has no status of an event it was told nothing of, and
\* of another one it knows whether it is cancelled or postponed.
AgreeOnStatus(e) ==
  IF config[e] = None THEN status[e] = None
  ELSE \A s \in {"Cancelled", "Postponed"} :
         status[e] = s <=> Ev!InStatus(e, s)

\* Nothing but the admin's set_event_status makes the two contracts disagree on
\* whether an event is cancelled or postponed: no order of postponements,
\* syncs, cancellations and pauses does.
StatusesAgree ==
  [][\A e \in Events : AgreeOnStatus(e) =>
       AgreeOnStatus(e)' \/ \E s \in AdminStatuses : Override(e, s)]_allVars

\* Seats of the event beyond the tickets minted for it.  An anonymous claim
\* takes a seat and is given none.
SeatsWithoutTicket(e) ==
  soldCount[e] - Cardinality({n \in Nullifiers : claimed[e][n] # None})
    - Len(eventTickets[e])

\* Once the contracts are linked, the ticket contract mints a ticket for each
\* seat the event contract sells and for nothing else, however batches,
\* postponements, refunds and passports interleave.  What was sold or minted
\* before the link is not made good.
SeatsHaveTickets ==
  [][\A e \in Events : linked /\ eventContractSet =>
       SeatsWithoutTicket(e)' = SeatsWithoutTicket(e)]_allVars

\* What the seats sold cost, beyond the volume the payments contract has booked
\* on the event.
Uncovered(e) ==
  SumFunction([k \in DOMAIN tiers[e] |-> tiers[e][k].price * tiers[e][k].sold])
    - totalVolume[e][AcceptedToken]

\* Once the contracts are linked, no seat is sold without its price being
\* booked in the same step, no price of a sold seat goes up, and no refund
\* or payout takes from what is booked.
SeatsPaidFor ==
  [][\A e \in Events : linked => Uncovered(e)' <= Uncovered(e)]_allVars

\* A refund of a postponed event "also revokes their ticket so they can't both
\* refund and attend" (README.md:84): what the payments contract still holds of
\* the purchases is enough for the cheapest price of every ticket still valid.
RefundedCannotAttend ==
  \A e \in Events : Ev!InStatus(e, "Postponed") =>
    Min({tiers[e][k].price : k \in DOMAIN tiers[e]})
        * Cardinality({i \in Tix!TicketIds : Revocable(e, i)})
      <= totalVolume[e][AcceptedToken] - totalRefunds[e][AcceptedToken]
=============================================================================
