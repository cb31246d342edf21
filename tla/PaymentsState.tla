---------------------------- MODULE PaymentsState ----------------------------
(***************************************************************************)
(* The storage of the payments contract (contracts/payments): what it      *)
(* keeps, the types of what it keeps, and its state after `initialize`.    *)
(*                                                                         *)
(* Calls are serial, and a call that returns an error or traps leaves no   *)
(* trace: Soroban discards all of its writes, those of the contracts it    *)
(* called included.  A failing call is therefore a stuttering step, and    *)
(* every action of the modules that extend this one is a call that         *)
(* returned Ok.  `now` stands for both clocks the code reads, the ledger   *)
(* sequence and the ledger timestamp: they advance together, and every     *)
(* deadline is compared with only one of them.                             *)
(*                                                                         *)
(* Payment ids and ticket ids come from two counters that create_payment   *)
(* alone advances, each once per payment: ticket i is the ticket of        *)
(* payment i, and one function of ids stands for both stores.              *)
(***************************************************************************)
EXTENDS Integers, Sequences, FiniteSets, FiniteSetsExt

CONSTANTS
  Users,              \* addresses that buy, sell, organise or share revenue
  Events,             \* event ids
  Tokens,             \* token contracts an admin may support
  AcceptedToken,      \* the token `initialize` accepts and every event pays out
  None,               \* an absent Option
  Amounts,            \* prices paid for a ticket
  RefundAmounts,      \* refunds the admin asks for; None asks for all there is
  Nonces,             \* client-chosen request nonces
  Nullifiers,         \* nullifier commitments of Anonymous purchases
  EmailCommitments,   \* zkEmail receipt commitments
  Levels,             \* privacy levels clients use
  PrivacyConfigs,     \* privacy rules an event may be given
  SyncedTerms,        \* event terms the event contract may send
  SplitTables,        \* revenue splits the event contract may send
  AdminStatuses,      \* statuses the admin may set on an event
  Deadlines,          \* ends of a postponement's refund-choice window
  EndTimes,           \* escrow end times the admin may set
  CancellableEvents,  \* events their organizer may cancel
  AdminPaidEvents,    \* events the admin may pay out with withdraw_revenue
  DelayExtensions,    \* extra withdrawal delays the admin may add
  FeeRates,           \* platform fees in basis points
  InitialFee,         \* the fee `initialize` sets
  PauseSwitch,        \* values set_paused is called with
  ResalePrices,       \* prices asked for a listed ticket
  MIN_DISPUTE_WINDOW_LEDGERS,
  ATTENDEE_DISPUTE_WINDOW_LEDGERS,
  DISPUTE_TIMEOUT_LEDGERS,
  MaxPayments,        \* bound: payments ever made
  MaxLedger,          \* bound: last ledger
  MaxDelay,           \* bound: total extension of an event's withdrawal delay
  MaxTurnover         \* bound: money of a token that resales may bring in

PaymentIds == 1..MaxPayments
Bps == 0..10000

\* The part of an EventConfig that the event contract sends and may send again.
Terms ==
  [organizer: Users, max_tickets_per_user: Nat, max_supply: Nat,
   event_start_ledger: Nat, event_end_ledger: Nat,
   withdrawal_delay_ledgers: Nat, resale_royalty_bps: Bps,
   max_resale_price: Nat \cup {None}]

\* One row of a revenue split.
SplitRow == [recipient: Users, basis_points: Nat]

Statuses == {"Upcoming", "Active", "Completed", "Cancelled", "Postponed"}

ASSUME ConstantsAssumption ==
  /\ AcceptedToken \in Tokens
  /\ None \notin Users \cup Nullifiers \cup EmailCommitments
  /\ None \notin Nat
  /\ Amounts \subseteq Nat \ {0}
  /\ RefundAmounts \subseteq (Nat \ {0}) \cup {None}
  /\ Nonces \subseteq Nat \ {0}
  /\ Levels \subseteq {"Standard", "Private", "Anonymous"}
  /\ PrivacyConfigs \subseteq
       [allow_anonymous: BOOLEAN, requires_verification: BOOLEAN]
  /\ SyncedTerms \subseteq Terms
  /\ SplitTables \subseteq Seq(SplitRow)
  /\ AdminStatuses \subseteq Statuses
  /\ Deadlines \subseteq Nat
  /\ EndTimes \subseteq Nat
  /\ CancellableEvents \subseteq Events
  /\ AdminPaidEvents \subseteq Events
  /\ DelayExtensions \subseteq Nat
  /\ FeeRates \subseteq Bps
  /\ InitialFee \in Bps
  /\ PauseSwitch \subseteq BOOLEAN
  /\ ResalePrices \subseteq Int
  /\ MIN_DISPUTE_WINDOW_LEDGERS \in Nat
  /\ ATTENDEE_DISPUTE_WINDOW_LEDGERS \in Nat
  /\ DISPUTE_TIMEOUT_LEDGERS \in Nat
  /\ MaxPayments \in Nat
  /\ MaxLedger \in Nat
  /\ MaxDelay \in Nat
  /\ MaxTurnover \in Nat

\* The books are sums over events and over the recipients of a split.
ASSUME FiniteAssumption == IsFiniteSet(Events) /\ IsFiniteSet(Users)

-----------------------------------------------------------------------------
VARIABLES
  now,               \* ledger sequence and timestamp
  paused,            \* Paused
  platformFeeBps,    \* PlatformFeeBps
  supportedTokens,   \* SupportedToken, the accepted token included
  config,            \* EventConfig of each event, or None
  status,            \* EventStatus of each event, or None
  postponeDeadline,  \* PostponeDeadline of each event, or None
  escrowMeta,        \* EscrowMeta of each event, or None
  privacy,           \* EventPrivacy of each event
  payments,          \* Payment of each id, or None
  owner,             \* owner of the ticket of each id, or None
  ownerTickets,      \* OwnerTicketIndex: each owner's tickets in slot order
  usedNonces,        \* ProcessedNonce and ProcessedNonceHash
  spentNullifiers,   \* SpentNullifier
  userTickets,       \* UserEventTickets and UserEventTicketsHash
  dispute,           \* Dispute of each ticket: the ledger it was raised, or None
  eventDisputes,     \* EventDisputes of each event
  tokenRevenue,      \* EventTokenRevenue
  totalVolume,       \* TotalTokenVolume
  totalRefunds,      \* TotalTokenRefunds
  totalWithdrawn,    \* TotalTokenWithdrawn
  eventTokens,       \* EventTokens
  platformRevenue,   \* PlatformRevenue
  balance,           \* what each token contract says this contract holds
  resaleListing,     \* ResaleListing of each ticket, or None
  splits,            \* Splits of each event, empty when none is set
  settlement,        \* SplitSettlement: the frozen net amount, or None
  splitWithdrawn,    \* SplitWithdrawn of each recipient
  splitFlagged       \* SplitFlagged of each recipient

adminVars == <<paused, platformFeeBps, supportedTokens>>
eventVars == <<config, status, postponeDeadline, escrowMeta, privacy>>
saleVars == <<usedNonces, spentNullifiers, userTickets>>
ticketVars == <<owner, ownerTickets, resaleListing>>
disputeVars == <<dispute, eventDisputes>>
bookVars == <<tokenRevenue, totalVolume, totalRefunds, totalWithdrawn,
              eventTokens, platformRevenue, balance>>
splitVars == <<splits, settlement, splitWithdrawn, splitFlagged>>

vars == <<now, adminVars, eventVars, saleVars, payments, ticketVars,
          disputeVars, bookVars, splitVars>>

-----------------------------------------------------------------------------
EventConfig ==
  [terms: Terms, sold_count: Nat, admin_delay_extension_ledgers: Nat,
   cancel_ledger: Nat \cup {None}, withdrawable_ratio_bps: Bps \cup {None},
   organizer_withdrawn: BOOLEAN]

EscrowMetadata == [organizer: Users, event_end_time: Nat, auto_released: BOOLEAN]

\* A Standard payment stores its payer; an Anonymous one its nullifier only.
PaymentRecord ==
  [event: Events, payer: Users \cup {None}, amount: Nat \ {0},
   refunded_amount: Int, token: Tokens,
   status: {"Held", "Released", "Refunded", "Disputed"},
   level: {"Standard", "Private", "Anonymous"},
   nullifier_commitment: Nullifiers \cup {None},
   zk_email_commitment: EmailCommitments \cup {None}]

ResaleListing == [price: Int, seller: Users]

\* PaymentParams: what a purchase asks for.
PaymentParams ==
  [payer: Users, event: Events, amount: Amounts, token: Tokens, nonce: Nonces,
   level: Levels, nullifier: Nullifiers \cup {None},
   commitment: EmailCommitments \cup {None},
   is_anonymous: BOOLEAN, is_verified: BOOLEAN]

\* Ledger keys of a nonce: the payer, the payer's hash, or the nullifier.
NonceKeys ==
  ({"payer", "hash"} \X Users \X Nonces)
    \cup ({"nullifier"} \X Nullifiers \X Nonces)

\* An absent Option is none of the values it may hold.
ASSUME NoneAssumption ==
  None \notin Statuses \cup EventConfig \cup EscrowMetadata \cup PaymentRecord
               \cup ResaleListing

Init ==
  /\ now = 0
  /\ paused = FALSE
  /\ platformFeeBps = InitialFee
  /\ supportedTokens = {AcceptedToken}
  /\ config = [e \in Events |-> None]
  /\ status = [e \in Events |-> None]
  /\ postponeDeadline = [e \in Events |-> None]
  /\ escrowMeta = [e \in Events |-> None]
  /\ privacy = [e \in Events |->
                  [allow_anonymous |-> TRUE, requires_verification |-> FALSE]]
  /\ payments = [i \in PaymentIds |-> None]
  /\ owner = [i \in PaymentIds |-> None]
  /\ ownerTickets = [u \in Users |-> <<>>]
  /\ usedNonces = {}
  /\ spentNullifiers = {}
  /\ userTickets = [e \in Events |-> [u \in Users |->
                      [level \in {"Standard", "Private"} |-> 0]]]
  /\ dispute = [i \in PaymentIds |-> None]
  /\ eventDisputes = [e \in Events |-> {}]
  /\ tokenRevenue = [e \in Events |-> [t \in Tokens |-> 0]]
  /\ totalVolume = [e \in Events |-> [t \in Tokens |-> 0]]
  /\ totalRefunds = [e \in Events |-> [t \in Tokens |-> 0]]
  /\ totalWithdrawn = [e \in Events |-> [t \in Tokens |-> 0]]
  /\ eventTokens = [e \in Events |-> {}]
  /\ platformRevenue = [e \in Events |-> 0]
  /\ balance = [t \in Tokens |-> 0]
  /\ resaleListing = [i \in PaymentIds |-> None]
  /\ splits = [e \in Events |-> <<>>]
  /\ settlement = [e \in Events |-> None]
  /\ splitWithdrawn = [e \in Events |-> [u \in Users |-> 0]]
  /\ splitFlagged = [e \in Events |-> [u \in Users |-> FALSE]]

-----------------------------------------------------------------------------
(* Reading and moving money.                                               *)

\* A share of `amount` in basis points, rounded down as the i128 division does.
Share(amount, bps) == (amount * bps) \div 10000

\* A token transfer out of the contract: the token contract refuses it unless
\* the contract holds the amount.
SendOut(t, amount) ==
  /\ 0 <= amount /\ amount <= balance[t]
  /\ balance' = [balance EXCEPT ![t] = @ - amount]

\* Mutant: a Refunded payment passes for any status.
HasStatusOrRefunded(i, s) ==
  payments[i] # None /\ payments[i].status \in {s, "Refunded"}

\* The payment in slot i exists and has the given status.
HasStatus(i, s) == payments[i] # None /\ payments[i].status = s

\* Time passes between calls.
Tick ==
  /\ now < MaxLedger
  /\ now' = now + 1
  /\ UNCHANGED <<adminVars, eventVars, saleVars, payments, ticketVars,
                 disputeVars, bookVars, splitVars>>
=============================================================================
