# Zicket contracts: a verification development

TLA+ models of the Zicket Soroban contracts, the TLC instances that check them, and TLAPS proofs of
the properties that matter most. Paths are relative to the repository; `payments lib.rs` stands for
`contracts/payments/src/lib.rs`, and likewise for the other contracts.

    tlc -workers 4 -config refunds.cfg MCPayments.tla      # the payments contract, and likewise
                                                           #   settlement, sales, splits and the
                                                           #   violation runs of section 3
    tlc -workers 4 -config tickets.cfg MCTickets.tla       # the ticket contract
    tlc -workers 4 -config seats.cfg MCEvents.tla          # the event contract
    tlc -workers 4 -config box_office.cfg MCBoxOffice.tla  # the three together; also batch_refund
    tlapm SeatProofs.tla                                   # and Sums and the other *Proofs modules

## 1. The system

Four Soroban contracts sell event tickets with escrow and optional privacy.

| component | state | operations | talks to |
|---|---|---|---|
| **payments** (`contracts/payments`) | event configs, status, postponement deadline, escrow metadata, payments, payment tickets and owner index, nonces and nullifiers, disputes, revenue counters per event and token, running totals, platform fees, resale listings, splits and their settlement | purchases (three entry points), receipts, resale, four refund paths, disputes with rulings and time-outs, seven payout paths, splits with flags, administration, synchronisation calls of the event contract | token contracts (transfers), ticket contract (moves a resold ticket) |
| **event** (`contracts/event`) | events with lifecycle and tiers, registrations, reservations, postponement windows, anonymous claims | create, update, tiers, cancel, postpone and finalize, reserve, register singly and in batch, claim anonymously, verify and attend | payments (sync, pay, cancel, postpone, resume, refund), ticket (mint, cancel), claim verifier |
| **ticket** (`contracts/ticket`) | tickets, owner and event indexes, recovery keys, attendance credentials | mint, batch mint, transfer, admin transfer, recovery, use, cancel | called by event and payments |
| **factory** (`contracts/factory`) | deployed event contracts by organizer and index | initialize, deploy | deploys event contracts |
| common-utils, privacy-utils | none | share and validation arithmetic; masking of identities in emitted events | used by payments and event |
| anon-claim-verifier, `crates/ultrazk-soroban-verifier`, `circuits` | none | stateless proof verification | called by event |
| relayer | rate limits in memory | HTTP front end over a stub | none |

Calls are serial, and a call that fails leaves no trace: Soroban discards the writes of the
transaction, those of the contracts it called included. The difficulty is therefore not in threads.
It is in **long sequences of legal calls by different actors**, in **redundant stores** that several
handlers write separately, in **deadlines** that race admin rulings, and in **arithmetic** that
rounds.

### What is hard, and what makes each part correct

* **Refunds and disputes.** `refund`, `claim_refund`, `request_postponement_refund`,
  `approve_refund` and the time-out of a dispute all write one payment record and five counters. A
  dispute is a record, a payment status and an entry of the event's list, written by raise, approve,
  reject, the permissionless time-out and every payout. Correct means: the three stores agree; no
  history gives back more than was paid; a refunded payment is final; a dispute ends.
* **Payouts.** `withdraw`, `withdraw_revenue`, `withdraw_token`, `withdraw_all_tokens`,
  `release_if_expired`, the split settlement and the platform fee draw on one balance held for all
  events. Correct means: counters follow the books, the balance is what the books say, an event is
  settled once, and a cancelled event keeps what its attendees may claim.
* **Splits.** Whoever comes first freezes the settlement for all. Correct means: the shares sum to
  the settlement, dust included, in every order of withdrawals, flags and reassignments.
* **Purchases.** A nonce is looked up and stored under keys chosen by two separate matches on the
  privacy level. Correct means: one payment per request; caps hold.
* **Resale and ticket indexes.** Both contracts keep an array index with swap-and-pop. Correct
  means: the ticket, its position entry and the indexed list agree after every change of hands.
* **Event lifecycle.** An event opens, is postponed a bounded number of times, resumes on new dates,
  ends or is cancelled. Correct means: status, postponement record and dates agree, so that a
  postponed event can resume; the supply is the sum of the tiers.
* **Seats.** `reserved` and `sold` of each tier are counters beside the reservation and registration
  records, written by reservation, renewal, release, single and batch registration, anonymous and
  passport claims. A registration with a reservation does not look at the capacity; a resize looks at
  the seats sold and not at those reserved. Correct means: a seat is neither lost nor sold twice, a
  reserved one is its holder's until the reservation expires, and an expired one comes free.
* **The three contracts together.** The event contract keeps its own status and terms, and pushes
  them to the payments contract by calls; seats, tickets and payments are three records of one sale.
  Anybody may also call the payments or the ticket contract directly, its admin may override an
  event's status there (payments lib.rs:695), and before the contracts are linked tickets are minted
  without seats (ticket lib.rs:29) and seats sold to a proof without ticket or payment (event
  lib.rs:1410). Correct means: the terms and the refund window of the two copies agree always, their
  statuses until the admin overrides one, and once linked each sale mints its tickets and books its
  price.

`PROJECT.json` lists each hazard at its line, with the properties that watch it.

## 2. The modules

| module | models |
|---|---|
| `PaymentsState` | storage of the payments contract, types, assumptions on the constants, `Init`, `Tick` |
| `TicketSales` | `create_payment` and its entry points, receipts, resale (payments lib.rs 261-433, 711-800, 2190-2384) |
| `Refunds` | refunds, disputes and time-outs (182-250, 904-1001, 1212-1396, 2386-2581) |
| `Payouts` | payouts, platform fee, splits (435-618, 1003-1156, 1419-1642, 1799-1914, 2001-2164) |
| `EventAdministration` | synchronisation by the event contract and the admin's settings (685-709, 802-902, 1158-1322, 1397-1418, 1925-1981) |
| `Payments` | composes them: `Next`, `Spec`, `FairSpec`, `TypeOK` |
| `PaymentsProperties` | the properties |
| `MCPayments` | values of the constants for TLC |
| `TicketHoldings` | abstract: which address holds which ticket, and when a ticket is out of circulation |
| `TicketRegistry` | the ticket contract, with its indexes; implements `TicketHoldings` |
| `MCTickets` | symmetry for TLC |
| `RevenueSplits` | the test of a revenue split (common-utils `validate_revenue_splits`), used by payments and event |
| `EventStore` | storage of the event contract, types, assumptions, `Init`, `Tick` |
| `EventLifecycle` | `create_event`, details, tiers, status, cancel, postpone, finalize, rules for claims (event lib.rs 80-658, 1171-1232, 1336-1357, 1444-1457) |
| `Seats` | reservations, single and batch registration, postponement refund, anonymous claims, passport attendance (663-1098, 1246-1335, 1361-1443) |
| `SeatLedger` | abstract: a seat is sold, held by a named user until the hold lapses, or free |
| `EventContract` | composes them: `Next`, `Spec`, `FairSpec`, `TypeOK`, the properties, the mapping to `SeatLedger` |
| `MCEvents` | values of the constants for TLC |
| `BoxOffice` | the event, payments and ticket contracts together, and what must hold between them |
| `MCBoxOffice` | values of the constants for TLC |
| `Sums` | lemmas about sums over finite sets, by which the proofs reason about money and seats |
| `PaymentsProofs` | proofs: types, disputes, refunds |
| `BooksProofs` | proofs: money counters, balance, totals, the freeze of a postponed event |
| `TradeProofs` | proofs: settlement and splits, payment tickets, listings, requests, supply |
| `PromiseProofs` | proofs: what the contract owes against what it holds, and what a cancelled event keeps |
| `TicketProofs`, `SeatProofs` | proofs about the ticket and the event contract, with their refinements |
| `BoxOfficeProofs` | proofs: the composition as steps of each contract, and what holds between the three |

    TicketSales, Refunds, Payouts, EventAdministration --> Payments --> PaymentsProperties --+
                              TicketHoldings <== TicketRegistry ------------------------------+--> BoxOffice
         EventStore --> EventLifecycle --> Seats --> EventContract ==> SeatLedger ------------+
    PaymentsProperties --> PaymentsProofs --> BooksProofs --> TradeProofs --> PromiseProofs --+
                              TicketRegistry --> TicketProofs, EventContract --> SeatProofs --+--> BoxOfficeProofs
    (--> extended or instantiated by, ==> implements)

### How the models read the code

* One action is one call that returned `Ok`, with every write it makes, those of the helpers it
  calls included. Failing calls are stuttering steps. The order of the checks inside a call does not
  matter for that reason; which checks there are does.
* A variable is a storage key of `DataKey` as a function of the key's arguments. `None` is an absent
  entry. An owner's index entries and their count are one sequence.
* `now` stands for the ledger sequence and the ledger timestamp. Every deadline is compared with one
  of them only, and they advance together.
* In the payments contract payment ids and ticket ids come from two counters that only
  `create_payment` advances, each once: payment *i* has ticket *i*.
* Authorisation appears as the identity the code demands: the payer, the organizer, the seller, the
  admin. An action names the actor where the outcome depends on it. A payment of a `Private` or
  `Anonymous` purchase stores no payer; whatever needs one is refused.
* Constants named in capitals (`MIN_DISPUTE_WINDOW_LEDGERS`, ...) are the code's own, scaled down for
  TLC and arbitrary naturals in the proofs.
* `create_event` calls the payments contract twice in one transaction, for the terms and for the
  split, and nothing else calls `sync_revenue_splits` (event lib.rs 198-226): `SyncNewEvent` is both
  calls. Any later sync of an event is `SyncEventConfig`, but the one of `finalize_postponement`, which
  calls `resume_event` in the same transaction: `SyncAndResume` is both. Nothing else calls
  `resume_event`.
* Calls of the event contract are the actions of `EventContractCall`. Their guard,
  `OpenToEventContract`, is what that contract guarantees: cancelled is terminal there, and each of
  those handlers checks the event's status first. Otherwise the caller is unconstrained: its
  status and the one kept here may disagree, as in the code, where `update_event_status` does not
  tell the payments contract.
* In the event contract the stored `Event` is three variables, always written together: `event`,
  `tiers` (`tier_id` *k* at position *k* + 1) and `soldCount`. A registration asks the ticket contract
  how many tickets the user has and a refund whether it keeps one; in `Seats` the answers are the
  parameters `held` and `keepsTicket`, any value being possible, and `BoxOffice` joins the real ones.
  What the proof verifiers answer is left open: a proof that they accept is one somebody could make.
* In `BoxOffice` a call and the calls it makes in the other contracts are one step, their actions
  conjoined: if one of them refuses, nothing happens, as in the code. The link may be made late or
  never (`linked`), in which case the event contract calls nobody. All of its calls are there,
  reservations, anonymous claims and passport attendance included. Behind its back come, at the
  payments contract, a purchase without a seat, the claim after a cancellation, the pause and the
  admin's `set_event_status`; at the ticket contract everything: `initialize`, the link, the minting
  that anybody may do in an organizer's name until a link is set (`MintDirectly`), transfer, recovery,
  use and cancellation. The address that holds the tickets of passport attendance, the event contract
  itself, is `EventContractAddress`; it makes no call as an owner, so that its tickets stay.
* Left out of `BoxOffice` are resales, with the `admin_transfer_ticket` they make, and the remaining
  direct calls to the payments contract: disputes and rulings, admin refunds, the payouts the event
  contract does not pass on, receipts, the fee, the delay, the end time, the tokens and the two other
  forms of a purchase. None of them writes what the properties there speak of: `status`,
  `postponeDeadline`, the terms in `config`, a smaller `totalVolume`, or anything of the event or the
  ticket contract but, by a resale, the owner of a ticket. The runs of the payments contract have them.
* Once made, the links in `BoxOffice` are to the contracts modelled. `initialize` of the event contract
  may be called again (lib.rs 80-97), which is in the model, but not with other addresses: those would
  be other contracts, with other stores to agree with.

### Bounds

Bounds are constants: `MaxPayments`, `MaxTickets`, `MaxTiers`, `MaxBatch` (100 in the code),
`MaxLedger`, `MaxDelay` (sum of the admin's delay extensions), `MaxTurnover` (money that resales
bring in), `MaxTierCapacity`. `MaxLedger` also bounds the end of a reservation. Arithmetic is on
unbounded integers: prices are `i128`, and the release profile traps on overflow, so that an
overflowing call fails and leaves no trace. Where the code tests for the range of a `u32` itself
(supply, new dates), the test is in the model with the bound `U32_MAX`.

## 3. What TLC checks

Passing runs (each finishes within about three minutes on two workers):

| run | instance | shows |
|---|---|---|
| `refunds` | 1 event, 2 payments of 15, refunds of 4 or all, postponement, cancellation, a change of fee from 10 % to none, a pause switch, ledgers 0-6, fair scheduling | `TypeOK`, `DisputesConsistent`, `RefundsBounded`, `TotalsMatchPayments`, `AttendeeShareCovered`, `RefundedIsFinal`, `DisputesEnd` |
| `settlement` | 2 tokens, 2 payments, admin payout, auto-release, re-synced terms with a later end, a postponement, disputes timing out during payouts, ledgers 0-4 | `RevenueMatchesBooks`, `BalanceMatchesBooks`, `SettledOnce`, `EscrowFrozenWhilePostponed` |
| `sales` | 2 payments at three privacy levels, repeated nonces and nullifiers, caps on seats and tickets a user, strict privacy rules, resale at 20 and 30 with a fee of 5 % and a royalty of 10 %, an admin payout in between | `RequestsUsedOnce`, `SupplyRespected`, `OwnerIndexMatchesTickets`, `ListingsByOwner`, `PromisesCovered`, `PaymentIdentityFixed` |
| `splits` | three recipients of a third each, a fee of 50 %, flags, releases, reassignments, completed or cancelled event | `SplitPaidExactly`, `FlaggedShareFrozen`, `SettledOnce` |
| `tickets` | 3 users, 3 tickets, batches of 2 | `TypeOK`, `OwnerIndexConsistent`, `AttendanceConsistent`, `KeepsHoldings` |
| `seats` | 1 event with a paid tier of 2 seats and an optional free one of 1, 2 users, reservations of 1 ledger, batches of 2, one postponement, anonymous and passport claims, ledgers 0-2, fair scheduling | `TypeOK`, `ReservedCountsHolders`, `CapacityRespected`, `SupplyMatchesTiers`, `AttendeesListed`, `PostponementTracked`, `KeepsSeats`, `ExpiredSeatsFreed` |
| `box_office` | the three contracts: 1 event, with two seats, with or without a split, made free or joined by a free seat, 2 users, 2 payments, 2 tickets, batches of 2, reservations, an anonymous claim, passport attendance, a minting before the link, the admin's override, the pause, linked at any moment, one postponement, ledgers 0-1 | `ContractsAgree`, `StatusesAgree`, `SeatsHaveTickets`, `SeatsPaidFor` |

Why these bounds reach the interesting cases:

* Two payments let one payment's history (partial refund, dispute, time-out) meet another's claim on
  the same escrow. The properties relate pairs of payments or sums.
* Ledgers 0-6 of `refunds` cover the start, middle, end and the withdrawal delay of the event, both
  dispute windows (1 and 2 ledgers) and the dispute time-out (2), in every relative order, and let each
  dispute that can be raised also time out. `settlement` shortens the event to ledger 2 so that its
  disputes time out while it is paid out.
* Prices of 15 against ratios of 0, 5000 and 10000 bps round; 3334/3333/3333 leaves dust.
* `sales` has one ledger: none of its calls depends on the time. Its two tickets fill the supply, and
  `MaxTurnover` 27 leaves room for what two resales bring in beside the two purchases of 10. `tickets`
  has three: the least list whose middle slot can be removed while a third ticket moves into it. Its
  users and events are interchangeable.
* In `seats` two users compete for two seats: one reserves, the other buys both in a batch or the last
  one singly, while the free tier is added, resized or sold out. Reservations last one ledger, so that
  three ledgers hold a reservation, its expiry, its renewal or release and a registration at its very
  end; and a postponement with its window.
* In `box_office` two tickets are one batch or two registrations, which may each meet a cancelled,
  transferred or refunded ticket; the choice window of 0 ledgers lets a postponed event resume at
  ledger 1, and `U32_MAX` 2 bounds the supply at what can be sold. The constraint `OneDetour` cuts the
  run down: sales, postponements, cancellations, refunds and payouts interleave freely, while of the
  things `Detours` counts (paused, statuses overridden, seats unmatched since before the link, a seat
  reserved, a ticket used, moved or recoverable, a split, another ticket limit, verifier or passports
  enabled) TLC goes on from states with at most one. A step into a second one is still checked. For
  any number of them together there are the theorems.
* `AttendeeShareCovered` speaks of cancelled events whose attendees got back no more than the
  cancellation leaves them. Without that condition the code does not keep the promise; see
  `pool_counts_refunds` below.
* `ContractsAgree` leaves out the supply: `add_ticket_tier` and `update_tier` do not pass it on, and
  the next change of details or dates does.
* What the three contracts do not keep is outside the properties by a condition they state.
  `StatusesAgree` says of each step that agreement is lost by the admin's `set_event_status` only.
  `SeatsHaveTickets` and `SeatsPaidFor` compare the two ends of a step made once the contracts are
  linked, so that seats and tickets sold or minted before stay unmatched by as much as they were, and
  `SeatsHaveTickets` counts the seat of an anonymous claim with its nullifier, as it gets no ticket.

Two runs assume fairness. `WF(Tick)`: ledgers close whatever the contracts do. `refunds` adds
`WF(ProcessDisputeTimeouts(e))`, `seats` adds `WF(ReleaseExpiredReservation(e, u))`: both calls need no
authorisation, work in every status (the first while the contract is paused, too) and cost a fee only,
so that anyone with a stake in the escrow or in a seat can make them. Nothing in the repository makes
them by itself: `DisputesEnd` and `ExpiredSeatsFreed` say that one such caller is enough. No attendee,
organizer or admin is assumed to act.

### Where the documents and the code disagree

Five runs end in a violation; each checks one sentence of the documents.

| run | sentence | what the code does |
|---|---|---|
| `pool_counts_refunds` | README.md:130, the remainder of a cancelled event stays escrowed for its attendees | the organizer's pool is a ratio of all volume, payments refunded in full included |
| `postponed_withdrawal` | README.md:142, withdrawals of every kind are frozen while `Postponed` | accrued platform fees and shares of a split settled earlier are still paid |
| `postponed_cancellation` | README.md:84, a `Postponed` event is cancelled with full refunds | the ratio is computed from the original schedule |
| `paid_out_then_refunded` | docs/THREAT_MODEL.md:121, the invariant check ensures consistent accounting | a payment of an event already paid out can be refunded from the money of another event, and the check, which reads the whole balance, passes |
| `batch_refund` | README.md:84, the postponement refund also revokes the ticket, so that a holder cannot both refund and attend | a batch is one payment for several tickets: the refund returns all of it and cancels one ticket |

The passing runs of the payments contract leave these cases out by their inputs, not by guards:
`settlement` has whole refunds and one event only. A dispute of a payment already refunded in part is
left out of it for a like reason: the ruling takes the full price from the revenue, of which a part was
gone before (payments lib.rs 2461), and the counter falls below the books.

## 4. What is proved

All for arbitrary constants: any number of users, events, tiers, tokens, payments or tickets, any
prices, rates and windows, subject to the named assumptions and to the hypotheses in the table.

| theorem | module | states | hypotheses |
|---|---|---|---|
| `TypeCorrect` | `PaymentsProofs` | `[]RecordsTypeOK`: all but the money counters | |
| `PaymentsTypeCorrect` | `BooksProofs` | `[]TypeOK`: with the money counters, none below zero | |
| `DisputesStayConsistent` | `PaymentsProofs` | `[]DisputesConsistent` | |
| `RefundsStayBounded` | `PaymentsProofs` | `[]RefundsBounded` | |
| `RefundedStaysFinal` | `PaymentsProofs` | `RefundedIsFinal` | |
| `PaymentIdentityStaysFixed` | `PaymentsProofs` | `PaymentIdentityFixed` | |
| `TotalsStayExact` | `BooksProofs` | `[]TotalsMatchPayments` | |
| `BalanceIsBooked` | `BooksProofs` | `[]BalanceMatchesBooks` | `ResalePrices = {}` |
| `EscrowStaysFrozen` | `BooksProofs` | `EscrowFrozenWhilePostponed` | |
| `RevenueStaysMatched` | `PromiseProofs` | `[]RevenueMatchesBooks` | `ResalePrices = {}`, `[]NoLateCancellation`, `[]WholeDisputes` |
| `PromisesStayCovered` | `PromiseProofs` | `[]PromisesCovered` | `FeesFit`, `[]NoLateCancellation` |
| `CancellationsStayCovered` | `PromiseProofs` | `[]AttendeeShareCovered` | `ResalePrices = {}`, `AdminStaysOut` |
| `AttendeesStayCovered` | `PromiseProofs` | the same | `ResalePrices = {}`, `[]LeftToCancellation`, `[][UnpaidWhenCancelled]_vars` |
| `EventsSettledOnce` | `TradeProofs` | `SettledOnce` | |
| `FlaggedSharesStayFrozen` | `TradeProofs` | `[]FlaggedShareFrozen` | |
| `SharesPaidExactly` | `TradeProofs` | `[]SplitPaidExactly` | |
| `OwnerIndexStaysExact` | `TradeProofs` | `[]OwnerIndexMatchesTickets` | |
| `ListingsStayByOwner` | `TradeProofs` | `[]ListingsByOwner` | |
| `RequestsAreUsedOnce` | `TradeProofs` | `[]RequestsUsedOnce` | |
| `SupplyStaysRespected` | `TradeProofs` | `[]SupplyRespected` | `SupplyIsFixed` |
| `RegistryTypeCorrect` | `TicketProofs` | `[]TypeOK` of the ticket contract | |
| `OwnerIndexStaysConsistent` | `TicketProofs` | `[]OwnerIndexConsistent` | |
| `AttendanceStaysConsistent` | `TicketProofs` | `[]AttendanceConsistent` | |
| `RegistryKeepsHoldings` | `TicketProofs` | `KeepsHoldings`, the refinement to `TicketHoldings` | |
| `EventTypeCorrect` | `SeatProofs` | `[]TypeOK` of the event contract | |
| `ReservedSeatsCounted` | `SeatProofs` | `[]ReservedCountsHolders` | |
| `CapacityStaysRespected` | `SeatProofs` | `[]CapacityRespected` | |
| `SupplyStaysMatched` | `SeatProofs` | `[]SupplyMatchesTiers` | |
| `AttendeesStayListed` | `SeatProofs` | `[]AttendeesListed` | |
| `PostponementsStayTracked` | `SeatProofs` | `[]PostponementTracked` | |
| `ReservationsKeepSeats` | `SeatProofs` | `KeepsSeats`, the refinement to `SeatLedger` | |
| `BoxRunsEventAndTicket` | `BoxOfficeProofs` | `BoxSpec` implies the specifications of the event and of the ticket contract | |
| `BoxRunsPayments` | `BoxOfficeProofs` | `BoxSpec` implies the specification of the payments contract | |
| `ContractsStayAgreed` | `BoxOfficeProofs` | `[]ContractsAgree` | |
| `StatusesStayAgreed` | `BoxOfficeProofs` | `StatusesAgree`: no step but the admin's override ends the agreement | |
| `SeatsKeepTickets` | `BoxOfficeProofs` | `SeatsHaveTickets`, of steps made once linked | |
| `SeatsStayPaidFor` | `BoxOfficeProofs` | `SeatsPaidFor`, of steps made once linked | |

Assumptions: `ConstantsAssumption` (inputs have their types; prices and asked refunds are positive,
as `create_payment` and `refund` demand; `None` is no user, number or commitment), `FiniteAssumption`
(events and users are finitely many), `NoneAssumption` (`None` is no record) and `BoundsAssumption`.
In the event contract `EventConstants` (inputs have their types, `Users` is finite) and `EventNone`.
`BoxOffice` assumes of its constants what the contracts do (`EventContractAssumption`,
`TicketContractAssumption`), that the event contract's address is no user's (`AddressAssumption`), that
direct mintings have their types (`MintAssumption`) and that nullifiers, 32 bytes each, are finitely
many (`NullifierAssumption`). TLC evaluates them in the runs.

The hypotheses are what the code needs, not what the provers need:

* `ResalePrices = {}`: a resale enters no running total, so with resales the balance exceeds the books;
  `BalanceInv` states, and the proof shows, that it never falls short of them.
* `SupplyIsFixed`: a later sync may carry a smaller supply than what is already sold.
* `NoLateCancellation`: no cancelled event has the ratio 10000. Where one has, `withdraw` pays a pool
  that counts refunded payments and zeroes the revenue, whatever is left (`pool_counts_refunds`).
* `WholeDisputes`: no payment in dispute was partly refunded before. A ruling then takes the full price
  from the revenue (section 3). `PromisesStayCovered` needs no such hypothesis: the revenue falls below
  the books, the contract never below what it owes.
* `AdminStaysOut`: the admin sets no status by hand (`set_event_status`), gives no escrow an end time
  and pays nothing out by `withdraw_revenue`. The `refunds` run has these constants. `UnpaidInv` derives
  the two conditions of `AttendeesStayCovered` from it: payouts ask for `Completed`, `Cancelled` or an end
  time, and a cancelled event never leaves that status. With the admin at work the conditions are what
  is needed: an event already paid out, or paid out as if it were not cancelled, has nothing left for
  its attendees (`paid_out_then_refunded`).
* `FeesFit`: no royalty and platform fee together exceed the price of a resale. Where they do, the
  contract keeps the price and books more than that.

The arguments:

* **Types.** `RecordsTypeOK` is everything but the money counters and is inductive by itself. The
  counters are sums and differences of each other, so that none going below zero is a matter of the
  accounting: `BooksInv` has it, from the disputes and the guards of each handler. The product in a
  share is only bounded (`ShareBounds`, `QuotientBounds`), never computed.
* **Disputes.** `DisputeInv == RecordsTypeOK /\ DisputesConsistent` is inductive. Lemmas state the
  few ways a handler may write the three stores: not at all, one payment that keeps its dispute
  status, one dispute closed, one raised, all timed-out ones of an event reinstated. Each handler is
  one of them.
* **Refunds.** `RefundInv` strengthens `RefundsBounded` with the reason it holds: a payment that is
  not `Standard` has no stored payer, and each refund path needs one. The step lemma says that a call
  makes a payment or leaves it the same purchase, refunded further at most; the two action
  properties follow from it too.
* **Sums.** `SumFunction` is a fold, and its lemmas (a sum is an integer, a sum that changes at one
  place, that gains a member, that is padded with zeros, scaled, reindexed, compared) come from an
  induction over the finite set it ranges over. The library states that induction for a predicate;
  `Sums` states it for a set, whose members are the subsets for which the claim holds
  (`NatSetInduction`, `FiniteSetInduction`).
* **Books.** `StepKinds` sorts every step of the payments contract: quiet, a purchase, a refund, a
  ruling, a dispute, a resale, a call on an event's escrow, a call on a share. `RefundCalls`,
  `EscrowCalls`, `SplitCalls` and `Resales` say what each kind writes. The balance then follows the
  books one event at a time (`BookedOn`, `BooksOfOneEvent`). The totals are sums over sets of payments
  that grow; `TotalsInv` sums over all payment slots instead, a slot that does not count being zero.
* **Settlement and splits.** A split is paid by `withdraw_split` and never by `withdraw`. `SettleInv`
  says why the two latches of an event exclude each other: a settled event has a split table, a latched
  configuration has none, and tables arrive with an event's first sync only. `ConfigFates` says that no
  sync, sale or payout clears the latch. (`ensure_split_settled` itself does not look at it.)
  `PaidInv` says that a share paid was paid out of a settlement, to a recipient, in the amount
  `RecipientShare` gives; a reassignment pays a share that is flagged, hence not paid yet. That the
  shares with their dust sum to the settlement is a lemma about floors (`IsFloor`, `SharesAddUp`) over
  the rows.
* **Sales.** `TicketInv` joins the owner index (`Indexes`, with lemmas about adding and removing a
  ticket without any state), the listings, and that a slot without a payment has neither owner nor
  listing. `RequestInv` adds to `RequestsUsedOnce` that the nullifier of every payment is spent.
  `SupplyInv` says that the configuration's counter never exceeds the payments made for the event, nor
  the supply.
* **Promises.** `Owed(e, t)` is what the contract owes of one event in one token, the payments in
  dispute summed over all slots. Every step leaves all of it and the balance as they were, or changes
  it for one event exactly as it changes the balance (`OwedOn`), a ruling at most so (`OwedWithin`).
  A time-out moves the sum of what it reinstates from the disputed side to the revenue
  (`AsideReleased`); a settlement moves revenue to unpaid shares, and a share paid takes as much from
  both sides. Resales need `FloorsTogether`: two floors of one price stay within it.
* **Cancellations.** `Spent(e, t)` is what left the event other than as a refund or waits to (accrued
  fees, unpaid shares). `SpentInv` says that a cancelled event spends at most the organizer's ratio of
  all its sales, and nothing before it is settled. It is inductive because the ratio is set once
  (`PartSetOnce`), the volume only grows (`VolumeGrows`), and a cancelled event is settled once, out of
  exactly that part (`SpentOnSettlement`): paying an accrued fee or a share of the settlement moves
  money within `Spent`. On the other side, what a payment got back and may still claim is the floor of
  its own part (`ClaimsWithinDues`), and the floors of all payments together are at most the refundable
  part of all sales (`DuesWithinVolume`, a comparison of two sums scaled by 10000). The two parts make
  up the sales (`PartsFit`).
* **Tickets.** `RegistryInv` adds to `OwnerIndexConsistent` and `AttendanceConsistent` that ids not
  yet minted are absent from every store. Removal by swap-and-pop and addition are lemmas about a
  position map and a list (`PointsInto`), without any state. For the refinement, the invariant makes
  the walk of an owner's list equal to the set of tickets that name the owner (`ListShowsOwned`), and
  each step is followed on the tickets: a mint issues, a transfer, sale or recovery hands over or, to
  the present owner, stutters, use and cancellation retire.
* **Seats.** `EventInv == TypeOK /\ PostponementTracked /\ SeatsInv /\ AttendeesListed` is inductive,
  and none of its parts is without the others. `TypeOK` needs the dates in order
  (`PostponementTracked`), since the new end is the new start plus a difference, and needs each
  reservation to name a tier that exists (`SeatsInv`), since releasing one writes that tier. The
  capacity needs the exact count of reservations: a registration with a reservation does not test the
  capacity, it gives back one of `reserved` and takes one of `sold`, and `saturating_sub` would sell a
  seat too many if the count could be 0. `SeatsInv` also says that an event before its sale has no
  reservation and nothing sold, which is why replacing or resizing a tier then is safe although
  `update_tier` does not look at `reserved`. The lemmas follow a seat: `HoldersMoved` and `SeatsMoved`
  for one user's reservation that appears, changes tier or goes, `SeatsSold` for a purchase,
  `ReservedSeatFree` for the seat a buyer brings along. The sums of `SupplyMatchesTiers` change at one
  tier a step.
* **Seats as a ledger.** `SeatLedger` has no counters, so that its test for free seats counts the
  holders. Under `SeatsInv` that number is `reserved` (`LedgerFree`), and each call becomes one of the
  ledger's steps: creation and tier changes `Plan`, a reservation `Hold`, a release `Release`, a
  registration or a batch `Sell`, a claim by proof `SellUnnamed`, a refund `Leave`; the rest stutters.
* **The three contracts.** The payments contract inside `BoxOffice` is an instance `PaymentsPart` of the
  payments contract alone: any positive amounts, any terms, split tables and deadlines of the right
  type, every event cancellable and payable by `withdraw_revenue`, no resale. Each transaction of the
  composition is a step of each contract or leaves it alone (`BoxRunsEventAndTicket`,
  `BoxRunsPayments`), so that every theorem about one contract holds in the composition too, with its
  hypotheses. The guard `OpenToEventContract`, assumed of the event contract in `Payments`, is
  discharged here. `BoxInv` is the inductive invariant: the invariants of the event and the ticket
  contract and the types of the payments contract, and for each event `Agrees`: the royalty is within
  the payments contract's limit, and an event is synced only once linked, exists, has the same terms
  but for the supply and, while it is postponed, the same end of the refund window, and a moment of
  cancellation only if cancelled. The step lemmas prove beside it that a pair of statuses in agreement stays so
  (`KeepsAgreed`) in every step but `Override`. `SeatsHaveTickets` follows the two counters: a
  registration or attendance sells and mints equally many (`SeatsMinted`), an anonymous claim takes a
  seat and a nullifier not yet counted (`SeatsClaimed`), and whatever refunds or transfers do, a ticket
  once minted keeps its event. For `SeatsPaidFor` the price of all seats sold (`Earned`, a sum over
  tiers) grows only by a registration, which books that much (`PaidSold`); a proof gets a free seat
  (`PaidFree`), a reservation sells none (`PaidHeld`), a tier's price changes only before the first sale
  (`PaidUnopened`), and the volume never shrinks.

Only model-checked:

* `DisputesEnd`, `ExpiredSeatsFreed`: liveness under fairness is out of the prover's reach.
* The five runs that end in a violation: a counterexample needs no proof.

## 5. What is not modelled, and why

* Factory: `initialize` and `deploy_event` append to an index that no later call changes.
* Event: `migrate` (a version counter); names, dates and venue, which decide nothing.
* Payments: `set_event_privacy` (what emitted events reveal), `set_ticket_contract`, `migrate`,
  `migrate_event` (it rebuilds indexes from a layout the present code never writes, so that there is no
  reachable state to start from), the `EventRevenue` counter and the withdrawal history, which only
  getters read, and `allow_free_ticket_transfer`.
* Ticket: `set_payments_contract`, `migrate` (a version counter), `is_transferable`, which nothing
  clears.
* Time-to-live of storage entries: every access extends it, and archived entries can be restored.
* privacy-utils, emitted events, getters: no state.
* Claim verifier, verifier crate, circuit: field and curve arithmetic, out of TLC's reach and
  stateless. Relayer, mock-event, scripts: no contract state.

## 6. Plan

What is left, in the order of its worth:

1. `BoxOffice` with resales. `buy_resale_ticket` moves a ticket of the ticket contract by the id of a
   payments ticket (payments lib.rs 2361), and the two counters diverge with the first batch or free
   ticket.
2. The rates of a resale above 100 % together (payments lib.rs 2330), and the migration of legacy
   indexes once a version that writes them is at hand.
3. The factory, with upgrades of deployed contracts.
