-------------------------- MODULE EventAdministration --------------------------
(***************************************************************************)
(* What the event contract and the admin tell the payments contract: an    *)
(* event's terms, splits and privacy, its cancellation, postponement and   *)
(* resumption, its status, escrow end and extra delay, the fee, the        *)
(* supported tokens and the pause switch.                                  *)
(***************************************************************************)
EXTENDS PaymentsState, RevenueSplits

\* What every handler of this module leaves alone.
AdministrationFrame ==
  UNCHANGED <<now, saleVars, payments, ticketVars, disputeVars, bookVars,
              settlement, splitWithdrawn, splitFlagged>>

-----------------------------------------------------------------------------
(* Called by the event contract.                                           *)

\* Mutant: every sync writes the configuration afresh.
SyncEventConfigAfresh(e, terms) ==
  /\ ~paused
  /\ config' = [config EXCEPT ![e] =
       [terms |-> terms, sold_count |-> 0,
        admin_delay_extension_ledgers |-> 0, cancel_ledger |-> None,
        withdrawable_ratio_bps |-> None, organizer_withdrawn |-> FALSE]]
  /\ AdministrationFrame
  /\ UNCHANGED <<adminVars, status, postponeDeadline, escrowMeta, privacy, splits>>

\* New terms, with everything the contract itself keeps about the event
\* carried over.
StoreConfig(e, terms) ==
  \/ /\ config[e] = None
     /\ config' = [config EXCEPT ![e] =
          [terms |-> terms, sold_count |-> 0,
           admin_delay_extension_ledgers |-> 0, cancel_ledger |-> None,
           withdrawable_ratio_bps |-> None, organizer_withdrawn |-> FALSE]]
  \/ /\ config[e] # None
     /\ config[e].terms.organizer = terms.organizer
     /\ config' = [config EXCEPT ![e].terms = terms]

\* sync_event_config.
SyncEventConfig(e, terms) ==
  /\ ~paused
  /\ StoreConfig(e, terms)
  /\ AdministrationFrame
  /\ UNCHANGED <<adminVars, status, postponeDeadline, escrowMeta, privacy, splits>>

\* sync_event_privacy.
SyncEventPrivacy(e, rules) ==
  /\ ~paused
  /\ privacy' = [privacy EXCEPT ![e] = rules]
  /\ AdministrationFrame
  /\ UNCHANGED <<adminVars, config, status, postponeDeadline, escrowMeta, splits>>

\* sync_revenue_splits: once per event.
StoreSplits(e, rows, organizer) ==
  /\ splits[e] = <<>>
  /\ ValidSplits(rows, organizer)
  /\ splits' = [splits EXCEPT ![e] = rows]

\* What create_event calls in one transaction: sync_event_config and then, for
\* an event with a split, sync_revenue_splits, which nothing else calls.
SyncNewEvent(e, terms, rows) ==
  /\ ~paused
  /\ StoreConfig(e, terms)
  /\ IF rows = <<>> THEN UNCHANGED splits ELSE StoreSplits(e, rows, terms.organizer)
  /\ AdministrationFrame
  /\ UNCHANGED <<adminVars, status, postponeDeadline, escrowMeta, privacy>>

\* Mutant: the ratio goes on growing after the end.
UncappedRatio(terms) ==
  IF now < terms.event_start_ledger THEN 0
  ELSE ((now - terms.event_start_ledger) * 10000)
         \div (terms.event_end_ledger - terms.event_start_ledger)

\* The organizer's share of a cancellation: none before the start, all from
\* the end on, and pro rata to the elapsed time in between.
CancellationRatio(terms) ==
  IF now < terms.event_start_ledger THEN 0
  ELSE IF now >= terms.event_end_ledger THEN 10000
  ELSE ((now - terms.event_start_ledger) * 10000)
         \div (terms.event_end_ledger - terms.event_start_ledger)

\* cancel_event: neither a pause nor the event's status stops it.
CancelEvent(e) ==
  /\ config[e] # None
  /\ config' = [config EXCEPT
       ![e].cancel_ledger = now,
       ![e].withdrawable_ratio_bps = CancellationRatio(config[e].terms)]
  /\ status' = [status EXCEPT ![e] = "Cancelled"]
  /\ AdministrationFrame
  /\ UNCHANGED <<adminVars, postponeDeadline, escrowMeta, privacy, splits>>

\* postpone_event.
PostponeEvent(e, deadline) ==
  /\ ~paused
  /\ config[e] # None
  /\ status' = [status EXCEPT ![e] = "Postponed"]
  /\ postponeDeadline' = [postponeDeadline EXCEPT ![e] = deadline]
  /\ AdministrationFrame
  /\ UNCHANGED <<adminVars, config, escrowMeta, privacy, splits>>

\* What resume_event writes; that the event has a configuration and whose it
\* is was settled by the call before it.
Reactivate(e) ==
  /\ status[e] = "Postponed"
  /\ status' = [status EXCEPT ![e] = "Active"]
  /\ postponeDeadline' = [postponeDeadline EXCEPT ![e] = None]

\* What finalize_postponement calls in one transaction: sync_event_config and
\* then resume_event, which nothing else calls.
SyncAndResume(e, terms) ==
  /\ ~paused
  /\ StoreConfig(e, terms)
  /\ Reactivate(e)
  /\ AdministrationFrame
  /\ UNCHANGED <<adminVars, escrowMeta, privacy, splits>>

-----------------------------------------------------------------------------
(* Called by the admin.                                                    *)

\* set_event_status.
SetEventStatus(e, s) ==
  /\ ~paused
  /\ status' = [status EXCEPT ![e] = s]
  /\ AdministrationFrame
  /\ UNCHANGED <<adminVars, config, postponeDeadline, escrowMeta, privacy, splits>>

\* set_event_end_time: the metadata is written anew, auto_released included.
SetEventEndTime(e, organizer, end) ==
  /\ ~paused
  /\ escrowMeta' = [escrowMeta EXCEPT ![e] =
       [organizer |-> organizer, event_end_time |-> end, auto_released |-> FALSE]]
  /\ AdministrationFrame
  /\ UNCHANGED <<adminVars, config, status, postponeDeadline, privacy, splits>>

\* extend_withdrawal_delay: not stopped by a pause.
ExtendWithdrawalDelay(e, additional) ==
  /\ config[e] # None
  /\ config[e].admin_delay_extension_ledgers + additional <= MaxDelay
  /\ config' = [config EXCEPT ![e].admin_delay_extension_ledgers = @ + additional]
  /\ AdministrationFrame
  /\ UNCHANGED <<adminVars, status, postponeDeadline, escrowMeta, privacy, splits>>

\* set_platform_fee.
SetPlatformFee(bps) ==
  /\ ~paused
  /\ platformFeeBps' = bps
  /\ AdministrationFrame
  /\ UNCHANGED <<paused, supportedTokens, eventVars, splits>>

\* set_paused.
SetPaused(p) ==
  /\ paused' = p
  /\ AdministrationFrame
  /\ UNCHANGED <<platformFeeBps, supportedTokens, eventVars, splits>>

\* add_supported_token.
AddSupportedToken(t) ==
  /\ supportedTokens' = supportedTokens \cup {t}
  /\ AdministrationFrame
  /\ UNCHANGED <<paused, platformFeeBps, eventVars, splits>>
=============================================================================
