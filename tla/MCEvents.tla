------------------------------- MODULE MCEvents -------------------------------
(***************************************************************************)
(* The event contract by itself, for TLC: one event with a priced tier of  *)
(* two seats and a free one, two attendees and the organizer.              *)
(***************************************************************************)
EXTENDS EventContract

CONSTANTS alice, bob, e1, n1, c1

MCUsers == {alice, bob}

Terms == [max_tickets_per_user |-> 2, resale_royalty_bps |-> 500,
          max_resale_price |-> None, allow_anonymous |-> FALSE,
          requires_verification |-> FALSE]

Offer == [organizer |-> alice, details |-> Terms,
          initial_tiers |-> <<[price |-> 1, capacity |-> 2]>>,
          privacy_level |-> "Standard", event_start_ledger |-> 2,
          event_end_ledger |-> 3, withdrawal_delay_ledgers |-> 1,
          revenue_splits |-> <<>>]

MCOffers == {Offer}

MCChanges == {[Terms EXCEPT !.max_resale_price = 2, !.max_tickets_per_user = 0,
                            !.allow_anonymous = TRUE, !.requires_verification = TRUE]}

MCTiers == {[price |-> 0, capacity |-> 1]}

MCClaimRules == {[max_free_claims |-> 1, cooldown_secs |-> 1]}

MCAnonRules == {[max_anon_claims_per_window |-> 1, anon_window_size |-> 2]}

MCClaims == [nullifier: {n1}, ticket_commitment: {c1}, expiry_ledger: {2}]
=============================================================================
