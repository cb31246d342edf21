-------------------------------- MODULE Payouts --------------------------------
(***************************************************************************)
(* The ways escrowed revenue leaves the contract: withdraw,                *)
(* withdraw_revenue, withdraw_token, withdraw_all_tokens,                  *)
(* release_if_expired, withdraw_platform_revenue, and the split path that  *)
(* settles an event once and pays each recipient its frozen share.         *)
(***************************************************************************)
EXTENDS Refunds

\* ensure_no_splits.
NoSplits(e) == splits[e] = <<>>

\* Mutant: the freeze is not looked at.
NeverPostponed(e) == TRUE

NotPostponed(e) == status[e] # "Postponed"

Latched(e) == config[e] # None /\ config[e].organizer_withdrawn

\* The status and timing rules withdraw and ensure_split_settled share.
PayoutUnlocked(e) ==
  LET c == config[e] IN
  \/ /\ status[e] = "Completed"
     /\ now >= c.terms.event_end_ledger + c.terms.withdrawal_delay_ledgers
                 + c.admin_delay_extension_ledgers
  \/ /\ status[e] = "Cancelled"
     /\ c.cancel_ledger # None
     /\ now >= c.cancel_ledger + MIN_DISPUTE_WINDOW_LEDGERS
     /\ c.withdrawable_ratio_bps \notin {0, None}

\* The share of the event both paths may pay out.
WithdrawableRatio(e) ==
  IF status[e] = "Cancelled" THEN config[e].withdrawable_ratio_bps ELSE 10000

\* collect_cancellation_organizer_pool: the ratio of everything ever paid for
\* the event, refunded payments included, except what is in dispute.
CancellationOrganizerPool(e, t) ==
  Share(totalVolume[e][t]
          - SumFunction([i \in {j \in OpenDisputes(e) : payments[j].token = t} |->
                           payments[i].amount]),
        config[e].withdrawable_ratio_bps)

\* Mutant: a cancelled event pays out like any other.
WholeRevenue(e) == RevenueAfterTimeouts(e, AcceptedToken)

\* What a settlement distributes, fee included.
TotalToWithdraw(e) ==
  IF status[e] = "Cancelled" THEN CancellationOrganizerPool(e, AcceptedToken)
  ELSE RevenueAfterTimeouts(e, AcceptedToken)

\* The revenue left in the payout token after a settlement of `total`.
RevenueLeft(e, total) ==
  IF WithdrawableRatio(e) = 10000 THEN 0
  ELSE RevenueAfterTimeouts(e, AcceptedToken) - total

\* Mutant: what a timed-out dispute restores in another token is lost.
SetRevenueOfPaid(e, paid, left) ==
  tokenRevenue' = [tokenRevenue EXCEPT ![e] = [t \in Tokens |->
    IF t \in paid THEN left ELSE @[t]]]

\* Event e's revenue becomes `left` in the tokens `paid`, and what its
\* timed-out disputes restore is added in the others.
SetRevenue(e, paid, left) ==
  tokenRevenue' = [tokenRevenue EXCEPT ![e] = [t \in Tokens |->
    IF t \in paid THEN left ELSE RevenueAfterTimeouts(e, t)]]

\* A transfer out that is booked as withdrawn.
BookWithdrawal(e, t, amount) ==
  /\ SendOut(t, amount)
  /\ totalWithdrawn' = [totalWithdrawn EXCEPT ![e][t] = @ + amount]

Latch(e) ==
  config' = IF config[e] = None THEN config
            ELSE [config EXCEPT ![e].organizer_withdrawn = TRUE]

AccruePlatformFee(e, fee) ==
  platformRevenue' = [platformRevenue EXCEPT ![e] = @ + fee]

\* Every payout leaves this alone.
PayoutFrame == UNCHANGED <<now, adminVars, status, postponeDeadline, privacy,
                           saleVars, ticketVars, totalVolume, totalRefunds,
                           eventTokens>>

-----------------------------------------------------------------------------
(* Single-organizer payouts.                                               *)

\* withdraw, by the event's organizer.
Withdraw(e) ==
  LET total == TotalToWithdraw(e)
      fee == Share(total, platformFeeBps)
  IN
  /\ ~paused
  /\ NoSplits(e)
  /\ config[e] # None
  /\ ~config[e].organizer_withdrawn
  /\ PayoutUnlocked(e)
  /\ RevenueInvariant(e)
  /\ OpenDisputes(e) = {}
  /\ RevenueAfterTimeouts(e, AcceptedToken) > 0
  /\ total > 0
  /\ ReleaseTimedOut(e)
  /\ BookWithdrawal(e, AcceptedToken, total - fee)
  /\ AccruePlatformFee(e, fee)
  /\ SetRevenue(e, {AcceptedToken}, RevenueLeft(e, total))
  /\ Latch(e)
  /\ PayoutFrame
  /\ UNCHANGED <<escrowMeta, splitVars>>

\* withdraw_revenue, by the admin: no timing rule, but the same latch.
WithdrawRevenue(e) ==
  LET total == RevenueAfterTimeouts(e, AcceptedToken)
      fee == Share(total, platformFeeBps)
  IN
  /\ ~paused
  /\ NoSplits(e)
  /\ NotPostponed(e)
  /\ ~Latched(e)
  /\ RevenueInvariant(e)
  /\ total > 0
  /\ ReleaseTimedOut(e)
  /\ BookWithdrawal(e, AcceptedToken, total - fee)
  /\ AccruePlatformFee(e, fee)
  /\ SetRevenue(e, {AcceptedToken}, 0)
  /\ Latch(e)
  /\ PayoutFrame
  /\ UNCHANGED <<escrowMeta, splitVars>>

\* withdraw_token: the caller names the beneficiary; no fee and no latch.
WithdrawToken(e, t) ==
  /\ ~paused
  /\ NoSplits(e)
  /\ status[e] = "Completed"
  /\ RevenueInvariant(e)
  /\ RevenueAfterTimeouts(e, t) > 0
  /\ ReleaseTimedOut(e)
  /\ BookWithdrawal(e, t, RevenueAfterTimeouts(e, t))
  /\ SetRevenue(e, {t}, 0)
  /\ PayoutFrame
  /\ UNCHANGED <<config, escrowMeta, platformRevenue, splitVars>>

\* The tokens of event e that hold revenue, and a payout of all of it.
Funded(e) == {t \in eventTokens[e] : RevenueAfterTimeouts(e, t) > 0}

\* Mutant: the books show every payout in the accepted token.
DrainIntoOneBook(e) ==
  /\ \A t \in Funded(e) : RevenueAfterTimeouts(e, t) <= balance[t]
  /\ balance' = [t \in Tokens |->
       IF t \in Funded(e) THEN balance[t] - RevenueAfterTimeouts(e, t) ELSE balance[t]]
  /\ totalWithdrawn' = [totalWithdrawn EXCEPT ![e][AcceptedToken] =
       @ + SumFunction([t \in Funded(e) |-> RevenueAfterTimeouts(e, t)])]
  /\ SetRevenue(e, Funded(e), 0)

DrainAllTokens(e) ==
  /\ \A t \in Funded(e) : RevenueAfterTimeouts(e, t) <= balance[t]
  /\ balance' = [t \in Tokens |->
       IF t \in Funded(e) THEN balance[t] - RevenueAfterTimeouts(e, t) ELSE balance[t]]
  /\ totalWithdrawn' = [totalWithdrawn EXCEPT ![e] = [t \in Tokens |->
       IF t \in Funded(e) THEN @[t] + RevenueAfterTimeouts(e, t) ELSE @[t]]]
  /\ SetRevenue(e, Funded(e), 0)

\* withdraw_all_tokens.
WithdrawAllTokens(e) ==
  /\ ~paused
  /\ NoSplits(e)
  /\ status[e] = "Completed"
  /\ RevenueInvariant(e)
  /\ Funded(e) # {}
  /\ ReleaseTimedOut(e)
  /\ DrainAllTokens(e)
  /\ PayoutFrame
  /\ UNCHANGED <<config, escrowMeta, platformRevenue, splitVars>>

\* release_if_expired: anyone, once both ends have passed; it refuses a
\* postponed event and pays a cancelled one in full.
ReleaseIfExpired(e) ==
  /\ ~paused
  /\ NoSplits(e)
  /\ escrowMeta[e] # None
  /\ ~escrowMeta[e].auto_released
  /\ NotPostponed(e)
  /\ now >= escrowMeta[e].event_end_time
  /\ config[e] # None => now >= config[e].terms.event_end_ledger
  /\ RevenueInvariant(e)
  /\ ReleaseTimedOut(e)
  /\ DrainAllTokens(e)
  /\ escrowMeta' = [escrowMeta EXCEPT ![e].auto_released = TRUE]
  /\ PayoutFrame
  /\ UNCHANGED <<config, platformRevenue, splitVars>>

\* withdraw_platform_revenue, by the admin.
WithdrawPlatformRevenue(e) ==
  /\ ~paused
  /\ platformRevenue[e] > 0
  /\ BookWithdrawal(e, AcceptedToken, platformRevenue[e])
  /\ platformRevenue' = [platformRevenue EXCEPT ![e] = 0]
  /\ PayoutFrame
  /\ UNCHANGED <<config, escrowMeta, payments, disputeVars, tokenRevenue, splitVars>>

-----------------------------------------------------------------------------
(* Split payouts.                                                          *)

Recipients(e) == {splits[e][k].recipient : k \in DOMAIN splits[e]}
Primary(e) == splits[e][1].recipient

\* Mutant: the primary's share is rounded down too.
FlooredShare(e, u, net) ==
  LET k == CHOOSE j \in DOMAIN splits[e] : splits[e][j].recipient = u
  IN Share(net, splits[e][k].basis_points)

\* recipient_share: the floor of each co-host's part; the rest is the primary's.
RecipientShare(e, u, net) ==
  IF u = Primary(e)
  THEN net - SumFunction([k \in 2..Len(splits[e]) |->
                          Share(net, splits[e][k].basis_points)])
  ELSE LET k == CHOOSE j \in DOMAIN splits[e] : splits[e][j].recipient = u
       IN Share(net, splits[e][k].basis_points)

\* The first settlement: the rules of withdraw, except that a cancelled event's
\* revenue is not looked at.
SettleSplit(e) ==
  LET total == TotalToWithdraw(e)
      fee == Share(total, platformFeeBps)
  IN
  /\ config[e] # None
  /\ PayoutUnlocked(e)
  /\ RevenueInvariant(e)
  /\ OpenDisputes(e) = {}
  /\ total > 0
  /\ total - fee > 0
  /\ ReleaseTimedOut(e)
  /\ AccruePlatformFee(e, fee)
  /\ SetRevenue(e, {AcceptedToken}, RevenueLeft(e, total))
  /\ settlement' = [settlement EXCEPT ![e] = total - fee]

\* Mutant: every call settles anew.
SettleEveryTime(e) == SettleSplit(e)

\* ensure_split_settled: nothing once a settlement exists.
EnsureSplitSettled(e) ==
  \/ /\ settlement[e] # None
     /\ UNCHANGED <<settlement, payments, disputeVars, tokenRevenue, platformRevenue>>
  \/ /\ settlement[e] = None
     /\ SettleSplit(e)

\* A recipient's share of the settlement leaves the contract, to whomever.
PayShare(e, u) ==
  LET share == RecipientShare(e, u, settlement'[e]) IN
  /\ share > 0
  /\ BookWithdrawal(e, AcceptedToken, share)
  /\ splitWithdrawn' = [splitWithdrawn EXCEPT ![e][u] = share]

\* withdraw_split, by recipient u.
WithdrawSplit(e, u) ==
  /\ ~paused
  /\ u \in Recipients(e)
  /\ ~splitFlagged[e][u]
  /\ splitWithdrawn[e][u] = 0
  /\ EnsureSplitSettled(e)
  /\ PayShare(e, u)
  /\ PayoutFrame
  /\ UNCHANGED <<config, escrowMeta, splits, splitFlagged>>

\* Mutant: a recipient that was paid may be flagged.
FlagPaidCohost(e, u) ==
  /\ ~paused
  /\ u \in Recipients(e)
  /\ u # Primary(e)
  /\ splitFlagged' = [splitFlagged EXCEPT ![e][u] = TRUE]
  /\ UNCHANGED <<now, adminVars, eventVars, saleVars, payments, ticketVars,
                 disputeVars, bookVars, splits, settlement, splitWithdrawn>>

\* flag_cohost, by the primary organizer.
FlagCohost(e, u) ==
  /\ ~paused
  /\ u \in Recipients(e)
  /\ u # Primary(e)
  /\ splitWithdrawn[e][u] = 0
  /\ splitFlagged' = [splitFlagged EXCEPT ![e][u] = TRUE]
  /\ UNCHANGED <<now, adminVars, eventVars, saleVars, payments, ticketVars,
                 disputeVars, bookVars, splits, settlement, splitWithdrawn>>

\* resolve_flagged_share by the admin: ReleaseToRecipient.
ReleaseFlaggedShare(e, u) ==
  /\ ~paused
  /\ u \in Recipients(e)
  /\ splitFlagged[e][u]
  /\ splitFlagged' = [splitFlagged EXCEPT ![e][u] = FALSE]
  /\ UNCHANGED <<now, adminVars, eventVars, saleVars, payments, ticketVars,
                 disputeVars, bookVars, splits, settlement, splitWithdrawn>>

\* resolve_flagged_share by the admin: ReassignToPrimary pays u's share to the
\* primary organizer and marks u as paid.
ReassignFlaggedShare(e, u) ==
  /\ ~paused
  /\ u \in Recipients(e)
  /\ splitFlagged[e][u]
  /\ splitWithdrawn[e][u] = 0
  /\ EnsureSplitSettled(e)
  /\ PayShare(e, u)
  /\ splitFlagged' = [splitFlagged EXCEPT ![e][u] = FALSE]
  /\ PayoutFrame
  /\ UNCHANGED <<config, escrowMeta, splits>>
=============================================================================
