------------------------------ MODULE TicketSales ------------------------------
(***************************************************************************)
(* Buying a ticket, binding a receipt commitment to it and reselling it:   *)
(* create_payment and its three entry points, bind_email_commitment and    *)
(* the resale handlers of contracts/payments.                              *)
(***************************************************************************)
EXTENDS PaymentsState

-----------------------------------------------------------------------------
(* Purchases.  A request p carries the fields of PaymentParams.            *)

\* The ledger key that remembers the nonce of request p.
NonceKey(p) ==
  CASE p.level = "Standard"  -> <<"payer", p.payer, p.nonce>>
    [] p.level = "Private"   -> <<"hash", p.payer, p.nonce>>
    [] p.level = "Anonymous" -> <<"nullifier", p.nullifier, p.nonce>>

\* Mutant: the request is looked up under the payer's address at every level.
AlreadyUsedByPayer(p) == <<"payer", p.payer, p.nonce>> \in usedNonces

AlreadyUsed(p) == NonceKey(p) \in usedNonces

\* validate_payment_privacy: the rules are about what the request declares.
PrivacyAllows(p) ==
  /\ p.is_anonymous => privacy[p.event].allow_anonymous
  /\ privacy[p.event].requires_verification => p.is_verified

\* Mutant: the supply cap is off by one.
WithinCapsInclusive(p) ==
  config[p.event] # None =>
    LET c == config[p.event]
    IN /\ c.terms.max_supply > 0 => c.sold_count <= c.terms.max_supply
       /\ (c.terms.max_tickets_per_user > 0 /\ p.level # "Anonymous") =>
            userTickets[p.event][p.payer][p.level] < c.terms.max_tickets_per_user

\* The supply and per-user caps of a synced event; Anonymous has no user cap.
WithinCaps(p) ==
  config[p.event] # None =>
    LET c == config[p.event]
    IN /\ c.terms.max_supply > 0 => c.sold_count < c.terms.max_supply
       /\ (c.terms.max_tickets_per_user > 0 /\ p.level # "Anonymous") =>
            userTickets[p.event][p.payer][p.level] < c.terms.max_tickets_per_user

\* Slot `count` of the owner's list receives the ticket.
AddOwnerTicket(index, u, i) == [index EXCEPT ![u] = Append(@, i)]

\* Mutant: the list is cut short and the last ticket is not moved.
RemoveLastOwnerTicket(index, u, i) ==
  LET list == index[u]
  IN IF \A k \in DOMAIN list : list[k] # i THEN index
     ELSE [index EXCEPT ![u] = SubSeq(list, 1, Len(list) - 1)]

\* The last ticket of the owner's list moves into the slot of the removed one.
RemoveOwnerTicket(index, u, i) ==
  LET list == index[u]
      last == Len(list)
      at == {k \in 1..last : list[k] = i}
  IN IF at = {} THEN index
     ELSE [index EXCEPT ![u] =
             [k \in 1..(last - 1) |-> IF k \in at THEN list[last] ELSE list[k]]]

NextId == {i \in PaymentIds : payments[i] = None /\ \A j \in 1..(i - 1) : payments[j] # None}

\* create_payment.
CreatePayment(p) ==
  LET payer == IF p.level = "Standard" THEN p.payer ELSE None
      e == p.event
      t == p.token
  IN
  /\ ~paused
  /\ ~AlreadyUsed(p)
  /\ PrivacyAllows(p)
  /\ WithinCaps(p)
  /\ status[e] \notin {"Completed", "Cancelled", "Postponed"}
  /\ t \in supportedTokens
  /\ p.level = "Anonymous" <=> p.nullifier # None
  /\ p.nullifier \notin spentNullifiers
  /\ \E i \in NextId :
       /\ payments' = [payments EXCEPT ![i] =
            [event |-> e, payer |-> payer, amount |-> p.amount,
             refunded_amount |-> 0, token |-> t, status |-> "Held",
             level |-> p.level, nullifier_commitment |-> p.nullifier,
             zk_email_commitment |-> p.commitment]]
       /\ owner' = [owner EXCEPT ![i] = payer]
       /\ ownerTickets' = IF payer = None THEN ownerTickets
                          ELSE AddOwnerTicket(ownerTickets, payer, i)
  /\ usedNonces' = usedNonces \cup {NonceKey(p)}
  /\ spentNullifiers' = spentNullifiers \cup ({p.nullifier} \ {None})
  /\ userTickets' = IF p.level = "Anonymous" THEN userTickets
                    ELSE [userTickets EXCEPT ![e][p.payer][p.level] = @ + 1]
  /\ config' = IF config[e] = None THEN config
               ELSE [config EXCEPT ![e].sold_count = @ + 1]
  /\ balance' = [balance EXCEPT ![t] = @ + p.amount]
  /\ tokenRevenue' = [tokenRevenue EXCEPT ![e][t] = @ + p.amount]
  /\ totalVolume' = [totalVolume EXCEPT ![e][t] = @ + p.amount]
  /\ eventTokens' = [eventTokens EXCEPT ![e] = @ \cup {t}]
  /\ UNCHANGED <<now, adminVars, status, postponeDeadline, escrowMeta, privacy,
                 resaleListing, disputeVars, totalRefunds, totalWithdrawn,
                 platformRevenue, splitVars>>

\* pay_for_ticket: any privacy level, nothing declared about the buyer.
PayForTicket ==
  \E u \in Users, e \in Events, a \in Amounts, t \in Tokens, n \in Nonces,
     level \in Levels, nullifier \in Nullifiers \cup {None} :
    CreatePayment([payer |-> u, event |-> e, amount |-> a, token |-> t,
                   nonce |-> n, level |-> level, nullifier |-> nullifier,
                   commitment |-> None,
                   is_anonymous |-> FALSE, is_verified |-> FALSE])

\* pay_for_ticket_with_commitment: it passes neither a nullifier nor a stealth
\* key, so only a Standard purchase can be recorded.
PayForTicketWithCommitment ==
  \E u \in Users, e \in Events, a \in Amounts, t \in Tokens, n \in Nonces,
     c \in EmailCommitments :
    /\ "Standard" \in Levels
    /\ CreatePayment([payer |-> u, event |-> e, amount |-> a, token |-> t,
                      nonce |-> n, level |-> "Standard", nullifier |-> None,
                      commitment |-> c,
                      is_anonymous |-> FALSE, is_verified |-> FALSE])

\* pay_for_ticket_with_options: Standard, with what the buyer declares.
PayForTicketWithOptions ==
  \E u \in Users, e \in Events, a \in Amounts, t \in Tokens, n \in Nonces,
     anonymous, verified \in BOOLEAN :
    /\ "Standard" \in Levels
    /\ CreatePayment([payer |-> u, event |-> e, amount |-> a, token |-> t,
                      nonce |-> n, level |-> "Standard", nullifier |-> None,
                      commitment |-> None,
                      is_anonymous |-> anonymous, is_verified |-> verified])

\* Mutant: a commitment may be bound over another.
RebindEmailCommitment(i, c) ==
  /\ ~paused
  /\ payments[i] # None
  /\ payments[i].payer # None
  /\ payments[i].status # "Refunded"
  /\ payments' = [payments EXCEPT ![i].zk_email_commitment = c]
  /\ UNCHANGED <<now, adminVars, eventVars, saleVars, ticketVars, disputeVars,
                 bookVars, splitVars>>

\* bind_email_commitment, by the payer.
BindEmailCommitment(i, c) ==
  /\ ~paused
  /\ payments[i] # None
  /\ payments[i].payer # None
  /\ payments[i].status # "Refunded"
  /\ payments[i].zk_email_commitment = None
  /\ payments' = [payments EXCEPT ![i].zk_email_commitment = c]
  /\ UNCHANGED <<now, adminVars, eventVars, saleVars, ticketVars, disputeVars,
                 bookVars, splitVars>>

-----------------------------------------------------------------------------
(* Resale.  The ticket contract is asked to move its own ticket of the     *)
(* same number; when it refuses, the whole call is undone.                 *)

\* list_ticket_for_resale, by the owner of a Standard ticket.  Neither the
\* status of the payment nor the sign of the price is looked at; the checks on
\* free tickets never fire, since create_payment refuses an amount of zero.
ListTicketForResale(i, price) ==
  LET e == payments[i].event IN
  /\ ~paused
  /\ payments[i] # None
  /\ owner[i] # None
  /\ config[e] # None
  /\ config[e].terms.max_resale_price # None =>
       price <= config[e].terms.max_resale_price
  /\ resaleListing' =
       [resaleListing EXCEPT ![i] = [price |-> price, seller |-> owner[i]]]
  /\ UNCHANGED <<now, adminVars, eventVars, saleVars, payments, owner,
                 ownerTickets, disputeVars, bookVars, splitVars>>

\* delist_ticket, by the seller of the listing.
DelistTicket(i) ==
  /\ ~paused
  /\ resaleListing[i] # None
  /\ resaleListing' = [resaleListing EXCEPT ![i] = None]
  /\ UNCHANGED <<now, adminVars, eventVars, saleVars, payments, owner,
                 ownerTickets, disputeVars, bookVars, splitVars>>

\* Mutant: the listing of a sold ticket stays.
TransferKeepingListing(i, seller, buyer) ==
  /\ owner' = [owner EXCEPT ![i] = buyer]
  /\ ownerTickets' =
       AddOwnerTicket(RemoveOwnerTicket(ownerTickets, seller, i), buyer, i)
  /\ UNCHANGED resaleListing

\* The ticket, the owner index and the listing after a sale.
TransferTicket(i, seller, buyer) ==
  /\ owner' = [owner EXCEPT ![i] = buyer]
  /\ ownerTickets' =
       AddOwnerTicket(RemoveOwnerTicket(ownerTickets, seller, i), buyer, i)
  /\ resaleListing' = [resaleListing EXCEPT ![i] = None]

\* Mutant: the seller is paid the royalty too.
ProceedsBeforeRoyalty(price, fee, royalty) == price - fee

SellerProceeds(price, fee, royalty) == price - fee - royalty

\* buy_resale_ticket: the buyer pays in, the seller is paid out what the fee
\* and the royalty leave, and the ticket changes hands.  MaxTurnover bounds the model.
BuyResaleTicket(i, buyer) ==
  LET seller == resaleListing[i].seller
      price == resaleListing[i].price
      e == payments[i].event
      t == AcceptedToken
      fee == IF price > 0 THEN Share(price, platformFeeBps) ELSE 0
      royalty == IF price > 0
                 THEN Share(price, config[e].terms.resale_royalty_bps) ELSE 0
      proceeds == SellerProceeds(price, fee, royalty)
      kept == IF price <= 0 THEN 0 ELSE IF proceeds > 0 THEN price - proceeds ELSE price
  IN
  /\ ~paused
  /\ resaleListing[i] # None
  /\ payments[i] # None
  /\ owner[i] = seller
  /\ config[e] # None
  /\ balance[t] + kept + totalWithdrawn[e][t] + totalRefunds[e][t] <= MaxTurnover
  /\ balance' = [balance EXCEPT ![t] = @ + kept]
  /\ platformRevenue' = [platformRevenue EXCEPT ![e] = @ + fee]
  /\ tokenRevenue' = [tokenRevenue EXCEPT ![e][t] = @ + royalty]
  /\ TransferTicket(i, seller, buyer)
  /\ UNCHANGED <<now, adminVars, eventVars, saleVars, payments, disputeVars,
                 totalVolume, totalRefunds, totalWithdrawn, eventTokens, splitVars>>
=============================================================================
