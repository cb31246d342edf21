--------------------------------- MODULE Seats ---------------------------------
(***************************************************************************)
(* The calls on the event contract that reserve, sell and free seats: the  *)
(* attendees' reservations and registrations, the postponement refund,     *)
(* anonymous claims and passport attendance.  What they ask of the         *)
(* payments and the ticket contract is joined to them in BoxOffice; here   *)
(* `held` and `keepsTicket` stand for the ticket contract's answers.       *)
(***************************************************************************)
EXTENDS EventLifecycle

HasReservation(e, u) == reservation[e][u] # None

\* The reservation may be replaced or released.  A registration still
\* accepts it in the ledger it expires at.
Expired(e, u) == reservation[e][u].expires_at <= now

\* Mutant: reserved seats are sold.
HasUnsoldSeats(t, n) == t.sold + n <= t.capacity

HasSeats(t, n) == t.sold + t.reserved + n <= t.capacity

\* Mutant: the seat stays reserved.
KeepReserved(t) == t

Unreserve(t) == [t EXCEPT !.reserved = IF @ > 0 THEN @ - 1 ELSE 0]

\* The tiers of e without the seat u has reserved.
Freed(e, u) == [tiers[e] EXCEPT ![reservation[e][u].tier] = Unreserve(@)]

-----------------------------------------------------------------------------
(* Reservations.                                                           *)

\* While u has a live reservation the call returns Ok and changes nothing.
ReserveTicket(e, u, k) ==
  /\ InStatus(e, "Active")
  /\ u \notin registered[e]
  /\ HasReservation(e, u) => Expired(e, u)
  /\ now + RESERVATION_SECS <= MaxLedger
  /\ LET open == IF HasReservation(e, u) THEN Freed(e, u) ELSE tiers[e]
     IN  /\ k \in DOMAIN open
         /\ HasSeats(open[k], 1)
         /\ tiers' = [tiers EXCEPT ![e] = [open EXCEPT ![k].reserved = @ + 1]]
  /\ reservation' = [reservation EXCEPT ![e][u] =
       [tier |-> k, expires_at |-> now + RESERVATION_SECS]]
  /\ UNCHANGED <<now, linkVars, termVars, soldCount, postponeVars, listVars,
                 ruleVars, freeClaimVars, proofVars>>

\* Mutant: a reservation is released while it is live.
ReleaseReservation(e, u) ==
  /\ HasReservation(e, u)
  /\ tiers' = [tiers EXCEPT ![e] = Freed(e, u)]
  /\ reservation' = [reservation EXCEPT ![e][u] = None]
  /\ UNCHANGED <<now, linkVars, termVars, soldCount, postponeVars, listVars,
                 ruleVars, freeClaimVars, proofVars>>

\* Mutant: a reservation is released only while the event is on sale.
ReleaseWhileActive(e, u) ==
  /\ InStatus(e, "Active")
  /\ HasReservation(e, u)
  /\ Expired(e, u)
  /\ tiers' = [tiers EXCEPT ![e] = Freed(e, u)]
  /\ reservation' = [reservation EXCEPT ![e][u] = None]
  /\ UNCHANGED <<now, linkVars, termVars, soldCount, postponeVars, listVars,
                 ruleVars, freeClaimVars, proofVars>>

\* Anyone may make this call, whatever the status of the event.
ReleaseExpiredReservation(e, u) ==
  /\ HasReservation(e, u)
  /\ Expired(e, u)
  /\ tiers' = [tiers EXCEPT ![e] = Freed(e, u)]
  /\ reservation' = [reservation EXCEPT ![e][u] = None]
  /\ UNCHANGED <<now, linkVars, termVars, soldCount, postponeVars, listVars,
                 ruleVars, freeClaimVars, proofVars>>

-----------------------------------------------------------------------------
(* Registrations.                                                          *)

SaveRegistration(e, u) ==
  /\ registered' = [registered EXCEPT ![e] = @ \cup {u}]
  /\ attendees' = [attendees EXCEPT ![e] = Append(@, u)]

\* Mutant: the last attendee is dropped from the list, whoever leaves.
WithoutLast(list, j) == SubSeq(list, 1, Len(list) - 1)

\* The last attendee takes the place of the one who leaves.
WithoutAttendee(list, j) ==
  SubSeq([list EXCEPT ![j] = list[Len(list)]], 1, Len(list) - 1)

\* u leaves the first place it has in the list.
RemoveRegistration(e, u) ==
  LET list == attendees[e]
  IN  /\ registered' = [registered EXCEPT ![e] = @ \ {u}]
      /\ \/ /\ \A j \in DOMAIN list : list[j] # u
            /\ UNCHANGED attendees
         \/ \E j \in DOMAIN list :
              /\ list[j] = u
              /\ \A i \in 1..(j - 1) : list[i] # u
              /\ attendees' = [attendees EXCEPT ![e] = WithoutAttendee(list, j)]

\* A reservation of u is for this tier and has not passed its last ledger.
ReservationAllows(e, u, k) ==
  HasReservation(e, u) =>
    reservation[e][u].tier = k /\ reservation[e][u].expires_at >= now

\* The event's limits on free tickets let u take n more.
FreeClaimAllowed(e, u, n) ==
  LET settings == claimSettings[e]
      last == lastFreeClaim[e][u]
  IN  /\ settings.max_free_claims > 0 => freeClaims[e][u] + n <= settings.max_free_claims
      /\ settings.cooldown_secs > 0 => last = 0 \/ now >= last + settings.cooldown_secs

\* What both registrations ask of the event.
MayRegister(e, u, k, n) ==
  /\ InStatus(e, "Active")
  /\ linked
  /\ eventPrivacy[e] = "Standard"
  /\ k \in DOMAIN tiers[e]
  /\ ReservationAllows(e, u, k)
  /\ soldCount[e] + n <= event[e].terms.max_supply
  /\ tiers[e][k].price = 0 => FreeClaimAllowed(e, u, n)

\* n seats of the tier are sold to u, whose reservation is used up.
SellSeats(e, u, k, n) ==
  LET free == tiers[e][k].price = 0
      open == IF HasReservation(e, u) THEN Unreserve(tiers[e][k]) ELSE tiers[e][k]
  IN  /\ tiers' = [tiers EXCEPT ![e][k] = [open EXCEPT !.sold = @ + n]]
      /\ soldCount' = [soldCount EXCEPT ![e] = @ + n]
      /\ reservation' = [reservation EXCEPT ![e][u] = None]
      /\ freeClaims' = IF free THEN [freeClaims EXCEPT ![e][u] = @ + n] ELSE freeClaims
      /\ lastFreeClaim' = IF free THEN [lastFreeClaim EXCEPT ![e][u] = now]
                          ELSE lastFreeClaim

RegisterForEvent(e, u, k) ==
  /\ MayRegister(e, u, k, 1)
  /\ u \notin registered[e]
  /\ HasReservation(e, u) \/ HasSeats(tiers[e][k], 1)
  /\ SellSeats(e, u, k, 1)
  /\ SaveRegistration(e, u)
  /\ UNCHANGED <<now, linkVars, termVars, postponeVars, ruleVars, proofVars>>

\* `held` is the number of tickets the ticket contract lists for u and e.
BatchRegisterForEvent(e, u, k, n, held) ==
  /\ n \in 1..MaxBatch
  /\ MayRegister(e, u, k, n)
  /\ LET limit == event[e].terms.max_tickets_per_user
     IN  limit > 0 => held + n <= limit
  /\ HasSeats(IF HasReservation(e, u) THEN Unreserve(tiers[e][k]) ELSE tiers[e][k], n)
  /\ SellSeats(e, u, k, n)
  /\ IF u \in registered[e] THEN UNCHANGED listVars ELSE SaveRegistration(e, u)
  /\ UNCHANGED <<now, linkVars, termVars, postponeVars, ruleVars, proofVars>>

\* The refund of a postponed event; u stays registered with a valid ticket
\* left.
RequestPostponementRefund(e, u, keepsTicket) ==
  /\ linked
  /\ InStatus(e, "Postponed")
  /\ IF keepsTicket THEN UNCHANGED listVars ELSE RemoveRegistration(e, u)
  /\ UNCHANGED <<now, linkVars, termVars, tiers, soldCount, postponeVars,
                 reservation, ruleVars, freeClaimVars, proofVars>>

-----------------------------------------------------------------------------
(* Seats taken with a proof.                                               *)

\* One seat of the tier is sold to somebody who is not registered.
SellToProof(e, k) ==
  /\ k \in DOMAIN tiers[e]
  /\ soldCount[e] < event[e].terms.max_supply
  /\ HasSeats(tiers[e][k], 1)
  /\ tiers' = [tiers EXCEPT ![e][k].sold = @ + 1]
  /\ soldCount' = [soldCount EXCEPT ![e] = @ + 1]

\* The count of the window the claim falls in, from 0 in a new window.
CurrentWindow(e) ==
  LET index == now \div anonSettings[e].anon_window_size
  IN  IF anonWindow[e].window_index = index
      THEN anonWindow[e]
      ELSE [window_index |-> index, count |-> 0]

CountAnonClaim(e) ==
  LET settings == anonSettings[e]
  IN  IF settings.max_anon_claims_per_window > 0 /\ settings.anon_window_size > 0
      THEN /\ CurrentWindow(e).count < settings.max_anon_claims_per_window
           /\ anonWindow' = [anonWindow EXCEPT ![e] =
                [CurrentWindow(e) EXCEPT !.count = @ + 1]]
      ELSE UNCHANGED anonWindow

\* The same nullifier with the same commitment returns Ok and changes
\* nothing; with another commitment it is an error.
ClaimAnonymousTicket(e, k, claim) ==
  /\ InStatus(e, "Active")
  /\ event[e].allow_anonymous
  /\ claimed[e][claim.nullifier] = None
  /\ claim.expiry_ledger \in now..(now + MAX_ANONYMOUS_PROOF_TTL_LEDGERS)
  /\ SellToProof(e, k)
  /\ tiers[e][k].price = 0
  /\ CountAnonClaim(e)
  /\ verifierSet
  /\ claimed' = [claimed EXCEPT ![e][claim.nullifier] = claim.ticket_commitment]
  /\ UNCHANGED <<now, linkVars, termVars, postponeVars, listVars, reservation,
                 ruleVars, freeClaimVars, zkNullifiers>>

\* The payment of a priced tier is made with nonce 0, which the payments
\* contract refuses, so that only an unlinked contract sells one here.
VerifyAndAttend(e, k, passport) ==
  /\ InStatus(e, "Active")
  /\ eventPrivacy[e] = "Standard"
  /\ event[e].requires_verification
  /\ zkEnabled[e]
  /\ passport \notin zkNullifiers[e]
  /\ SellToProof(e, k)
  /\ tiers[e][k].price = 0 \/ ~linked
  /\ zkNullifiers' = [zkNullifiers EXCEPT ![e] = @ \cup {passport}]
  /\ UNCHANGED <<now, linkVars, termVars, postponeVars, listVars, reservation,
                 ruleVars, freeClaimVars, anonWindow, claimed>>
=============================================================================
