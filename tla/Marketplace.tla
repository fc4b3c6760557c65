---------------------------- MODULE Marketplace ----------------------------
(***************************************************************************)
(* The marketplace beside the registry: platform gate signoffs, listings   *)
(* and their policy signoffs, curation, moderation reports, usage rollups  *)
(* and print quotes.  Each route awaits several statements that are not    *)
(* one transaction; the registry's edits and deletions run in between.     *)
(***************************************************************************)
EXTENDS ModelRegistry, Sequences

CONSTANTS Listings, ReportIds, Quotes,
          Kinds,         \* listing kinds in use
          MarketCalls,   \* handlers of this module in flight
          MaxSignoffs,   \* bound: gate signoffs recorded
          MaxUsage       \* bound: usage events per listing

VARIABLES gate,      \* platform_gate_signoffs of p11.policy-sharing, oldest first
          listings,  \* marketplace_listings
          signoffs,  \* policy_signoffs: listing -> its owner
          modReports,\* moderation_reports
          rollups,   \* marketplace_usage_rollups: events counted per listing
          events,    \* usage_events of each listing
          quotes,    \* print_quote_requests
          offers,    \* print_quote_offers, by request
          mcalls

marketVars == <<gate, listings, signoffs, modReports, rollups, events, quotes, offers, mcalls>>
vars == <<regVars, marketVars>>

MIdle == [st |-> "idle", user |-> None, model |-> None, row |-> None, kind |-> None, id |-> None]
ListingStatus == {"draft", "review", "listed", "rejected", "delisted"}

MarketTypeOK ==
  /\ gate \in Seq({"blocked", "accepted", "revoked"})
  /\ listings \in [Listings -> [owner : Users, model : Models, kind : Kinds, status : ListingStatus,
                                report : Report] \cup {None}]
  /\ signoffs \in [Listings -> Users \cup {None}]
  /\ modReports \in [ReportIds -> [by : Users, target : Listings, repeat : BOOLEAN,
                                   status : {"open", "triaged", "actioned", "rejected"}] \cup {None}]
  /\ rollups \in [Listings -> Nat] /\ events \in [Listings -> Nat]
  /\ quotes \in [Quotes -> [owner : Users, model : Models] \cup {None}]
  /\ offers \subseteq Quotes

Init ==
  /\ RegInit
  /\ gate = <<>>
  /\ listings = [l \in Listings |-> None]
  /\ signoffs = [l \in Listings |-> None]
  /\ modReports = [i \in ReportIds |-> None]
  /\ rollups = [l \in Listings |-> 0] /\ events = [l \in Listings |-> 0]
  /\ quotes = [q \in Quotes |-> None] /\ offers = {}
  /\ mcalls = [p \in MarketCalls |-> MIdle]

MGoto(p, st) == mcalls' = [mcalls EXCEPT ![p].st = st]
MDone(p) == mcalls' = [mcalls EXCEPT ![p] = MIdle]
-----------------------------------------------------------------------------
(* Gate signoffs are only appended; without one the gate is blocked.       *)
recordPlatformGateSignoff(status) ==
  /\ Len(gate) < MaxSignoffs
  /\ gate' = Append(gate, status)
  /\ UNCHANGED <<regVars, listings, signoffs, modReports, rollups, events, quotes, offers, mcalls>>

currentPlatformGate == IF gate = <<>> THEN "blocked" ELSE gate[Len(gate)]

(* POST /v1/listings: the model's row, the gate, the listing, the signoff. *)
listingRead(p, u, m, kind) ==
  /\ mcalls[p].st = "idle"
  /\ getOwnedModel(u, m) # None /\ getOwnedModel(u, m).status = "admitted"
  /\ mcalls' = [mcalls EXCEPT ![p] = [st |-> IF kind = "policy" THEN "gate" ELSE "insert", user |-> u,
                                      model |-> m, row |-> models[m], kind |-> kind, id |-> None]]
  /\ UNCHANGED <<regVars, gate, listings, signoffs, modReports, rollups, events, quotes, offers>>

(* A policy listing needs the gate and the owner's signoff in the body;    *)
(* without them the request is refused.                                    *)
listingGate(p) ==
  /\ mcalls[p].st = "gate"
  /\ \E policySignoffAccepted \in BOOLEAN :
       IF currentPlatformGate = "accepted" /\ policySignoffAccepted THEN MGoto(p, "insert") ELSE MDone(p)
  /\ UNCHANGED <<regVars, gate, listings, signoffs, modReports, rollups, events, quotes, offers>>

(* The id of a new listing is drawn at random and taken to be new: nothing *)
(* was recorded under it and no handler holds it.                          *)
NewId(l) ==
  /\ listings[l] = None /\ events[l] = 0 /\ signoffs[l] = None
  /\ \A p \in MarketCalls : mcalls[p].id # l

listingInsert(p, l) ==
  LET call == mcalls[p] IN
  /\ call.st = "insert" /\ NewId(l)
  /\ call.user \in alive /\ models[call.model] # None
  /\ listings' = [listings EXCEPT ![l] = [owner |-> call.user, model |-> call.model, kind |-> call.kind,
                                          status |-> "review", report |-> call.row.report]]
  /\ mcalls' = [mcalls EXCEPT ![p] = IF call.kind = "policy" THEN [@ EXCEPT !.st = "signoff", !.id = l] ELSE MIdle]
  /\ UNCHANGED <<regVars, gate, signoffs, modReports, rollups, events, quotes, offers>>

signoffInsert(p) ==
  LET call == mcalls[p] IN
  /\ call.st = "signoff" /\ call.user \in alive
  /\ signoffs' = [signoffs EXCEPT ![call.id] = call.user]
  /\ MDone(p)
  /\ UNCHANGED <<regVars, gate, listings, modReports, rollups, events, quotes, offers>>

(* PATCH /v1/listings/:id with the review token: any status to any status. *)
curateListing(l, status) ==
  /\ listings[l] # None
  /\ listings' = [listings EXCEPT ![l].status = status]
  /\ UNCHANGED <<regVars, gate, signoffs, modReports, rollups, events, quotes, offers, mcalls>>

(* POST /v1/moderation/reports; the signal says another live report of the *)
(* target exists.                                                          *)
reportListing(u, i, l) ==
  /\ u \in alive /\ modReports[i] = None
  /\ modReports' = [modReports EXCEPT ![i] = [by |-> u, target |-> l, status |-> "open",
       repeat |-> \E j \in ReportIds : /\ modReports[j] # None /\ modReports[j].target = l
                                       /\ modReports[j].status # "rejected"]]
  /\ UNCHANGED <<regVars, gate, listings, signoffs, rollups, events, quotes, offers, mcalls>>

(* PATCH /v1/moderation/reports/:id: the report first, then, for an action *)
(* that delists, the listing.                                              *)
decideReport(p, i, status, delist) ==
  /\ mcalls[p].st = "idle" /\ modReports[i] # None
  /\ modReports' = [modReports EXCEPT ![i].status = status]
  /\ mcalls' = IF status = "actioned" /\ delist
               THEN [mcalls EXCEPT ![p] = [MIdle EXCEPT !.st = "delist", !.id = modReports[i].target]] ELSE mcalls
  /\ UNCHANGED <<regVars, gate, listings, signoffs, rollups, events, quotes, offers>>

delistListing(p) ==
  LET l == mcalls[p].id IN
  /\ mcalls[p].st = "delist"
  /\ listings' = [listings EXCEPT ![l] = IF @ = None THEN None ELSE [@ EXCEPT !.status = "delisted"]]
  /\ MDone(p)
  /\ UNCHANGED <<regVars, gate, signoffs, modReports, rollups, events, quotes, offers>>

(* POST /v1/listings/:id/usage: the day's rollup, an upsert the foreign    *)
(* key refuses for an unknown listing, then the usage event.               *)
recordMarketplaceUsageRollup(p, l) ==
  /\ mcalls[p].st = "idle" /\ listings[l] # None /\ rollups[l] < MaxUsage
  /\ rollups' = [rollups EXCEPT ![l] = @ + 1]
  /\ mcalls' = [mcalls EXCEPT ![p] = [MIdle EXCEPT !.st = "usage", !.id = l]]
  /\ UNCHANGED <<regVars, gate, listings, signoffs, modReports, events, quotes, offers>>

recordUsageEvent(p) ==
  /\ mcalls[p].st = "usage"
  /\ events' = [events EXCEPT ![mcalls[p].id] = @ + 1]
  /\ MDone(p)
  /\ UNCHANGED <<regVars, gate, listings, signoffs, modReports, rollups, quotes, offers>>

(* createPrintQuoteRequest: assertAdmittedModelReference, the request row, *)
(* already 'quoted', then its offer.                                       *)
assertAdmittedModelReference(p, u, m) ==
  /\ mcalls[p].st = "idle"
  /\ getOwnedModel(u, m) # None /\ getOwnedModel(u, m).status = "admitted"
  /\ mcalls' = [mcalls EXCEPT ![p] = [MIdle EXCEPT !.st = "quote", !.user = u, !.model = m]]
  /\ UNCHANGED <<regVars, gate, listings, signoffs, modReports, rollups, events, quotes, offers>>

createPrintQuoteRequest(p, q) ==
  LET call == mcalls[p] IN
  /\ call.st = "quote" /\ quotes[q] = None
  /\ call.user \in alive /\ models[call.model] # None
  /\ quotes' = [quotes EXCEPT ![q] = [owner |-> call.user, model |-> call.model]]
  /\ mcalls' = [mcalls EXCEPT ![p] = [MIdle EXCEPT !.st = "offer", !.id = q]]
  /\ UNCHANGED <<regVars, gate, listings, signoffs, modReports, rollups, events, offers>>

insertOffer(p) ==
  LET q == mcalls[p].id IN
  /\ mcalls[p].st = "offer" /\ quotes[q] # None
  /\ offers' = offers \cup {q}
  /\ MDone(p)
  /\ UNCHANGED <<regVars, gate, listings, signoffs, modReports, rollups, events, quotes>>

MarketCallFails(p) ==
  /\ mcalls[p].st # "idle"
  /\ MDone(p)
  /\ UNCHANGED <<regVars, gate, listings, signoffs, modReports, rollups, events, quotes, offers>>

(* The marketplace share of deleteAccount: rows the user owns and rows     *)
(* about the user's models.  A report of a deleted listing stays.          *)
GoneListings(u) == {l \in Listings : listings[l] # None /\ (listings[l].owner = u \/ owns(u, listings[l].model))}

MarketDelete(u) ==
  LET gone == {q \in Quotes : quotes[q] # None /\ (quotes[q].owner = u \/ owns(u, quotes[q].model))} IN
  /\ DeleteAccount(u)
  /\ signoffs' = [l \in Listings |-> IF signoffs[l] = u THEN None ELSE signoffs[l]]
  /\ modReports' = [i \in ReportIds |-> IF modReports[i] # None /\ modReports[i].by = u THEN None ELSE modReports[i]]
  /\ rollups' = [l \in Listings |-> IF l \in GoneListings(u) THEN 0 ELSE rollups[l]]
  /\ listings' = [l \in Listings |-> IF l \in GoneListings(u) THEN None ELSE listings[l]]
  /\ offers' = offers \ gone
  /\ quotes' = [q \in Quotes |-> IF q \in gone THEN None ELSE quotes[q]]
  /\ UNCHANGED <<gate, events, mcalls>>

Next ==
  \/ RegStep /\ UNCHANGED marketVars
  \/ \E u \in Users : MarketDelete(u)
  \/ \E s \in {"blocked", "accepted", "revoked"} : recordPlatformGateSignoff(s)
  \/ \E l \in Listings : \/ \E s \in ListingStatus : curateListing(l, s)
                         \/ \E u \in Users, i \in ReportIds : reportListing(u, i, l)
  \/ \E p \in MarketCalls :
       \/ \E u \in Users, m \in Models : \/ assertAdmittedModelReference(p, u, m)
                                         \/ \E k \in Kinds : listingRead(p, u, m, k)
       \/ \E l \in Listings : listingInsert(p, l) \/ recordMarketplaceUsageRollup(p, l)
       \/ \E q \in Quotes : createPrintQuoteRequest(p, q)
       \/ \E i \in ReportIds, s \in {"open", "triaged", "actioned", "rejected"}, d \in BOOLEAN : decideReport(p, i, s, d)
       \/ listingGate(p) \/ signoffInsert(p) \/ delistListing(p) \/ recordUsageEvent(p)
       \/ insertOffer(p) \/ MarketCallFails(p)

Spec == Init /\ [][Next]_vars

-----------------------------------------------------------------------------
(***************************************************************************)
(* The validator report that ships with a listing admitted the contract it *)
(* judged, also when the model is edited between the read and the insert   *)
(* (POST /v1/listings).                                                    *)
(***************************************************************************)
ListingReportAdmitted ==
  \A l \in Listings : listings[l] # None =>
    listings[l].report.verdict = "admitted" /\ listings[l].report.of \in Sound

(***************************************************************************)
(* A policy listing exists only after somebody accepted the platform gate  *)
(* (the append-only signoffs of recordPlatformGateSignoff).                *)
(***************************************************************************)
PolicyListingsGated ==
  \A l \in Listings : listings[l] # None /\ listings[l].kind = "policy" =>
    \E i \in DOMAIN gate : gate[i] = "accepted"

(***************************************************************************)
(* Account deletion leaves no listing, signoff, report, quote or offer of  *)
(* the user, whichever handler of the user was between two statements      *)
(* (purgeStatements and the foreign keys).                                 *)
(***************************************************************************)
MarketNothingOfDeleted ==
  /\ \A l \in Listings : listings[l] # None => listings[l].owner \in alive /\ models[listings[l].model] # None
  /\ \A l \in Listings : signoffs[l] # None => signoffs[l] \in alive /\ listings[l] # None
  /\ \A i \in ReportIds : modReports[i] # None => modReports[i].by \in alive
  /\ \A q \in Quotes : quotes[q] # None => quotes[q].owner \in alive

(***************************************************************************)
(* An offer never outlives the quote request it belongs to.                *)
(***************************************************************************)
OffersHaveRequest == \A q \in offers : quotes[q] # None

(***************************************************************************)
(* The rollup of a listing has counted every usage event recorded for it   *)
(* (recordMarketplaceUsageRollup before recordUsageEvent).                 *)
(***************************************************************************)
RollupCountsEvents == \A l \in Listings : listings[l] # None => events[l] <= rollups[l]
=============================================================================
