---------------------------- MODULE Subscription ----------------------------
(***************************************************************************)
(* Importing endpoints: the subscription preview, the bulk import, and the  *)
(* periodic or manual refresh (server/profile.go, server/subrefresh.go,     *)
(* importer/subscription.go, importer/dedupe.go), against a user who edits  *)
(* the same endpoints and a provider who rotates what it offers.            *)
(*                                                                          *)
(* A link is [base, cred]: base is protocol, server and port, which is all  *)
(* that genID looks at; cred is everything else that ContentKey looks at    *)
(* (credential, transport, TLS).  Names and tags are in neither.  The status*)
(* a refresh records for the panel is left out.                             *)
(***************************************************************************)
EXTENDS Naturals, Sequences, FiniteSets, FiniteSetsExt

CONSTANTS
    Bases, Creds,
    Offers,         \* bodies the provider may serve: sequences of links and junk
    Junk,           \* a line that does not parse
    NoLink,
    HourSettings,   \* what the user may set RefreshHours to; 0 is off
    MaxEdits, MaxRotations, MaxSubFaults   \* bounds

Links == [base : Bases, cred : Creds]
MaxCopies == 2      \* bound: links with one base in an offer, and suffixes of an id
EpIds == Bases \X (1 .. MaxCopies)
Importers == {"loop", "now", "bulk"}

(* uniqueID: the n-th link with the same genID in a batch gets suffix -n. *)
uniqueID(b, i) ==
    <<b[i].base, Cardinality({j \in 1 .. i : b[j] # Junk /\ b[j].base = b[i].base})>>

ASSUME SubAssumption ==
    /\ Junk \notin Links /\ NoLink \notin Links
    /\ Offers \subseteq Seq(Links \cup {Junk})
    /\ \A b \in Offers : \A i \in DOMAIN b : b[i] # Junk => uniqueID(b, i) \in EpIds
    /\ HourSettings \subseteq Nat
    /\ {MaxEdits, MaxRotations, MaxSubFaults} \subseteq Nat

VARIABLES
    eps,        \* the endpoints of the profile, by id
    offer,      \* what the provider serves now
    urlSet,     \* a subscription URL is stored
    hours,      \* Subscription.RefreshHours
    sinceRefresh,      \* hours since the loop's lastRefresh, up to MaxHours
    imp,        \* the importers' progress: the batch, and its lines still to be looked at
    budget,     \* the user's requests, rotations and faults so far
    muddled     \* history: a hand edit, or imports at once

subVars == <<eps, offer, urlSet, hours, sinceRefresh, imp, budget, muddled>>

MaxHours == Max(HourSettings)
Older(a, max) == IF a >= max THEN a ELSE a + 1

NoImport == [pc |-> "idle", batch |-> <<>>, left |-> {}]

SubInit ==
    /\ eps = [i \in EpIds |-> NoLink]
    /\ offer \in Offers
    /\ urlSet \in BOOLEAN /\ hours \in HourSettings   \* as loaded from config.json
    /\ sinceRefresh = MaxHours              \* a zero lastRefresh is due at once
    /\ imp = [w \in Importers |-> NoImport]
    /\ budget = [edits |-> 0, rotations |-> 0, faults |-> 0]
    /\ muddled = FALSE

Spend(k, max) == budget[k] < max /\ budget' = [budget EXCEPT ![k] = @ + 1]
SubFault == Spend("faults", MaxSubFaults)
-----------------------------------------------------------------------------
(* ContentKey: the whole link, whatever the id. *)
ContentKey(l) == l
KeysOf(e) == {ContentKey(e[i]) : i \in {j \in EpIds : e[j] # NoLink}}

(* A batch is the body with the lines that parse; they are kept in order.   *)
ParseSubscription(b) == {i \in DOMAIN b : b[i] # Junk}

FirstOfItsKey(b, S, i) == \A j \in S : j < i => ContentKey(b[j]) # ContentKey(b[i])

(* What a refresh adds: content that is not there, once per batch. *)
Unseen_ById(e, b, S) == {i \in S : e[uniqueID(b, i)] = NoLink}
Unseen(e, b, S) == {i \in S : ContentKey(b[i]) \notin KeysOf(e) /\ FirstOfItsKey(b, S, i)}

(* What a bulk import keeps: the same, and updates in place. *)
DedupeNew(e, b, S) ==
    {i \in S : \/ e[uniqueID(b, i)] # NoLink /\ ContentKey(e[uniqueID(b, i)]) = ContentKey(b[i])
               \/ ContentKey(b[i]) \notin KeysOf(e) /\ FirstOfItsKey(b, S, i)}
-----------------------------------------------------------------------------
Active(w) == imp[w].pc \in {"fetch", "filter", "add"}

BeginImport(w, pc, b, S) ==
    /\ imp' = [imp EXCEPT ![w] = [pc |-> pc, batch |-> b, left |-> S]]
    /\ muddled' = (muddled \/ \E v \in Importers \ {w} : Active(v))

(* SubscriptionRefreshLoop, one tick of its hourly ticker.  lastRefresh is  *)
(* set whether or not the refresh succeeds.                                 *)
Due_Never == FALSE
Due == sinceRefresh + 1 >= hours

LoopTick ==
    /\ imp["loop"].pc = "idle"
    /\ IF hours > 0 /\ urlSet /\ Due
       THEN BeginImport("loop", "fetch", <<>>, {}) /\ sinceRefresh' = 0
       ELSE sinceRefresh' = Older(sinceRefresh, MaxHours) /\ UNCHANGED <<imp, muddled>>
    /\ UNCHANGED <<eps, offer, urlSet, hours, budget>>

(* handleSubRefreshNow; without a stored URL it does nothing. *)
RefreshNow ==
    /\ urlSet /\ imp["now"].pc = "idle"
    /\ Spend("edits", MaxEdits)
    /\ BeginImport("now", "fetch", <<>>, {})
    /\ UNCHANGED <<eps, offer, urlSet, hours, sinceRefresh>>

(* The GET of refreshSubscriptionOnce, and its error returns. *)
RefreshFetch(w) ==
    /\ w \in {"loop", "now"} /\ imp[w].pc = "fetch"
    /\ \/ /\ imp' = [imp EXCEPT ![w] = [pc |-> "filter", batch |-> offer, left |-> ParseSubscription(offer)]]
          /\ UNCHANGED budget
       \/ SubFault /\ imp' = [imp EXCEPT ![w] = NoImport]
    /\ UNCHANGED <<eps, offer, urlSet, hours, sinceRefresh, muddled>>

(* The profile is read once; what is written later is decided here. *)
Filter(w) ==
    /\ imp[w].pc = "filter"
    /\ LET q == imp[w] IN
       imp' = [imp EXCEPT ![w] =
          [pc |-> "add", batch |-> q.batch,
           left |-> IF w = "bulk" THEN DedupeNew(eps, q.batch, q.left) ELSE Unseen(eps, q.batch, q.left)]]
    /\ UNCHANGED <<eps, offer, urlSet, hours, sinceRefresh, budget, muddled>>

(* One UpsertEndpoint of the loop; a failed write skips that endpoint. *)
AddOne(w) ==
    /\ imp[w].pc = "add" /\ imp[w].left # {}
    /\ LET q == imp[w]
           i == Min(q.left)
       IN /\ \/ eps' = [eps EXCEPT ![uniqueID(q.batch, i)] = q.batch[i]] /\ UNCHANGED budget
             \/ UNCHANGED eps /\ SubFault
          /\ imp' = [imp EXCEPT ![w] = [q EXCEPT !.left = q.left \ {i}]]
    /\ UNCHANGED <<offer, urlSet, hours, sinceRefresh, muddled>>

ImportDone(w) ==
    /\ imp[w].pc = "add" /\ imp[w].left = {}
    /\ imp' = [imp EXCEPT ![w] = NoImport]
    /\ UNCHANGED <<eps, offer, urlSet, hours, sinceRefresh, budget, muddled>>
-----------------------------------------------------------------------------
(* handleSubscription: fetch, remember the URL, show the parsed links ... *)
Preview ==
    /\ ~Active("bulk") /\ budget.edits < MaxEdits
    /\ urlSet' = TRUE
    /\ imp' = [imp EXCEPT !["bulk"] = [pc |-> "choose", batch |-> offer, left |-> ParseSubscription(offer)]]
    /\ UNCHANGED <<eps, offer, hours, sinceRefresh, budget, muddled>>

(* ... of which handleBulkEndpoints gets those the user ticked. *)
Choose(S) ==
    /\ imp["bulk"].pc = "choose" /\ S \subseteq imp["bulk"].left
    /\ Spend("edits", MaxEdits)
    /\ BeginImport("bulk", "filter", imp["bulk"].batch, S)
    /\ UNCHANGED <<eps, offer, urlSet, hours, sinceRefresh>>

(* handleUpsertEndpoint on an existing endpoint, handleDeleteEndpoint. *)
EditEndpoint(i, l) ==
    /\ eps[i] # NoLink /\ l # eps[i] /\ l \in Links \cup {NoLink}
    /\ Spend("edits", MaxEdits)
    /\ eps' = [eps EXCEPT ![i] = l]
    /\ muddled' = TRUE
    /\ UNCHANGED <<offer, urlSet, hours, sinceRefresh, imp>>

(* handleSubAutoRefresh *)
SetHours(h) ==
    /\ h \in HourSettings \ {hours}
    /\ Spend("edits", MaxEdits)
    /\ hours' = h
    /\ UNCHANGED <<eps, offer, urlSet, sinceRefresh, imp, muddled>>

Rotate(o) ==
    /\ o \in Offers \ {offer}
    /\ Spend("rotations", MaxRotations)
    /\ offer' = o
    /\ UNCHANGED <<eps, urlSet, hours, sinceRefresh, imp, muddled>>

ImporterStep(w) == RefreshFetch(w) \/ Filter(w) \/ AddOne(w) \/ ImportDone(w)

SubNext ==
    \/ LoopTick \/ RefreshNow \/ Preview
    \/ \E w \in Importers : ImporterStep(w)
    \/ \E S \in SUBSET imp["bulk"].left : Choose(S)
    \/ \E i \in EpIds, l \in Links \cup {NoLink} : EditEndpoint(i, l)
    \/ \E h \in HourSettings : SetHours(h)
    \/ \E o \in Offers : Rotate(o)

SubSpec == SubInit /\ [][SubNext]_subVars
-----------------------------------------------------------------------------
(* "re-fetching a subscription with fresh IDs would otherwise pile up       *)
(* identical endpoints" (dedupe.go): as long as the user changed nothing by *)
(* hand and no two imports overlapped, no content is stored twice.          *)
NoDuplicates ==
    ~muddled => \A i, j \in EpIds :
        eps[i] # NoLink /\ eps[j] # NoLink /\ i # j => ContentKey(eps[i]) # ContentKey(eps[j])

Offered == {ContentKey(offer[i]) : i \in ParseSubscription(offer)}

(* What the provider offers is in the profile again and again, as long as   *)
(* refreshing is on.  One refresh is not enough: a link written under an id *)
(* whose old content is also on offer displaces it until the next refresh.  *)
CatchesUp == []<>(hours > 0 /\ urlSet => Offered \subseteq KeysOf(eps))
=============================================================================
