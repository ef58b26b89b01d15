------------------------------ MODULE Pricing ------------------------------
(***************************************************************************)
(* The pricing providers (src/cost_gate/pricing, adapters/aws_price_list):  *)
(* the offline catalog, the Price List API behind its cache, and the chain  *)
(* that asks the API first and the catalog when the API has no price.       *)
(*                                                                          *)
(* A key is a tuple <<service, dimension, attribute value, ...>>.  The API   *)
(* is an external service: it serves, page by page, the rates of whatever   *)
(* products match a query, may throttle or refuse any call, and may change  *)
(* its prices at any time, a walk over the pages included.                  *)
(***************************************************************************)
EXTENDS Absence, Integers, FiniteSets, Sequences

CONSTANTS
  PriceKey,    \* the keys estimators ask for
  Catalog,     \* the rate of every key of the offline catalog
  Mapped,      \* the keys whose dimension has filters (DIMENSION_FILTERS)
  Listings,    \* what the API may serve for one query: sequences of pages
  Miss,        \* the answer PriceNotFound
  Broken,      \* the exception PricingError
  MaxPages,    \* pages walked per lookup (MAX_PAGES)
  MaxAttempts, \* calls made per page (MAX_ATTEMPTS)
  MaxReprices, \* bound on price changes of the API
  MaxExpiries  \* bound on expiries of cache entries

ASSUME PricingAssumption ==
  /\ Mapped \subseteq PriceKey
  /\ DOMAIN Catalog \subseteq PriceKey
  /\ MaxPages \in Nat \ {0}
  /\ MaxAttempts \in Nat \ {0}
ASSUME RateAssumption ==
  /\ \A k \in DOMAIN Catalog : Catalog[k] \in Nat
  /\ \A l \in Listings :
       l \in Seq(SUBSET Nat) /\ \A i \in DOMAIN l : IsFiniteSet(l[i])

(* The rates the API may serve; what may be found out about a key; and the  *)
(* answers and lookups that come of it.                                    *)
Served == UNION {UNION {l[i] : i \in DOMAIN l} : l \in Listings}
Answers == {Miss} \cup {Catalog[k] : k \in DOMAIN Catalog} \cup Served
Replies == [key : PriceKey, answer : Answers]
Calls == [key : Mapped, page : 1 .. MaxPages, attempt : 1 .. MaxAttempts,
          rates : SUBSET Served, moved : BOOLEAN]

ASSUME TellApartAssumption ==
  /\ None # Broken
  /\ Cardinality({None, Miss}) = 2 /\ {None, Miss} \cap Int = {}
  /\ None \notin Replies /\ Broken \notin Replies
  /\ None \notin Calls

VARIABLES
  kind,      \* the configured provider: "fixtures", "aws" or "chain"
  listing,   \* what the API serves for each mapped key now
  call,      \* the lookup under way, or None
  cache,     \* the entries of CachingProvider
  reply,     \* the answer, or the exception, the asker has not taken yet
  reprices,  \* price changes so far
  expiries   \* expiries so far

pvars == <<kind, listing, call, cache, reply, reprices, expiries>>

Kinds == {"fixtures", "aws", "chain"}
Live == kind # "fixtures"

-----------------------------------------------------------------------------

(* Exact matching: a key the catalog does not list has no rate.            *)
CatalogAnswer(k) == IF k \in DOMAIN Catalog THEN Catalog[k] ELSE Miss

(* Faulty variant: the first rate met is the answer.                       *)
VerdictFirst(rates) ==
  IF rates \ {0} # {} THEN CHOOSE r \in rates \ {0} : TRUE ELSE Miss

(* The rates of the pages walked, free tiers skipped: one rate is the       *)
(* answer, none is a miss, and several are refused.                         *)
Verdict(rates) ==
  IF Cardinality(rates \ {0}) = 1 THEN CHOOSE r \in rates \ {0} : TRUE ELSE Miss

(* What the provider makes of the answer of the API: the chain falls back   *)
(* on the catalog when there is no price, and keeps the first miss.         *)
Chained(k, answer) ==
  IF kind = "chain" /\ answer = Miss THEN CatalogAnswer(k) ELSE answer

Told(k, answer) == [key |-> k, answer |-> Chained(k, answer)]

PricingInit ==
  /\ kind \in Kinds
  /\ listing \in [Mapped -> IF kind = "fixtures" THEN {<<{}>>} ELSE Listings]
  /\ call = None
  /\ cache = [k \in PriceKey |-> None]
  /\ reply = None
  /\ reprices = 0
  /\ expiries = 0

-----------------------------------------------------------------------------

Call(k) == [key |-> k, page |-> 1, attempt |-> 1, rates |-> {}, moved |-> FALSE]

(* Faulty variant: only a price is worth remembering.                      *)
StoreQuote(k, answer) ==
  cache' = IF answer = Miss THEN cache ELSE [cache EXCEPT ![k] = answer]

Store(k, answer) == cache' = [cache EXCEPT ![k] = answer]

(* Faulty variant: every lookup goes to the API.                           *)
AskAround(k) ==
  /\ reply = None /\ call = None
  /\ \/ /\ ~Live
        /\ reply' = [key |-> k, answer |-> CatalogAnswer(k)]
        /\ UNCHANGED <<call, cache>>
     \/ /\ Live /\ k \in Mapped
        /\ call' = Call(k)
        /\ UNCHANGED <<reply, cache>>
     \/ /\ Live /\ k \notin Mapped
        /\ Store(k, Miss)
        /\ reply' = Told(k, Miss)
        /\ UNCHANGED call
  /\ UNCHANGED <<kind, listing, reprices, expiries>>

(* A lookup through the whole stack of providers.  A key without filters    *)
(* needs no call: the adapter answers that it has no price.                 *)
Ask(k) ==
  /\ reply = None /\ call = None
  /\ \/ /\ ~Live
        /\ reply' = [key |-> k, answer |-> CatalogAnswer(k)]
        /\ UNCHANGED <<call, cache>>
     \/ /\ Live /\ cache[k] # None
        /\ reply' = Told(k, cache[k])
        /\ UNCHANGED <<call, cache>>
     \/ /\ Live /\ cache[k] = None /\ k \in Mapped
        /\ call' = Call(k)
        /\ UNCHANGED <<reply, cache>>
     \/ /\ Live /\ cache[k] = None /\ k \notin Mapped
        /\ Store(k, Miss)
        /\ reply' = Told(k, Miss)
        /\ UNCHANGED call
  /\ UNCHANGED <<kind, listing, reprices, expiries>>

(* The walk ends at the last page, or where MAX_PAGES cuts it off.         *)
LastPage(c) == c.page >= Len(listing[c.key]) \/ c.page = MaxPages

PageOf(c) == IF c.page <= Len(listing[c.key]) THEN listing[c.key][c.page] ELSE {}

(* A call is answered: the next page, with all its attempts, or the end.    *)
GetPage ==
  /\ call # None
  /\ LET rates == call.rates \cup PageOf(call)
     IN  IF LastPage(call)
         THEN /\ Store(call.key, Verdict(rates))
              /\ reply' = Told(call.key, Verdict(rates))
              /\ call' = None
         ELSE /\ call' = [call EXCEPT !.page = @ + 1, !.attempt = 1, !.rates = rates]
              /\ UNCHANGED <<cache, reply>>
  /\ UNCHANGED <<kind, listing, reprices, expiries>>

(* Faulty variant: the attempt is not counted.                             *)
ThrottleForever ==
  /\ call # None
  /\ call' = [call EXCEPT !.page = 1]
  /\ UNCHANGED <<kind, listing, cache, reply, reprices, expiries>>

(* A call is throttled: it is made again after a pause, MAX_ATTEMPTS times  *)
(* in all, and then the exception passes through cache and chain.           *)
Throttle ==
  /\ call # None
  /\ IF call.attempt < MaxAttempts
     THEN call' = [call EXCEPT !.attempt = @ + 1] /\ UNCHANGED reply
     ELSE call' = None /\ reply' = Broken
  /\ UNCHANGED <<kind, listing, cache, reprices, expiries>>

(* Any other error of a call is not retried.                               *)
RefuseCall ==
  /\ call # None
  /\ call' = None
  /\ reply' = Broken
  /\ UNCHANGED <<kind, listing, cache, reprices, expiries>>

(* An entry outlives ttl; the next lookup deletes it and asks again.        *)
Expire(k) ==
  /\ cache[k] # None
  /\ expiries < MaxExpiries
  /\ cache' = [cache EXCEPT ![k] = None]
  /\ expiries' = expiries + 1
  /\ UNCHANGED <<kind, listing, call, reply, reprices>>

(* External: AWS changes what it serves for a query.                       *)
Reprice(k) ==
  /\ Live
  /\ reprices < MaxReprices
  /\ \E l \in Listings \ {listing[k]} : listing' = [listing EXCEPT ![k] = l]
  /\ call' = IF call # None /\ call.key = k THEN [call EXCEPT !.moved = TRUE] ELSE call
  /\ reprices' = reprices + 1
  /\ UNCHANGED <<kind, cache, reply, expiries>>

(* The estimator takes the result.                                         *)
TakeReply ==
  /\ reply # None
  /\ reply' = None
  /\ UNCHANGED <<kind, listing, call, cache, reprices, expiries>>

(* The providers on their own, asked for any key at any time.              *)
PricingNext ==
  \/ \E k \in PriceKey : Ask(k) \/ Expire(k)
  \/ \E k \in Mapped : Reprice(k)
  \/ GetPage \/ Throttle \/ RefuseCall
  \/ TakeReply

PricingSpec == PricingInit /\ [][PricingNext]_pvars

-----------------------------------------------------------------------------

(* Every answer is one the promise allows: the book is the cache as the     *)
(* chain reads it, and for the offline catalog the catalog itself.          *)
KnownPrices ==
  [k \in PriceKey |->
    IF ~Live THEN CatalogAnswer(k)
    ELSE IF cache[k] = None THEN None
    ELSE Chained(k, cache[k])]

Book == INSTANCE PriceBook
  WITH book <- KnownPrices,
       Answer <- Answers

(* PROPERTY: for one analysis a key has one price.  Whatever the provider,  *)
(* however a lookup was answered, everyone who asks again is told the same  *)
(* until the entry expires, a missing price included, and a failed lookup   *)
(* leaves nothing behind ("Not-found results are cached too", cache.py:53). *)
KeepsPriceBook == Book!BookSpec

(* PROPERTY: a live price is never one of several candidates ("refusing to  *)
(* choose between them", aws_price_list.py:249).  If the API did not change *)
(* its listing during the walk, and the listing has no more pages than are  *)
(* walked, the rate quoted is the only one above zero on all of its pages.  *)
AmbiguityRefused ==
  [][\A k \in Mapped :
       (/\ call # None /\ call' = None /\ call.key = k /\ ~call.moved
        /\ Len(listing[k]) <= MaxPages
        /\ cache'[k] \notin {None, Miss})
       => (UNION {listing[k][i] : i \in DOMAIN listing[k]}) \ {0} = {cache'[k]}]_pvars
=============================================================================
