---------------------------- MODULE PricingProofs ----------------------------
(***************************************************************************)
(* Theorems about Pricing, for every catalog, every set of listings and    *)
(* every bound on pages, attempts, price changes and expiries: whatever    *)
(* the service does, the providers together implement the price book, and  *)
(* a price is never one of several candidates.                             *)
(*                                                                         *)
(* The invariant relates a lookup that is under way to the cache and to    *)
(* the listing: its key is not cached and nobody else is being answered,   *)
(* and unless the service changed its mind, the rates collected so far are *)
(* those of the pages walked.                                              *)
(***************************************************************************)
EXTENDS Pricing, FiniteSetTheorems, SequenceTheorems, TLAPS

-----------------------------------------------------------------------------
(* The inductive invariant.                                                *)

Typed ==
  /\ kind \in Kinds
  /\ Live => listing \in [Mapped -> Listings]
  /\ cache \in [PriceKey -> {None} \cup Answers]
  /\ reply \in {None, Broken} \cup Replies
  /\ call \in {None} \cup Calls

(* The offline catalog is asked without a cache.                           *)
OfflineIsUncached == ~Live => \A k \in PriceKey : cache[k] = None

(* A lookup is under way only for a key that is not cached, and nobody is  *)
(* being answered meanwhile.                                               *)
OneAtATime == call # None => Live /\ reply = None /\ cache[call.key] = None

(* The rates of the first n pages of a listing.                            *)
Walked(l, n) == UNION {l[i] : i \in DOMAIN l \cap 1 .. n}

(* What a lookup has collected.                                            *)
Collected ==
  call # None =>
    /\ IsFiniteSet(call.rates)
    /\ ~call.moved => call.rates = Walked(listing[call.key], call.page - 1)

PricingInv == Typed /\ OfflineIsUncached /\ OneAtATime /\ Collected

-----------------------------------------------------------------------------
(* Operators.                                                              *)

LEMMA AnswersAreNumbers == Answers \subseteq {Miss} \cup Nat /\ None \notin Answers /\ Miss # None
<1>1. Served \subseteq Nat
  <2> SUFFICES ASSUME NEW l \in Listings, NEW i \in DOMAIN l PROVE l[i] \subseteq Nat
    BY DEF Served
  <2>1. l \in Seq(SUBSET Nat)
    BY RateAssumption
  <2>2. i \in 1 .. Len(l)
    BY <2>1, LenProperties
  <2> QED  BY <2>1, <2>2, ElementOfSeq
<1>2. Answers \subseteq {Miss} \cup Nat
  BY <1>1, RateAssumption DEF Answers
<1>3. Miss # None
  <2>1. SUFFICES Miss = None => FALSE
    OBVIOUS
  <2>2. ASSUME Miss = None PROVE FALSE
    <3>1. {None, Miss} = {None}
      BY <2>2
    <3>2. Cardinality({None}) = 1
      BY FS_Singleton
    <3> QED  BY <3>1, <3>2, TellApartAssumption
  <2> QED  BY <2>2
<1> QED  BY <1>2, <1>3, TellApartAssumption

(* The answer to a walk is one of its rates, or a miss.                    *)
LEMMA VerdictIsServed ==
  ASSUME NEW rates, rates \subseteq Served, IsFiniteSet(rates)
  PROVE  /\ Verdict(rates) \in Answers
         /\ Verdict(rates) # Miss => rates \ {0} = {Verdict(rates)}
<1>1. IsFiniteSet(rates \ {0})
  BY FS_RemoveElement
<1>2. CASE Cardinality(rates \ {0}) = 1
  <2>1. PICK r : rates \ {0} = {r}
    BY <1>1, <1>2, FS_Singleton
  <2>2. Verdict(rates) = r
    BY <1>2, <2>1 DEF Verdict
  <2> QED  BY <2>1, <2>2 DEF Answers
<1>3. CASE Cardinality(rates \ {0}) # 1
  BY <1>3 DEF Verdict, Answers
<1> QED  BY <1>2, <1>3

(* A page served is part of what may be served, and finite.                *)
LEMMA PageIsServed ==
  ASSUME Typed, Live, NEW c \in Calls
  PROVE  /\ listing[c.key] \in Listings
         /\ listing[c.key] \in Seq(SUBSET Nat)
         /\ PageOf(c) \subseteq Served /\ IsFiniteSet(PageOf(c))
<1>1. listing[c.key] \in Listings /\ c.page \in 1 .. MaxPages
  BY DEF Typed, Calls
<1>2. /\ listing[c.key] \in Seq(SUBSET Nat)
      /\ \A i \in DOMAIN listing[c.key] : IsFiniteSet(listing[c.key][i])
  BY <1>1, RateAssumption
<1>3. DOMAIN listing[c.key] = 1 .. Len(listing[c.key]) /\ Len(listing[c.key]) \in Nat
  BY <1>2, LenProperties
<1>4. CASE c.page <= Len(listing[c.key])
  <2>1. c.page \in DOMAIN listing[c.key]
    BY <1>1, <1>3, <1>4, PricingAssumption
  <2> QED  BY <1>1, <1>2, <1>4, <2>1 DEF PageOf, Served
<1>5. CASE ~(c.page <= Len(listing[c.key]))
  BY <1>1, <1>2, <1>5, FS_EmptySet DEF PageOf
<1> QED  BY <1>1, <1>2, <1>4, <1>5

(* One page more has been walked.                                          *)
LEMMA WalkedOneMore ==
  ASSUME Typed, Live, NEW c \in Calls, c.rates = Walked(listing[c.key], c.page - 1)
  PROVE  c.rates \cup PageOf(c) = Walked(listing[c.key], c.page)
<1> DEFINE l == listing[c.key]
<1>1. DOMAIN l = 1 .. Len(l) /\ Len(l) \in Nat
  BY PageIsServed, LenProperties
<1>2. c.page \in Nat \ {0}
  BY PricingAssumption DEF Calls
<1> HIDE DEF l
<1>3. CASE c.page <= Len(l)
  <2>1. DOMAIN l \cap 1 .. c.page = (DOMAIN l \cap 1 .. (c.page - 1)) \cup {c.page}
    BY <1>1, <1>2, <1>3
  <2>2. Walked(l, c.page) = Walked(l, c.page - 1) \cup l[c.page]
    BY <2>1 DEF Walked
  <2>3. PageOf(c) = l[c.page]
    BY <1>3 DEF PageOf, l
  <2> QED  BY <2>2, <2>3 DEF l
<1>4. CASE ~(c.page <= Len(l))
  <2>1. DOMAIN l \cap 1 .. c.page = DOMAIN l \cap 1 .. (c.page - 1)
    BY <1>1, <1>2, <1>4
  <2>2. Walked(l, c.page) = Walked(l, c.page - 1)
    BY <2>1 DEF Walked
  <2>3. PageOf(c) = {}
    BY <1>4 DEF PageOf, l
  <2> QED  BY <2>2, <2>3 DEF l
<1> QED  BY <1>3, <1>4

LEMMA ChainedIsAnswer ==
  ASSUME NEW k \in PriceKey, NEW a \in Answers
  PROVE  Chained(k, a) \in Answers /\ Told(k, a) \in Replies /\ CatalogAnswer(k) \in Answers
<1>1. CatalogAnswer(k) \in Answers
  BY DEF CatalogAnswer, Answers
<1>2. Chained(k, a) \in Answers
  BY <1>1 DEF Chained
<1> QED  BY <1>1, <1>2 DEF Told, Replies

-----------------------------------------------------------------------------
(* The invariant is inductive.                                             *)

LEMMA PricingInitially == PricingInit => PricingInv
BY DEF PricingInit, PricingInv, Typed, OfflineIsUncached, OneAtATime, Collected, Live, Kinds

LEMMA AskKeeps ==
  ASSUME PricingInv, NEW k \in PriceKey, Ask(k)
  PROVE  PricingInv'
<1>1. /\ UNCHANGED <<kind, listing, reprices, expiries>>
      /\ reply = None /\ call = None /\ (Live <=> Live')
  BY DEF Ask, Live
<1>2. Miss \in Answers
  BY DEF Answers
<1>3. CASE ~Live /\ reply' = [key |-> k, answer |-> CatalogAnswer(k)] /\ UNCHANGED <<call, cache>>
  <2>1. reply' \in Replies
    BY <1>2, <1>3, ChainedIsAnswer DEF Replies
  <2> QED  BY <1>1, <1>3, <2>1
           DEF PricingInv, Typed, OfflineIsUncached, OneAtATime, Collected
<1>4. CASE Live /\ cache[k] # None /\ reply' = Told(k, cache[k]) /\ UNCHANGED <<call, cache>>
  <2>1. reply' \in Replies
    BY <1>4, ChainedIsAnswer DEF PricingInv, Typed
  <2> QED  BY <1>1, <1>4, <2>1
           DEF PricingInv, Typed, OfflineIsUncached, OneAtATime, Collected
<1>5. CASE Live /\ cache[k] = None /\ k \in Mapped /\ call' = Call(k) /\ UNCHANGED <<reply, cache>>
  <2>1. /\ Call(k) \in Calls /\ Call(k).key = k /\ Call(k).rates = {} /\ Call(k).page = 1
    BY <1>5, PricingAssumption DEF Call, Calls
  <2>2. Walked(listing[k], 0) = {} /\ IsFiniteSet({})
    BY FS_EmptySet DEF Walked
  <2>3. Typed'
    BY <1>1, <1>5, <2>1 DEF PricingInv, Typed
  <2>4. OneAtATime' /\ OfflineIsUncached'
    BY <1>1, <1>5, <2>1 DEF PricingInv, OneAtATime, OfflineIsUncached
  <2>5. Collected'
    BY <1>1, <1>5, <2>1, <2>2 DEF Collected
  <2> QED  BY <2>3, <2>4, <2>5 DEF PricingInv
<1>6. CASE Live /\ k \notin Mapped /\ Store(k, Miss) /\ reply' = Told(k, Miss) /\ UNCHANGED call
  <2>1. reply' \in Replies
    BY <1>2, <1>6, ChainedIsAnswer
  <2>2. cache' \in [PriceKey -> {None} \cup Answers]
    BY <1>2, <1>6 DEF Store, PricingInv, Typed
  <2> QED  BY <1>1, <1>6, <2>1, <2>2
           DEF PricingInv, Typed, OfflineIsUncached, OneAtATime, Collected
<1> QED  BY <1>3, <1>4, <1>5, <1>6 DEF Ask

LEMMA GetPageKeeps ==
  ASSUME PricingInv, GetPage
  PROVE  PricingInv'
<1> DEFINE rates == call.rates \cup PageOf(call)
<1>1. /\ call \in Calls /\ call # None
      /\ Live /\ reply = None /\ cache[call.key] = None
      /\ UNCHANGED <<kind, listing, reprices, expiries>> /\ (Live <=> Live')
  BY DEF GetPage, PricingInv, Typed, OneAtATime, Live
<1>2. /\ call.rates \subseteq Served /\ IsFiniteSet(call.rates) /\ call.key \in PriceKey
      /\ call.page \in 1 .. MaxPages /\ call.moved \in BOOLEAN
  BY <1>1, PricingAssumption DEF Calls, PricingInv, Collected
<1>3. rates \subseteq Served /\ IsFiniteSet(rates)
  BY <1>1, <1>2, PageIsServed, FS_Union DEF PricingInv
<1>4. ~call.moved => rates = Walked(listing[call.key], call.page)
  BY <1>1, WalkedOneMore DEF PricingInv, Collected
<1> HIDE DEF rates
<1>5. CASE LastPage(call)
  <2>1. /\ cache' = [cache EXCEPT ![call.key] = Verdict(rates)]
        /\ reply' = Told(call.key, Verdict(rates)) /\ call' = None
    BY <1>5 DEF GetPage, Store, rates
  <2>2. Verdict(rates) \in Answers
    BY <1>3, VerdictIsServed
  <2>3. reply' \in Replies /\ cache' \in [PriceKey -> {None} \cup Answers]
    BY <1>2, <2>1, <2>2, ChainedIsAnswer DEF PricingInv, Typed
  <2> QED  BY <1>1, <2>1, <2>3 DEF PricingInv, Typed, OfflineIsUncached, OneAtATime, Collected
<1>6. CASE ~LastPage(call)
  <2> DEFINE next == [call EXCEPT !.page = call.page + 1, !.attempt = 1, !.rates = rates]
  <2>1. call' = next /\ UNCHANGED <<cache, reply>>
    BY <1>6 DEF GetPage, rates
  <2>2. call.page + 1 \in 1 .. MaxPages /\ 1 \in 1 .. MaxAttempts
    BY <1>2, <1>6, PricingAssumption DEF LastPage
  <2>3. next \in Calls
    BY <1>1, <1>3, <2>2 DEF Calls
  <2>4. /\ next.key = call.key /\ next.page = call.page + 1 /\ next.rates = rates
        /\ next.moved = call.moved
    BY <1>1 DEF Calls
  <2> HIDE DEF next
  <2>5. Typed' /\ OfflineIsUncached' /\ OneAtATime'
    BY <1>1, <2>1, <2>3, <2>4 DEF PricingInv, Typed, OfflineIsUncached, OneAtATime
  <2>6. Collected'
    <3>1. next.page - 1 = call.page
      BY <1>2, <2>4
    <3> QED  BY <1>1, <1>3, <1>4, <2>1, <2>4, <3>1 DEF Collected
  <2> QED  BY <2>5, <2>6 DEF PricingInv
<1> QED  BY <1>5, <1>6

LEMMA ThrottleKeeps ==
  ASSUME PricingInv, Throttle \/ RefuseCall
  PROVE  PricingInv'
<1>1. /\ call \in Calls /\ Live /\ reply = None /\ cache[call.key] = None
      /\ UNCHANGED <<kind, listing, cache, reprices, expiries>> /\ (Live <=> Live')
  BY DEF Throttle, RefuseCall, PricingInv, Typed, OneAtATime, Live
<1>2. CASE call' = None /\ reply' = Broken
  BY <1>1, <1>2 DEF PricingInv, Typed, OfflineIsUncached, OneAtATime, Collected
<1>3. CASE call.attempt < MaxAttempts /\ UNCHANGED reply
           /\ call' = [call EXCEPT !.attempt = call.attempt + 1]
  <2>1. call.attempt + 1 \in 1 .. MaxAttempts
    BY <1>1, <1>3, PricingAssumption DEF Calls
  <2>2. /\ call' \in Calls /\ call'.key = call.key /\ call'.page = call.page
        /\ call'.rates = call.rates /\ call'.moved = call.moved
    BY <1>1, <1>3, <2>1 DEF Calls
  <2>3. Typed' /\ OfflineIsUncached' /\ OneAtATime'
    BY <1>1, <1>3, <2>2 DEF PricingInv, Typed, OfflineIsUncached, OneAtATime
  <2>4. Collected'
    BY <1>1, <2>2, TellApartAssumption DEF PricingInv, Collected
  <2> QED  BY <2>3, <2>4 DEF PricingInv
<1> QED  BY <1>2, <1>3 DEF Throttle, RefuseCall

LEMMA RepriceKeeps ==
  ASSUME PricingInv, NEW k \in Mapped, Reprice(k)
  PROVE  PricingInv'
<1>1. PICK l \in Listings : listing' = [listing EXCEPT ![k] = l]
  BY DEF Reprice
<1>2. /\ Live /\ UNCHANGED <<kind, cache, reply, expiries>> /\ (Live <=> Live')
      /\ listing' \in [Mapped -> Listings]
      /\ \A m \in Mapped \ {k} : listing'[m] = listing[m]
  BY <1>1 DEF Reprice, PricingInv, Typed, Live
<1>3. CASE call # None /\ call.key = k /\ call' = [call EXCEPT !.moved = TRUE]
  <2>1. call \in Calls
    BY <1>3 DEF PricingInv, Typed
  <2>2. call' \in Calls /\ call'.key = k /\ call'.rates = call.rates /\ call'.moved = TRUE
    BY <1>3, <2>1 DEF Calls
  <2>3. Typed' /\ OfflineIsUncached' /\ OneAtATime'
    BY <1>2, <1>3, <2>2 DEF PricingInv, Typed, OfflineIsUncached, OneAtATime
  <2>4. Collected'
    BY <1>3, <2>2 DEF PricingInv, Collected
  <2> QED  BY <2>3, <2>4 DEF PricingInv
<1>4. CASE ~(call # None /\ call.key = k) /\ UNCHANGED call
  <2>1. Typed' /\ OfflineIsUncached' /\ OneAtATime'
    BY <1>2, <1>4 DEF PricingInv, Typed, OfflineIsUncached, OneAtATime
  <2>2. call # None => call.key \in Mapped \ {k}
    BY <1>4 DEF PricingInv, Typed, Calls
  <2>3. Collected'
    BY <1>2, <1>4, <2>2 DEF PricingInv, Collected
  <2> QED  BY <2>1, <2>3 DEF PricingInv
<1> QED  BY <1>3, <1>4 DEF Reprice

LEMMA PricingInductive == PricingInv /\ [PricingNext]_pvars => PricingInv'
<1> SUFFICES ASSUME PricingInv, [PricingNext]_pvars PROVE PricingInv'
  OBVIOUS
<1>1. ASSUME NEW k \in PriceKey, Expire(k) PROVE PricingInv'
  <2>1. /\ cache' = [cache EXCEPT ![k] = None]
        /\ UNCHANGED <<kind, listing, call, reply, reprices>> /\ (Live <=> Live')
    BY <1>1 DEF Expire, Live
  <2> QED  BY <2>1 DEF PricingInv, Typed, OfflineIsUncached, OneAtATime, Collected, Calls
<1>2. ASSUME TakeReply PROVE PricingInv'
  <2>1. /\ reply # None /\ reply' = None
        /\ UNCHANGED <<kind, listing, call, cache, reprices, expiries>> /\ (Live <=> Live')
    BY <1>2 DEF TakeReply, Live
  <2> QED  BY <2>1 DEF PricingInv, Typed, OfflineIsUncached, OneAtATime, Collected
<1>3. ASSUME UNCHANGED pvars PROVE PricingInv'
  BY <1>3 DEF pvars, PricingInv, Typed, OfflineIsUncached, OneAtATime, Collected, Live
<1> QED  BY <1>1, <1>2, <1>3, AskKeeps, GetPageKeeps, ThrottleKeeps, RepriceKeeps DEF PricingNext

LEMMA PricingInvariant == PricingSpec => []PricingInv
BY PricingInitially, PricingInductive, PTL DEF PricingSpec

-----------------------------------------------------------------------------
(* What the invariant shows.                                               *)

(* Of an ambiguous price the providers say nothing: a live price is the    *)
(* only one on all the pages of a listing that did not change meanwhile    *)
(* and is not longer than the walk (aws_price_list.py:249).                *)
THEOREM PricesAreUnambiguous == PricingSpec => AmbiguityRefused
<1> DEFINE Unambiguous ==
      \A k \in Mapped :
        (/\ call # None /\ call' = None /\ call.key = k /\ ~call.moved
         /\ Len(listing[k]) <= MaxPages
         /\ cache'[k] \notin {None, Miss})
        => (UNION {listing[k][i] : i \in DOMAIN listing[k]}) \ {0} = {cache'[k]}
<1>1. ASSUME PricingInv, [PricingNext]_pvars PROVE [Unambiguous]_pvars
  <2> SUFFICES ASSUME NEW k \in Mapped, call # None, call' = None, call.key = k, ~call.moved,
                      Len(listing[k]) <= MaxPages, cache'[k] \notin {None, Miss}
               PROVE  (UNION {listing[k][i] : i \in DOMAIN listing[k]}) \ {0} = {cache'[k]}
    OBVIOUS
  <2>1. /\ call \in Calls /\ Live /\ cache[k] = None
        /\ listing[k] \in Seq(SUBSET Nat) /\ k \in PriceKey
        /\ PageOf(call) \subseteq Served /\ IsFiniteSet(PageOf(call))
        /\ cache \in [PriceKey -> {None} \cup Answers]
    BY <1>1, PageIsServed, PricingAssumption DEF PricingInv, Typed, OneAtATime
  <2>2. GetPage
    <3>1. ASSUME NEW m \in PriceKey, Ask(m) \/ Expire(m) PROVE FALSE
      BY <3>1 DEF Ask, Expire
    <3>2. ASSUME NEW m \in Mapped, Reprice(m) PROVE FALSE
      <4>1. call' # None
        <5>1. CASE call.key = m
          <6>1. call' = [call EXCEPT !.moved = TRUE]
            BY <3>2, <5>1 DEF Reprice
          <6>2. call' \in Calls
            BY <2>1, <6>1 DEF Calls
          <6> QED  BY <6>2, TellApartAssumption
        <5>2. CASE call.key # m
          BY <3>2, <5>2 DEF Reprice
        <5> QED  BY <5>1, <5>2
      <4> QED  BY <4>1
    <3>3. ASSUME Throttle \/ RefuseCall \/ TakeReply \/ UNCHANGED pvars PROVE FALSE
      BY <2>1, <3>3 DEF Throttle, RefuseCall, TakeReply, pvars
    <3> QED  BY <1>1, <3>1, <3>2, <3>3 DEF PricingNext
  <2> DEFINE rates == call.rates \cup PageOf(call)
  <2>3. LastPage(call) /\ cache' = [cache EXCEPT ![k] = Verdict(rates)]
    <3>1. CASE LastPage(call)
      BY <2>2, <3>1 DEF GetPage, Store
    <3>2. CASE ~LastPage(call)
      BY <2>1, <2>2, <3>2 DEF GetPage
    <3> QED  BY <3>1, <3>2
  <2>4. cache'[k] = Verdict(rates)
    BY <2>1, <2>3
  <2>5. rates \subseteq Served /\ IsFiniteSet(rates)
    <3>1. call.rates \subseteq Served /\ IsFiniteSet(call.rates)
      BY <1>1, <2>1 DEF PricingInv, Collected, Calls
    <3> QED  BY <2>1, <3>1, FS_Union
  <2>6. rates = Walked(listing[k], call.page)
    BY <1>1, <2>1, WalkedOneMore DEF PricingInv, Collected
  <2>7. DOMAIN listing[k] \cap 1 .. call.page = DOMAIN listing[k]
    <3>1. DOMAIN listing[k] = 1 .. Len(listing[k]) /\ Len(listing[k]) \in Nat
      BY <2>1, LenProperties
    <3>2. call.page \in Nat /\ call.page >= Len(listing[k])
      BY <2>1, <2>3, <3>1, PricingAssumption DEF LastPage, Calls
    <3> QED  BY <3>1, <3>2
  <2>8. rates \ {0} = {Verdict(rates)}
    BY <2>4, <2>5, VerdictIsServed
  <2>9. Walked(listing[k], call.page) = UNION {listing[k][i] : i \in DOMAIN listing[k]}
    BY <2>7 DEF Walked
  <2> HIDE DEF rates
  <2> QED  BY <2>4, <2>6, <2>8, <2>9
<1> QED  BY <1>1, PricingInvariant, PTL DEF PricingSpec, AmbiguityRefused

(* One entry of the cache is one entry of the book.                        *)
LEMMA BookOfCache ==
  ASSUME PricingInv, Live, UNCHANGED kind, NEW k \in PriceKey, NEW a \in {None} \cup Answers,
         cache' = [cache EXCEPT ![k] = a]
  PROVE  KnownPrices' = [KnownPrices EXCEPT ![k] = IF a = None THEN None ELSE Chained(k, a)]
<1>1. Live'
  BY DEF Live
<1>2. \A m \in PriceKey : cache'[m] = IF m = k THEN a ELSE cache[m]
  BY DEF PricingInv, Typed
<1> DEFINE Known(m, b) ==
      IF b = None THEN None ELSE IF kind = "chain" /\ b = Miss THEN CatalogAnswer(m) ELSE b
<1>3. KnownPrices = [m \in PriceKey |-> Known(m, cache[m])]
  BY DEF KnownPrices, Chained
<1>4. KnownPrices' = [m \in PriceKey |-> Known(m, cache'[m])]
  BY <1>1 DEF KnownPrices, Chained
<1>5. Known(k, a) = IF a = None THEN None ELSE Chained(k, a)
  BY DEF Chained
<1> HIDE DEF Known
<1> QED  BY <1>2, <1>3, <1>4, <1>5

LEMMA KnownPricesTyped ==
  ASSUME PricingInv
  PROVE  /\ KnownPrices \in [PriceKey -> Answers \cup {None}]
         /\ \A k \in PriceKey : ~Live => KnownPrices[k] = CatalogAnswer(k)
         /\ \A k \in PriceKey : Live /\ cache[k] = None => KnownPrices[k] = None
         /\ \A k \in PriceKey : Live /\ cache[k] # None => KnownPrices[k] = Chained(k, cache[k])
         /\ \A k \in PriceKey : (~Live \/ cache[k] # None) => KnownPrices[k] # None
<1>1. ASSUME NEW k \in PriceKey, Live, cache[k] # None
      PROVE  Chained(k, cache[k]) \in Answers
  BY <1>1, ChainedIsAnswer DEF PricingInv, Typed
<1>2. \A k \in PriceKey : CatalogAnswer(k) \in Answers
  BY ChainedIsAnswer DEF Answers
<1> QED  BY <1>1, <1>2, AnswersAreNumbers DEF KnownPrices

(* Every operation of the providers is an operation of the book, or looks  *)
(* up what nobody knows yet.                                               *)
LEMMA AskIsBookStep ==
  ASSUME PricingInv, NEW k \in PriceKey, Ask(k)
  PROVE  [Book!BookNext]_(Book!bookVars)
<1>1. /\ UNCHANGED <<kind, listing, reprices, expiries>> /\ reply = None /\ call = None
  BY DEF Ask
<1>2. CASE ~Live /\ reply' = [key |-> k, answer |-> CatalogAnswer(k)] /\ UNCHANGED <<call, cache>>
  <2>1. UNCHANGED KnownPrices
    BY <1>1, <1>2 DEF KnownPrices, Live, Chained
  <2>2. Book!Tell(k)
    BY <1>1, <1>2, <2>1, KnownPricesTyped DEF Book!Tell, Book!ToldTo
  <2> QED  BY <2>2 DEF Book!BookNext
<1>3. CASE Live /\ cache[k] # None /\ reply' = Told(k, cache[k]) /\ UNCHANGED <<call, cache>>
  <2>1. UNCHANGED KnownPrices
    BY <1>1, <1>3 DEF KnownPrices, Live, Chained
  <2>2. Book!Tell(k)
    BY <1>1, <1>3, <2>1, KnownPricesTyped DEF Book!Tell, Book!ToldTo, Told
  <2> QED  BY <2>2 DEF Book!BookNext
<1>4. CASE UNCHANGED <<reply, cache>>
  BY <1>1, <1>4 DEF Book!bookVars, KnownPrices, Live, Chained
<1>5. CASE Live /\ cache[k] = None /\ Store(k, Miss) /\ reply' = Told(k, Miss) /\ UNCHANGED call
  <2>1. Miss \in Answers /\ Miss # None /\ Chained(k, Miss) \in Answers
    BY ChainedIsAnswer, AnswersAreNumbers DEF Answers
  <2>2. KnownPrices' = [KnownPrices EXCEPT ![k] = Chained(k, Miss)]
    BY <1>1, <1>5, <2>1, BookOfCache DEF Store
  <2>3. KnownPrices[k] = None /\ KnownPrices'[k] = Chained(k, Miss)
    BY <1>5, <2>2, KnownPricesTyped
  <2>4. Book!Learn(k)
    BY <1>1, <1>5, <2>1, <2>2, <2>3 DEF Book!Learn, Told
  <2> QED  BY <2>4 DEF Book!BookNext
<1> QED  BY <1>2, <1>3, <1>4, <1>5 DEF Ask

LEMMA GetPageIsBookStep ==
  ASSUME PricingInv, GetPage
  PROVE  [Book!BookNext]_(Book!bookVars)
<1> DEFINE rates == call.rates \cup PageOf(call)
           k == call.key
<1>1. /\ call \in Calls /\ call # None /\ Live /\ reply = None /\ cache[k] = None
      /\ UNCHANGED kind /\ k \in PriceKey
  BY PricingAssumption DEF GetPage, PricingInv, Typed, OneAtATime, Calls
<1>2. rates \subseteq Served /\ IsFiniteSet(rates)
  BY <1>1, PageIsServed, FS_Union DEF Calls, PricingInv, Collected
<1>3. Verdict(rates) \in Answers
  BY <1>2, VerdictIsServed
<1>4. CASE LastPage(call)
  <2>1. cache' = [cache EXCEPT ![k] = Verdict(rates)] /\ reply' = Told(k, Verdict(rates))
    BY <1>4 DEF GetPage, Store
  <2> HIDE DEF rates, k
  <2>2. KnownPrices' = [KnownPrices EXCEPT ![k] = Chained(k, Verdict(rates))]
    BY <1>1, <1>3, <2>1, BookOfCache, AnswersAreNumbers
  <2>3. KnownPrices[k] = None /\ KnownPrices'[k] = Chained(k, Verdict(rates))
    BY <1>1, <2>2, KnownPricesTyped
  <2>4. Chained(k, Verdict(rates)) \in Answers
    BY <1>1, <1>3, ChainedIsAnswer
  <2>5. Book!Learn(k)
    BY <1>1, <2>1, <2>2, <2>3, <2>4 DEF Book!Learn, Told
  <2> QED  BY <1>1, <2>5 DEF Book!BookNext
<1>5. CASE ~LastPage(call)
  BY <1>1, <1>5 DEF GetPage, Book!bookVars, KnownPrices, Live, Chained
<1> QED  BY <1>4, <1>5

LEMMA ProvidersStep ==
  ASSUME PricingInv, [PricingNext]_pvars
  PROVE  [Book!BookNext]_(Book!bookVars)
<1>1. ASSUME UNCHANGED <<kind, cache, reply>> PROVE UNCHANGED Book!bookVars
  BY <1>1 DEF Book!bookVars, KnownPrices, Live, Chained
<1>2. ASSUME UNCHANGED <<kind, cache>> PROVE UNCHANGED KnownPrices
  BY <1>2 DEF KnownPrices, Live, Chained
<1>3. ASSUME NEW k \in PriceKey, Expire(k) PROVE Book!BookNext
  <2>1. Live /\ cache[k] # None /\ cache' = [cache EXCEPT ![k] = None] /\ UNCHANGED <<kind, reply>>
    BY <1>3 DEF Expire, PricingInv, OfflineIsUncached
  <2>2. KnownPrices' = [KnownPrices EXCEPT ![k] = None] /\ KnownPrices[k] # None
    BY <2>1, BookOfCache, KnownPricesTyped
  <2>3. Book!Forget(k)
    BY <2>1, <2>2 DEF Book!Forget
  <2> QED  BY <2>3 DEF Book!BookNext
<1>4. ASSUME NEW k \in Mapped, Reprice(k) PROVE UNCHANGED Book!bookVars
  BY <1>1, <1>4 DEF Reprice
<1>5. ASSUME Throttle \/ RefuseCall PROVE [Book!BookNext]_(Book!bookVars)
  <2>1. reply = None /\ UNCHANGED <<kind, cache>>
    BY <1>5 DEF Throttle, RefuseCall, PricingInv, OneAtATime
  <2>2. UNCHANGED reply \/ reply' = Broken
    BY <1>5 DEF Throttle, RefuseCall
  <2>3. ASSUME reply' = Broken PROVE Book!Break
    BY <1>2, <2>1, <2>3 DEF Book!Break
  <2> QED  BY <1>1, <2>1, <2>2, <2>3 DEF Book!BookNext
<1>6. ASSUME TakeReply PROVE Book!Take
  BY <1>2, <1>6 DEF TakeReply, Book!Take
<1>7. ASSUME UNCHANGED pvars PROVE UNCHANGED Book!bookVars
  BY <1>1, <1>7 DEF pvars
<1> QED  BY <1>3, <1>4, <1>5, <1>6, <1>7, AskIsBookStep, GetPageIsBookStep
         DEF PricingNext, Book!BookNext

(* The offline catalog, the cached API and the chain of both are one price *)
(* book: a key has one price until it is forgotten, that there is none is  *)
(* remembered like a price, and a provider that breaks leaves nothing      *)
(* behind (pricing/cache.py:70).                                           *)
THEOREM ProvidersImplementBook == PricingSpec => KeepsPriceBook
<1>1. PricingInit => Book!BookInit
  <2> SUFFICES ASSUME PricingInit PROVE Book!BookInit
    OBVIOUS
  <2>1. PricingInv
    BY PricingInitially
  <2> QED  BY <2>1, KnownPricesTyped DEF PricingInit, Book!BookInit
<1>2. PricingInv /\ [PricingNext]_pvars => [Book!BookNext]_(Book!bookVars)
  BY ProvidersStep
<1> QED  BY <1>1, <1>2, PricingInvariant, PTL DEF PricingSpec, KeepsPriceBook, Book!BookSpec

-----------------------------------------------------------------------------
(* What an asker may count on until an entry expires.                      *)

(* What is known stays known.                                              *)
LEMMA PricesStay ==
  ASSUME PricingInv, [PricingNext]_pvars, expiries \in Nat, UNCHANGED expiries,
         NEW k \in PriceKey, KnownPrices[k] # None
  PROVE  KnownPrices'[k] = KnownPrices[k]
<1>1. UNCHANGED kind /\ (Live <=> Live')
  BY DEF PricingNext, Ask, Expire, Reprice, GetPage, Throttle, RefuseCall, TakeReply, pvars, Live
<1>2. ASSUME Live PROVE cache'[k] = cache[k]
  <2>1. cache[k] # None /\ cache \in [PriceKey -> {None} \cup Answers]
    BY <1>2, KnownPricesTyped DEF PricingInv, Typed
  <2>2. ASSUME NEW m \in PriceKey, Ask(m) PROVE cache'[k] = cache[k]
    BY <2>1, <2>2 DEF Ask, Store
  <2>3. ASSUME NEW m \in PriceKey, Expire(m) PROVE FALSE
    <3>1. expiries' = expiries + 1
      BY <2>3 DEF Expire
    <3> QED  BY <3>1
  <2>4. CASE GetPage
    <3>1. cache[call.key] = None
      BY <2>4 DEF GetPage, PricingInv, OneAtATime
    <3>2. UNCHANGED cache \/ \E a : Store(call.key, a)
      BY <2>4 DEF GetPage
    <3> QED  BY <2>1, <3>1, <3>2 DEF Store
  <2>5. ASSUME (\E m \in Mapped : Reprice(m)) \/ Throttle \/ RefuseCall \/ TakeReply \/ UNCHANGED pvars
        PROVE  UNCHANGED cache
    BY <2>5 DEF Reprice, Throttle, RefuseCall, TakeReply, pvars
  <2> QED  BY <2>2, <2>3, <2>4, <2>5 DEF PricingNext
<1> QED  BY <1>1, <1>2 DEF KnownPrices, Chained

LEMMA AnswerIsKnown ==
  ASSUME PricingInv, NEW k \in PriceKey, Ask(k) \/ (GetPage /\ call.key = k), reply' # None
  PROVE  reply' = [key |-> k, answer |-> KnownPrices'[k]] /\ KnownPrices'[k] # None
<1>1. reply = None
  BY DEF Ask, GetPage, PricingInv, OneAtATime
<1>2. \E a \in Answers : reply' = [key |-> k, answer |-> a]
  <2>1. CASE Ask(k)
    <3>1. Miss \in Answers /\ CatalogAnswer(k) \in Answers
      BY ChainedIsAnswer DEF Answers
    <3>2. cache[k] # None => cache[k] \in Answers
      BY DEF PricingInv, Typed
    <3> QED  BY <1>1, <2>1, <3>1, <3>2, ChainedIsAnswer DEF Ask, Told
  <2>2. CASE GetPage /\ call.key = k
    <3> DEFINE rates == call.rates \cup PageOf(call)
    <3>1. call # None /\ call \in Calls /\ Live
      BY <2>2 DEF GetPage, PricingInv, Typed, OneAtATime
    <3>2. rates \subseteq Served /\ IsFiniteSet(rates)
      <4>1. call.rates \subseteq Served /\ IsFiniteSet(call.rates)
        BY <3>1 DEF PricingInv, Collected, Calls
      <4>2. PageOf(call) \subseteq Served /\ IsFiniteSet(PageOf(call))
        BY <3>1, PageIsServed DEF PricingInv
      <4> QED  BY <4>1, <4>2, FS_Union
    <3>3. Chained(k, Verdict(rates)) \in Answers
      BY <3>2, VerdictIsServed, ChainedIsAnswer
    <3>4. UNCHANGED reply \/ reply' = Told(k, Verdict(rates))
      BY <2>2 DEF GetPage
    <3> QED  BY <1>1, <3>3, <3>4 DEF Told
  <2> QED  BY <2>1, <2>2
<1>4. reply' \in Replies
  BY <1>2 DEF Replies
<1>5. reply'.answer \in Answers /\ reply'.key = k
  BY <1>2, <1>4 DEF Replies
<1>6. reply' # Broken
  BY <1>4, TellApartAssumption
<1>7. [Book!BookNext]_(Book!bookVars)
  BY AskIsBookStep, GetPageIsBookStep
<1>8. PICK m \in PriceKey : Book!Learn(m) \/ Book!Tell(m)
  BY <1>1, <1>6, <1>7 DEF Book!BookNext, Book!Break, Book!Take, Book!Forget, Book!bookVars
<1>9. reply' = [key |-> m, answer |-> KnownPrices'[m]]
  BY <1>8 DEF Book!Learn, Book!Tell, Book!ToldTo
<1> QED  BY <1>5, <1>9, AnswersAreNumbers
=============================================================================
