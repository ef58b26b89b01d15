----------------------------- MODULE PriceBook -----------------------------
(***************************************************************************)
(* What an analysis may rely on when it asks a provider for prices          *)
(* (pricing/provider.py): whoever asks for a key is told what was found out *)
(* about it, the first time and every time until it is forgotten; that      *)
(* there is no price is an answer like any other; and a provider that       *)
(* breaks tells nothing and is remembered for nothing.                      *)
(***************************************************************************)
CONSTANTS
  PriceKey,  \* what a price can be asked for
  Answer,    \* what can be found out about a key
  None,      \* nothing found out yet; no reply pending
  Broken     \* the reply of a provider that failed

VARIABLES
  book,      \* what is known of each key
  reply      \* the reply the asker has not taken yet

bookVars == <<book, reply>>

ToldTo(k) == [key |-> k, answer |-> book[k]]

BookInit ==
  /\ book \in [PriceKey -> Answer \cup {None}]
  /\ reply = None

Learn(k) ==
  /\ reply = None
  /\ book[k] = None
  /\ \E a \in Answer : book' = [book EXCEPT ![k] = a]
  /\ reply' = [key |-> k, answer |-> book'[k]]

Tell(k) ==
  /\ reply = None
  /\ book[k] # None
  /\ reply' = ToldTo(k)
  /\ UNCHANGED book

Break ==
  /\ reply = None
  /\ reply' = Broken
  /\ UNCHANGED book

Take ==
  /\ reply # None
  /\ reply' = None
  /\ UNCHANGED book

Forget(k) ==
  /\ book[k] # None
  /\ book' = [book EXCEPT ![k] = None]
  /\ UNCHANGED reply

BookNext ==
  \/ \E k \in PriceKey : Learn(k) \/ Tell(k) \/ Forget(k)
  \/ Break
  \/ Take

BookSpec == BookInit /\ [][BookNext]_bookVars
=============================================================================
