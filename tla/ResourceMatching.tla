-------------------------- MODULE ResourceMatching --------------------------
(***************************************************************************)
(* Which resource of the baseline is which resource of the proposal        *)
(* (diff/matching.py): every plausible pairing is a candidate, with the    *)
(* tier that justifies it; candidates are taken best first, and one is a   *)
(* match if neither of its ends has been matched before.                   *)
(*                                                                         *)
(* A resource is its key, its type, its construct path (or None) and a     *)
(* state, which stands for its properties.  A logical ID that ends in a    *)
(* hash suffix has a base; Order is the order of keys as strings.          *)
(***************************************************************************)
EXTENDS Naturals, FiniteSets

CONSTANTS
  Key,         \* records [stack, id]: a stack and a logical ID in it
  Body,        \* records [type, path, state]: what a resource can be
  None,        \* no construct path, no hash suffix, no resource, no price
  Base,        \* each logical ID without its hash suffix, None if it has none
  Order,       \* the order of the keys
  MaxResources \* bound on the resources of a snapshot

Id == {k.id : k \in Key}

(* Keys are told apart by stack and logical ID.                            *)
ASSUME KeyAssumption ==
  /\ IsFiniteSet(Key)
  /\ \A k, l \in Key : (k.stack = l.stack /\ k.id = l.id) => k = l
  /\ Order \in [Key -> Nat]
  /\ \A k, l \in Key : Order[k] = Order[l] => k = l
  /\ DOMAIN Base = Id

ASSUME BodyAssumption ==
  \A b \in Body : b = [type |-> b.type, path |-> b.path, state |-> b.state]

VARIABLES
  baseline, proposed,  \* the two snapshots: sets of resources
  left,                \* candidates not looked at yet
  matches              \* candidates that became matches

mvars == <<baseline, proposed, left, matches>>

-----------------------------------------------------------------------------

Resource(k, b) == [key |-> k, type |-> b.type, path |-> b.path, state |-> b.state]

ASSUME NoneIsNoResource == \A k \in Key, b \in Body : Resource(k, b) # None

(* Snapshots: no two resources of one share a key.                         *)
Graphs ==
  UNION {{{Resource(k, f[k]) : k \in ks} : f \in [ks -> Body]} :
           ks \in {s \in SUBSET Key : Cardinality(s) <= MaxResources}}

Methods == {"CONSTRUCT_PATH", "LOGICAL_ID", "HEURISTIC"}

Score(method) ==
  CASE method = "CONSTRUCT_PATH" -> 3
    [] method = "LOGICAL_ID"     -> 2
    [] method = "HEURISTIC"      -> 1

Pairable(b, a) == b.key.stack = a.key.stack /\ b.type = a.type

(* The condition of each tier.                                             *)
Plausible(b, a, method) ==
  CASE method = "CONSTRUCT_PATH" -> b.path # None /\ b.path = a.path
    [] method = "LOGICAL_ID"     -> b.key.id = a.key.id
    [] method = "HEURISTIC"      -> Base[b.key.id] # None /\ Base[b.key.id] = Base[a.key.id]

Candidates(bs, as) ==
  {c \in [before : bs, after : as, method : Methods] :
     Pairable(c.before, c.after) /\ Plausible(c.before, c.after, c.method)}

(* Faulty variant: the tiers are taken in the wrong order.                 *)
PrecedesReversed(c, d) ==
  IF Score(c.method) # Score(d.method) THEN Score(c.method) < Score(d.method)
  ELSE IF c.before # d.before THEN Order[c.before.key] < Order[d.before.key]
  ELSE Order[c.after.key] < Order[d.after.key]

(* Best tier first; then the order of the baseline keys, then of the       *)
(* proposed keys.                                                          *)
Precedes(c, d) ==
  IF Score(c.method) # Score(d.method) THEN Score(c.method) > Score(d.method)
  ELSE IF c.before # d.before THEN Order[c.before.key] < Order[d.before.key]
  ELSE Order[c.after.key] < Order[d.after.key]

Competes(c, d) == c.before = d.before \/ c.after = d.after

MatchInit ==
  /\ baseline \in Graphs
  /\ proposed \in Graphs
  /\ left = Candidates(baseline, proposed)
  /\ matches = {}

(* Faulty variant: only the baseline end must be free.                     *)
AssignBefore ==
  \E c \in left :
    /\ \A d \in left \ {c} : Precedes(c, d)
    /\ left' = left \ {c}
    /\ matches' = IF \E d \in matches : c.before = d.before THEN matches ELSE matches \cup {c}
    /\ UNCHANGED <<baseline, proposed>>

(* Faulty variant: a candidate that became a match is looked at again.     *)
AssignAgain ==
  \E c \in left :
    /\ \A d \in left \ {c} : Precedes(c, d)
    /\ left' = IF \E d \in matches : Competes(c, d) THEN left \ {c} ELSE left
    /\ matches' = IF \E d \in matches : Competes(c, d) THEN matches ELSE matches \cup {c}
    /\ UNCHANGED <<baseline, proposed>>

(* The best candidate left is looked at.                                   *)
Assign ==
  \E c \in left :
    /\ \A d \in left \ {c} : Precedes(c, d)
    /\ left' = left \ {c}
    /\ matches' = IF \E d \in matches : Competes(c, d) THEN matches ELSE matches \cup {c}
    /\ UNCHANGED <<baseline, proposed>>

Removed == baseline \ {m.before : m \in matches}
Added == proposed \ {m.after : m \in matches}

-----------------------------------------------------------------------------

(* The matching is one-to-one.                                             *)
OneToOne == \A c, d \in matches : Competes(c, d) => c = d

(* A plausible pairing is only ever given up for one of the same tier or a *)
(* better one that involves the same resource: a construct path is never   *)
(* overruled by a logical ID, nor a logical ID by the heuristic, whichever *)
(* other resources compete (matching.py:15-22).                            *)
GivenUpForBetter ==
  \A c \in Candidates(baseline, proposed) \ left :
    \E m \in matches : Competes(c, m) /\ Score(m.method) >= Score(c.method)
=============================================================================
