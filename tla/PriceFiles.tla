----------------------------- MODULE PriceFiles -----------------------------
(***************************************************************************)
(* The files of the offline catalog (pricing/catalog.py).  A catalog is a   *)
(* partial function from file names to files: a service file is [valid,    *)
(* service, region, prices], prices a sequence of [dimension, attributes,  *)
(* rate]; the manifest is [valid].  A lock records what each file held: a  *)
(* checksum stands for the content it was taken of.                        *)
(***************************************************************************)
EXTENDS Absence, Naturals, FiniteSets

MaxCatalogFiles == 200
Manifest == "manifest.yaml"

Services(catalog) == DOMAIN catalog \ {Manifest}

(* Where the rates of a catalog are declared.                              *)
Entries(catalog) ==
  UNION {{f} \X DOMAIN catalog[f].prices : f \in {s \in Services(catalog) : catalog[s].valid}}

RateAt(catalog, e) == catalog[e[1]].prices[e[2]]

KeyAt(catalog, e) ==
  <<catalog[e[1]].service, catalog[e[1]].region, RateAt(catalog, e).dimension,
    RateAt(catalog, e).attributes>>

Readable(catalog) ==
  /\ Manifest \in DOMAIN catalog
  /\ Cardinality(Services(catalog)) <= MaxCatalogFiles
  /\ \A f \in DOMAIN catalog : catalog[f].valid

(* Faulty variant: a rate declared twice is not looked for.                *)
LoadsAmbiguous(catalog) == Readable(catalog)

(* A catalog that declares a rate twice is refused, wherever it does.      *)
CatalogLoads(catalog) ==
  /\ Readable(catalog)
  /\ \A d, e \in Entries(catalog) : KeyAt(catalog, d) = KeyAt(catalog, e) => d = e

(* What a loaded catalog answers: the rate of exactly that key, or None.   *)
Quote(catalog, key) ==
  LET found == {e \in Entries(catalog) : KeyAt(catalog, e) = key}
  IN  IF found = {} THEN None ELSE RateAt(catalog, CHOOSE e \in found : TRUE).rate

(* Faulty variant: a file that is not in the lock is not looked at.        *)
ProblemsListed(catalog, lock) ==
  {f \in DOMAIN lock : f \notin DOMAIN catalog \/ catalog[f] # lock[f]}

(* The files that are missing, were added or were changed.                 *)
Problems(catalog, lock) ==
  (DOMAIN lock \ DOMAIN catalog) \cup (DOMAIN catalog \ DOMAIN lock)
  \cup {f \in DOMAIN catalog \cap DOMAIN lock : catalog[f] # lock[f]}
=============================================================================
