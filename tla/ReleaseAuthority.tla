-------------------------- MODULE ReleaseAuthority --------------------------
(***************************************************************************)
(* What the gate promises to whoever reads its audit trail, in terms of    *)
(* the material of a change (what an approval is about): a change is       *)
(* released only when the gate let it through, or when somebody entitled   *)
(* to it had agreed to that very material.  Agreements are never withdrawn *)
(* from the record and never transfer to another material.                 *)
(***************************************************************************)
CONSTANTS Approver,
          Material,          \* records with a verdict and approver groups
          Entitled           \* the groups each approver speaks for

VARIABLES agreed,            \* who agreed to which material
          released           \* the materials whose change was released

avars == <<agreed, released>>

Init == agreed = {} /\ released = {}

Agree(a, m) ==
  /\ agreed' = agreed \cup {<<a, m>>}
  /\ UNCHANGED released

MayRelease(m) ==
  \/ m.result \in {"PASS", "WARN"}
  \/ /\ m.result = "REQUIRE_APPROVAL"
     /\ \E a \in Approver : /\ <<a, m>> \in agreed
                            /\ Entitled[a] \cap m.approvers # {}

Release(m) ==
  /\ MayRelease(m)
  /\ released' = released \cup {m}
  /\ UNCHANGED agreed

Next == \E m \in Material : Release(m) \/ \E a \in Approver : Agree(a, m)

Spec == Init /\ [][Next]_avars
=============================================================================
