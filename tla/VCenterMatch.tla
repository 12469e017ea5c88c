---------------------------- MODULE VCenterMatch ----------------------------
(***************************************************************************)
(* How a ConfigMap finds its vCenter record, ApplyConfigVCenter of         *)
(* internal/store/store.go; shared by Store and VCSync.                    *)
(***************************************************************************)
CONSTANTS
  Ids,
  Nil   \* no vCenter, id, password, ConfigMap or dry-run setting

\* vcs is a function on Ids, Nil where there is no record.
Known(vcs) == {i \in Ids : vcs[i] # Nil}

\* The records a ConfigMap may match: by id, then by ConfigMap, then by name if
\* no other ConfigMap backs the record.  Go's map order picks one of several.
Matches(vcs, id, cm, name) ==
  LET byCM   == {i \in Known(vcs) : vcs[i].cm = cm}
      byName == {i \in Known(vcs) : vcs[i].name = name /\ vcs[i].cm \in {Nil, cm}}
  IN  IF id \in Known(vcs) THEN {id} ELSE IF byCM # {} THEN byCM ELSE byName

\* The record it becomes: the one that matched, else one under its own id, else
\* one under a new id, one of fresh.
Targets(vcs, id, cm, name, fresh) ==
  LET found == Matches(vcs, id, cm, name)
  IN  IF found # {} THEN found ELSE IF id # Nil THEN {id} ELSE fresh

\* Mutant: the optional setting is taken as it is.
DryAfter_Unset(setting, old) == setting

\* A ConfigMap that says nothing of dry-run leaves it as it is.
DryAfter(setting, old) == IF setting = Nil THEN old ELSE setting
=============================================================================
