------------------------------ MODULE StoreState ------------------------------
(***************************************************************************)
(* What the store of internal/store/store.go holds, in memory and on disk. *)
(***************************************************************************)
EXTENDS VCenterMatch, Naturals, FiniteSets

CONSTANTS
  Names, ConfigMaps, Passwords, UUIDs,
  Missing,     \* there is no such file
  Torn,        \* the file holds a part of a snapshot
  MaxChanges   \* operations the model allows

ASSUME StoreAssumption ==
  /\ Nil \notin Ids \cup Names \cup ConfigMaps \cup Passwords \cup UUIDs \cup BOOLEAN
  /\ MaxChanges \in Nat

VCenter == [name : Names, pw : Passwords \cup {Nil}, src : {"none", "manual", "secret"},
            dry : BOOLEAN, cm : ConfigMaps \cup {Nil}, origin : {"none", "runtime", "gitops"}]

\* A store: vCenters and mappings as total functions, Nil where there is none.
Stores == [vcs : [Ids -> VCenter \cup {Nil}], maps : [UUIDs -> Ids \cup {Nil}],
           dry : BOOLEAN]

\* What stands for nothing, or for no whole file, is neither a vCenter nor a store.
ASSUME FileAssumption ==
  /\ Nil \notin VCenter
  /\ Missing \notin Stores /\ Torn \notin Stores /\ Missing # Torn

Empty == [vcs |-> [i \in Ids |-> Nil], maps |-> [u \in UUIDs |-> Nil], dry |-> FALSE]

Has(s, i) == i \in Known(s.vcs)
=============================================================================
