CONSTANTS
  Ids = {a, b}
  Reqs = {r, s}
  Names = {n}
  GitMaps = {g}
  Boot = Boot
  Given = Given
  FromGit = FromGit
  Nil = Nil
  MaxGit = 2
  MaxCrashes = 1
SPECIFICATION Spec
SYMMETRY Interchangeable
INVARIANTS TypeOK OneVCenterPerConfigMap
PROPERTIES NeverWritesGitOps DryRunStaysOn StartReconciles
