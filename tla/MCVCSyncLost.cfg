CONSTANTS
  Ids = {a}
  Reqs = {r, s}
  Names = {n}
  GitMaps = {g}
  Boot = Boot
  Given = Given
  FromGit = FromGit
  Nil = Nil
  MaxGit = 0
  MaxCrashes = 0
SPECIFICATION Spec
SYMMETRY Interchangeable
INVARIANT QuietMeansInSync
