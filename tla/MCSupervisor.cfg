SPECIFICATION FairSpec
CONSTANTS
  Http = {h}
  Tls = {t}
  Checkers = {k}
  Deployments = {{h, k}, {t, "cert", "acme"}}
  MaxVersion = 2
INVARIANT
  EntrypointDrains
PROPERTIES
  ErrorsReachExitCode
  ReplacedGenerationEnds
  ConfigIsApplied
  ErrorEndsService
