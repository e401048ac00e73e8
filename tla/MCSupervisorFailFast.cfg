SPECIFICATION FairSpec
CONSTANTS
  Http = {h}
  Tls = {t}
  Checkers = {k}
  Deployments = {{h, t, "cert"}}
  MaxVersion = 1
PROPERTY
  FailFast
