SPECIFICATION Spec
CONSTANTS
  EpochLength = 3
  TotalValidEpochs = 2
  Deployments <- MCDeployments
  StartP2wsh = FALSE
  SignBlockScript = "sign1"
  FedpegScript = "fed1"
  FirstExtension = "pak1"
  OpDepthScripts = {"fed4"}
  PakExtensions = {"pak1", "pak2"}
  Proposals <- MCProposals
  ForeignRoots <- MCForeignRoots
  MaxForeignRoots = 1
  MaxHeight = 7
INVARIANTS
  TypeOK
  ParametersVoted
  ValidScriptsExact
  MempoolMinable
