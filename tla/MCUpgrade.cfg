SPECIFICATION Spec
CONSTANTS
  Ports = {"p1"}
  PortChannels = {}
  Vlans = {}
  Parent <- MCParent
  InitCfg <- MCInitCfg
  PoolDefaults <- MCPoolDefaults
  PoolMapping <- MCPoolMapping
  HeadroomDefaults <- MCHeadroomDefaults
  HeadroomMapping <- MCHeadroomMapping
  ProfileDefaults <- MCProfileDefaults
  LosslessProfile <- MCLosslessProfile
  MaxStops = 1
  Names = {"swss", "A", "B"}
  Versions = {1, 2}
  Clients = {c1, c2}
  BuiltIn = {"swss"}
  Known = {"swss", "B"}
  Earlier = {"B"}
  DefaultVersion <- MCDefault
  ImageOf <- MCImage
  Depends <- MCDepends
  Breaks <- MCBreaks
  Components <- MCComponents
  BaseOs <- MCBaseOs
  Plugins <- MCPlugins
  MandatoryCli <- MCMandatory
  Asic <- MCAsic
  DebugDump <- MCDump
  Yang <- MCYang
  AutoCli <- MCAutoCli
  DependentOf <- MCDependentOf
  After <- MCAfter
  Before <- MCBefore
  OldPackages <- MCOld
  Forcing = {FALSE, TRUE}
  MaxFaults = 2
  MaxCommands = 2
  os1 = os1
  os2 = os2
  os3 = os3
  OsImages = {os1, os2, os3}
  NoImage = none
  FirstImage = os1
  Loaders = {"grub", "uboot", "bmc", "aboot"}
  Certs = {"k0", "k1", "k2", "k3"}
  FirstDbs <- MCFirstDbs
  Shim = shim
  Signers <- MCSigners
  AuthFiles <- MCAuthFiles
  MaxJobs = 3
  MaxFailures = 1
SYMMETRY Symmetry
INVARIANT InstalledIsComplete
INVARIANT DependenciesHold
INVARIANT RerunConverges
INVARIANT NoLegacyLeft
INVARIANT BootsInstalledImage
INVARIANT BootChainTrusted
CHECK_DEADLOCK FALSE
