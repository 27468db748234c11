SPECIFICATION Spec
CONSTANTS
  v1 = v1
  v2 = v2
  v3 = v3
  textA = textA
  textB = textB
  Versions = {v1, v2, v3}
  LauncherOf <- MCLauncherOf
  None = None
  Legacy = Legacy
  Foreign = Foreign
  Unknown = Unknown
INVARIANTS
  TypeOK
  LauncherWorks
  InstallIsComplete
PROPERTIES
  LegacyIsKept
  ImplementsActiveCli
