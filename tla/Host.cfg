CONSTANTS
    Cleaners = {cleaner}
    Main = main
    Installer = installer
    SetupRetries = 2
    StrictRPF = FALSE
    ForeignRoutes <- Default
    MaxFaults = 2
    Probers = {p1, p2}
    RangeStart = 1
    RangeEnd = 2
    MaxOthers = 1
    NoDevice = 99
    Jobs = {j1, j2}
    MaxVersion = 2
    MaxUpload = 2
    Irregular <- Newest2
    Broken <- WrongBuild
    Nothing = nothing
SPECIFICATION Spec
INVARIANTS HostTypeOK CleanupComplete SetupWhole ProbesApart InstallAlone JobsSettled
PROPERTIES SeenForeignKept RunningTunnelSpared VerifiedOnly HandoffCompletes
