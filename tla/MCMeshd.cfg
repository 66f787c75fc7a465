SPECIFICATION MCSpec
CONSTANTS
    Runs = {r1, r2}
    MaxActive = 1
    Names = {}
    NoName = NoName
    MeshCA = MeshCA
    Absent = Absent
    Torn = Torn
    MeshOf <- OneMesh
    GRPCPort = 7443
    PairPort = 7444
    FreePort = 49152
    MaxServeErrors = 2
    MaxLabel = 6
    SuffixLen = 1
    MaxName = 7
    Digits <- MCDigits
    CodeDigits = 3
    MaxText = 5
    NodeIDs = {"n"}
    MeshIDs = {"m", "*"}
    Fingerprints = {"f"}
    MaxPairs = 3
    Flags <- MCFlags
    Addrs <- MCAddrs
    MaxIfaces = 3
PROPERTY SignalEnds
INVARIANTS
    AdvertisedIsServed
    RunsWithWhatIsThere
    SignsWithItsOwnCA
    GeneratedIsValid
    ValidatorsAgree
    PrincipalRoundTrip
    TypedIsPrintable
    HostNameIsStable
    AnnouncementIsRead
    PrintedHostIsDiscovered
    StartedIsReachable
    GivenIfacesAreUsed
