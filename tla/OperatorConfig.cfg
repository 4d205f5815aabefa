SPECIFICATION FairSpec
CONSTANTS
    Absent = Absent
    Length <- LengthMC
    k8sNamespaceRegex <- k8sNamespaceRegexMC
    geoTagRegex <- geoTagRegexMC
    hostNameRegex <- hostNameRegexMC
    ipAddressRegex <- ipAddressRegexMC
    versionNumberRegex <- versionNumberRegexMC
    labelRegex <- labelRegexMC
    MetricPrefix = {"k8gb"}
    Setting <- SettingMC
    Environments <- EnvironmentsMC
    MaxFaults = 2
INVARIANT RunningIsDocumented
INVARIANT PeersAgree
 
CHECK_DEADLOCK FALSE
