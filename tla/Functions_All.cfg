SPECIFICATION CallSpec
CONSTANTS
    MaxNodes = 6
    MaxMembers = 3
    NoTarget = NoTarget
    Zones = {"no zone", "east"}
    Members <- MCMembers
    Lists <- MCLists
    Policies <- MCPolicies
    Durations <- MCDurations
    NoTLS = NoTLS
    Addresses = {"internal", "external", "a", "b"}
    Names <- MCNames
    Trusts = {"own-CA"}
    NoEndpoint = NoEndpoint
    Endpoints <- MCEndpoints
    ConnConfigs <- MCConfigs
    PlainText = PlainText
    NoName = NoName
    Failures <- MCFailures
INVARIANTS
    ClassifiesAsDocumented
    SelectionAndEligibilityAgree
    ConfigurationIsSound
    PlanIsTheMembers
CHECK_DEADLOCK FALSE
