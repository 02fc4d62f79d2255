SPECIFICATION FairSpec
CONSTANTS
    c1 = c1
    c2 = c2
    None = None
    Calls <- MCCalls
    Unset = Unset
    Unparsable = Unparsable
    Legal <- MCLegal
    AdminName <- MCAdminName
    Names <- MCNames
    Files <- MCFiles
    Requests <- MCRequests
    MaxCalls = 3
PROPERTY
    ReloadPicksUpProxies
