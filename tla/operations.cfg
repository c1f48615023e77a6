SPECIFICATION Spec
CONSTANTS
    w1 = w1
    w2 = w2
    Windows <- MCWindows
    Configurations <- MCConfigurations
    Certificates = {"site"}
    Uploads <- MCUploads
    Variables = {"$host"}
    None = None
    MaxRequests = 3
    MaxTokens = 2
    MaxKeys = 1
    MaxForeign = 2
SYMMETRY MCSymmetry
INVARIANTS TypeOK PostsHonoured ChangesAuthorised AnswersTrue ReportTrue RoutingSound
CHECK_DEADLOCK FALSE
