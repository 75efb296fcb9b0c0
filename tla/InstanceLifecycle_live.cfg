SPECIFICATION FairSpec
CONSTANTS
    Requests = {r1}
    Methods = {"destroy"}
    RetryLimit <- FirstTries
    Events = 2
    MaxKeys = 3
    Nobody = Nobody
    r1 = r1
PROPERTIES DeletionHappens ProvisioningAttended
CHECK_DEADLOCK FALSE
