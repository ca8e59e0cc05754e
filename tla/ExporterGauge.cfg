CONSTANTS
    Caller = {t1}
    Call <- Calls
    Bucket <- Buckets
    Client = {k1}
    Rss = {1}
    MaxEvents = 4
SPECIFICATION Spec
PROPERTY ActiveShown
CHECK_DEADLOCK FALSE
