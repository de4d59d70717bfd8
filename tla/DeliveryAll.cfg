SPECIFICATION DeliverySpec
CONSTANTS
    Changes = {"q1", "q2"}
    DueCards = {"c1", "c2"}
    Users = {"ann", "bob", "root"}
    SuperAdmins = {"root"}
    Nobody = Nobody
    Attempts = 2
    DeliveryMixes <- MCMixes
INVARIANT DeliveryTypeOK
INVARIANT DuplicatesExplained
INVARIANT AnsweredMeansDelivered
INVARIANT StoredAreHeard
PROPERTY JobsSettle
CHECK_DEADLOCK FALSE
