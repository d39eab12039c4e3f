CONSTANTS
    n1 = n1
    n2 = n2
    Calls <- MCCalls
    Programs <- MCPrograms
    Replicas <- MCReplicas
    Retries = 1
    RetryOnlyIdempotent = TRUE
    MaxFaults = 2
SPECIFICATION FairSpec
INVARIANTS
    TypeOK
    ExecutedOnce
    
    ReplicasAgree
    
 
CHECK_DEADLOCK FALSE
