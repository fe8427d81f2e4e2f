SPECIFICATION FairSpec
CONSTANTS
    Triggers <- const_Triggers
    MaxNotifications = 5
INVARIANT TypeOK
INVARIANT NoLostWakeup
INVARIANT ChecksPaidFor
INVARIANT DelayIsForConnects
PROPERTY TriggerServed
PROPERTY RequestsServedOnce
