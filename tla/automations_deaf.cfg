SPECIFICATION Spec
CONSTANTS
 Users={u1,u2}
 Names={n1}
 Fires={1,2}
 Null=Null
 MaxIds=2
 MaxSecrets=2
 MaxFaults=1
INVARIANT TriggerReachesRow
CHECK_DEADLOCK FALSE
