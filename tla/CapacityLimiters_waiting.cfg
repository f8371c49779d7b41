SPECIFICATION FairSpec
CONSTANTS
    t1 = t1
    t2 = t2
    t3 = t3
    global = global
    lane = lane
    Limiters = {global, lane}
    Capacity <- Capacities
    Tasks = {t1, t2, t3}
    Units = {1, 2, 4}
INVARIANTS TypeOK Accounting CapacityRespected NoLostWakeup
PROPERTIES GateSpec WaitsEnd
