SPECIFICATION FairSpec
CONSTANTS
    q1 = q1  c1 = c1  c2 = c2
    Request = {q1}
    Command = {c1, c2}
    Offered <- OneOperation
    Orders <- TwoProcesses
    Token = {t1, t2, t3}
    Initial = t1
    Managed = {"node.deploy_release"}
    Operated = {"node.rollback_release"}
    Domain = {d1}
    Initially = {"none", "proxy"}
    Grants <- NarrowAndExpiring
    Faults = {"database"}
    MaxFaults = 1
    MaxTime = 1
    None = None
CHECK_DEADLOCK FALSE
INVARIANTS EveryOperationAudited
