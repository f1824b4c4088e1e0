SPECIFICATION Spec
CONSTANTS
    r1 = r1  r2 = r2  r3 = r3
    Request = {q1}
    Release = {r1, r2}
    Broken = {}
    Port = {p1}
    Faults = {}
    MaxFaults = 0
    None = None
PROPERTIES DeployedServes
