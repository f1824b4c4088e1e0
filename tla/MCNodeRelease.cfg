SPECIFICATION Spec
CONSTANTS
    r1 = r1  r2 = r2  r3 = r3
    Request = {q1}
    Release = {r1, r2, r3}
    Broken = {r3}
    Port = {p1, p2}
    Faults = {"crash", "write", "database", "nginx", "command", "deadline"}
    MaxFaults = 1
    None = None
SYMMETRY Interchangeable
INVARIANTS TypeOK UnitFollowsConfig PortsAgree PreviousCanReturn
PROPERTIES AllOrNothing
