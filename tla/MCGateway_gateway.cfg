SPECIFICATION Spec
CONSTANTS
    Addresses <- Ips
    Ports <- Web
    Operators = {"o1", "o2"}
    Requests <- Commands
    Routes = {"r1", "r2", "r3"}
    Region <- Eu
    Policies <- ThreePolicies
    FirstUsers <- TwoUsers
    FirstNodes <- ThreeNodes
    Ingress <- Box
    Route <- ToLaptop
    Upstream <- Behind
    MaxCommands = 3
    MaxFaults = 1
    MaxEvents = 1
INVARIANTS
    RowsAreTrue
    PolicyIsRead
PROPERTIES MigratedMeansAll
CHECK_DEADLOCK FALSE
