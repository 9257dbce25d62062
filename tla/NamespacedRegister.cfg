CONSTANTS
    w = w
    r1 = r1
    r2 = r2
    u1 = u1
    u2 = u2
    v1 = v1
    v2 = v2
    Namespaces = {request, response}
    Names = {n1, n2}
    Values <- MCValues
    NoValue = NoValue
    Clients <- MCClients
    Writers <- MCWriters
    Untyped <- MCUntyped
    NoRegister = NoRegister
SPECIFICATION Spec
INVARIANTS
    IInv
PROPERTIES
    IsNamespaceMap
