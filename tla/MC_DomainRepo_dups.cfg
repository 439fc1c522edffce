CONSTANTS
    g1 = g1
    g2 = g2
    g3 = g3
    n1 = n1
    n2 = n2
    DomainGUIDs <- MCDomainGUIDs
    DomainNames <- MCDomainNames
    MaxTime = 1
    MaxDomains = 3

SPECIFICATION Spec
PROPERTY
    ListDomainsNoDuplicates
