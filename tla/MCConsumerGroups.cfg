CONSTANTS
    g1 = g1
    w1 = w1
    w2 = w2
    w3 = w3
    orders = orders
    Topics <- OneTopic
    Partitions = {0, 1}
    Groups = {g1}
    Members = {1, 2}
    Workers = {w1, w2, w3}
    MaxRecords = 1
    MaxRestarts = 1
SPECIFICATION Spec
SYMMETRY ThreeWorkers
INVARIANTS
    TypeOK
    AtMostOneOwner
    
