\* Two delivering nodes, one other task, three connections.
SPECIFICATION FairPoolSpec
CONSTANTS
    n1 = n1
    n2 = n2
    c1 = c1
    c2 = c2
    c3 = c3
    t1 = t1
    Nobody = Nobody
    Nodes <- NodeSet
    Tasks <- TaskSet
    Conns <- Enough
    BatchRows = 2
INVARIANTS
    NothingLeaks
    

    
