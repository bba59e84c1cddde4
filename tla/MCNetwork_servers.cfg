CONSTANTS
    Addr = {a1, a2, a3}
    Nick = {n1, n2, n3}
    Chan = {c1}
    Serv = {me, hub, l1, l2, l3}
    Me = me
    Hub = hub
    NoServ = noserv
    NoNick = nonick
    MaxGhost = 0
SYMMETRY MCSymmetry
SPECIFICATION Spec
INVARIANTS NetInv CountExact
PROPERTIES LastOneOut ImplementsTree
