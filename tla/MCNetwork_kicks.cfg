CONSTANTS
    Addr = {a1, a2, a3}
    Nick = {n1, n2, n3}
    Chan = {c1, c2}
    Serv = {me, hub}
    Me = me
    Hub = hub
    NoServ = noserv
    NoNick = nonick
    MaxGhost = 2
SYMMETRY MCSymmetry
SPECIFICATION Spec
INVARIANTS MembershipAgrees CountCovers
PROPERTIES OursSurviveLoss
