CONSTANTS
    User = {u1, u2}
    Serv = {me, hub, l1, l2, l3}
    Me = me
    Hub = hub
    NoServ = noserv
SPECIFICATION Spec
INVARIANTS UplinksReadable StaleNeedsGrandchild
PROPERTIES ImplementsTree Returns
