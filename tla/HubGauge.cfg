\* A client that the broadcast and the reader both count off.
SPECIFICATION HubSpec
CONSTANTS
    Conns = {c1, c2}
    Floor = 3
INVARIANTS
    GaugeCountsClients
