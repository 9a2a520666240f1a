CONSTANTS
  Conns = {c1, c2}
  Tunnels = {t1, t2}
  PortOf <- MCPortOf
  None = None
  MaxWaiting = 1
  MaxRelays = 1
SPECIFICATION FairSpec
PROPERTY ImplementsForwardingTable
INVARIANT OneTunnel
INVARIANT PortsOwned
INVARIANT RunningIsActive
PROPERTY StoppedTunnelOpensNothing
PROPERTY RequestsFinish
CHECK_DEADLOCK FALSE
