SPECIFICATION MCSpec
CONSTANTS
  Stage <- Stages
  Link <- Links
  Thread <- Threads
  App = "main"
  Kind <- Kinds
  Upstream <- Ups
  Downstream <- Downs
  Above <- Aboves
  ThreadOf <- ThreadsOf
  Results <- ProductiveResults
  CopyLinks <- NoLinks
  MaxPackets = 3
  MaxPieces = 1
  MaxFlushes = 2
  None = None
INVARIANTS
  AllWorkDone
  DemuxIsServed
PROPERTIES
  AcceptedInOrder
  PacketsMoveOn
CHECK_DEADLOCK FALSE
