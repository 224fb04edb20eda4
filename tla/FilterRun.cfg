\* Single instructions, branches, scratch memory and port filters on packets
\* of 0 to 6 bytes.
SPECIFICATION Spec
CONSTANTS
  NibbleBits <- MCNibbleBits
  MaxInsns <- MCMaxInsns
  OffMin <- MCOffMin
  OffMax <- MCOffMax
  Programs <- MCPrograms
  Packets <- MCPackets
  MemWords <- MCMemWords
  PacketAt <- MCPacketAt
  FrameAt <- MCFrameAt
  BitAnd <- MCBitAnd
  BitOr <- MCBitOr
  BitXor <- MCBitXor
INVARIANTS
  Simulates
  VerdictRight
  ReadsInPacket
  Verifiable
\* A filter ends.
CHECK_DEADLOCK FALSE
