CONSTANTS
  Programs <- SwitchPrograms
  BootProgram <- ProgBoot
  Configs <- SwitchConfigs
  BadNames = {"pX"}
  Packets <- SwitchPackets
  PacketOf <- SwitchPacketOf
  InCap = 2
  OutCap = 1
  DropPort = 511
  LinkerName = "Linker"
  NULL = NULL
  Threads = {t1}
  MaxAdds = 3
  DegreeWidth = 16

SPECIFICATION SwitchSpec

INVARIANTS
  SwitchTypeOK

PROPERTY
  EveryPacketLeaves
  ImplementsChannel

CHECK_DEADLOCK FALSE
