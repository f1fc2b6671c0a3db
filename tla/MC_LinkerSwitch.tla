-------------------------- MODULE MC_LinkerSwitch --------------------------
(***************************************************************************)
(* A switch started with ProgA's config (added as "p4.1"), a controller   *)
(* that submits the ARP or the IPv4+IPv6 program or a config that does   *)
(* not parse, and three packets: one of the start-up program, two of pB. *)
(***************************************************************************)
EXTENDS LinkerSwitch, MC_Linker

ProgBoot == [ProgA EXCEPT !.name = "p4.1"]

SwitchPrograms == {ProgBoot, ProgB}
SwitchConfigs  == {ProgB}

SwitchPackets == 1..2
SwitchPacketOf == (1 :> "p4.1") @@ (2 :> "pB")

=============================================================================
