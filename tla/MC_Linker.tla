----------------------------- MODULE MC_Linker -----------------------------
(***************************************************************************)
(* Programs for checking Linker.  Each is the P4Objects of a small        *)
(* compiled program: header types with their field-width signatures,     *)
(* header instances (header_ids_map, header_to_type_map), parse states   *)
(* and one parser.  Ids are the ones the compiler gives (0, 1, ... in    *)
(* declaration order), so different programs reuse the same small ids    *)
(* for different headers.  A header is named by its id: names and ids   *)
(* are one-to-one within a program.                                       *)
(***************************************************************************)
EXTENDS Linker

\* Header types: their fields' bit widths, no variable-length field.
Fixed(ws) == [fields |-> ws, vlMax |-> 0]
EthSig  == Fixed(<<48, 48, 16>>)
Ipv4Sig == Fixed(<<4, 4, 8, 16, 16, 3, 13, 8, 8, 16, 32, 32>>)
ArpSig  == Fixed(<<16, 16, 8, 8, 16, 48, 32, 48, 32>>)
Ipv6Sig == Fixed(<<4, 8, 20, 16, 8, 8, 128, 128>>)

Ex(h) == [kind |-> "extract", hdr |-> h]
Sel(h, off, bw) == [hdr |-> h, off |-> off, bw |-> bw]
Case(k, n) == [key |-> k, next |-> n]
\* header_ids_map of a program whose headers are named by their ids.
NamedById(ids) == [h \in ids |-> h]
Leaf(h) == [ops |-> <<Ex(h)>>, key |-> <<>>, cases |-> <<>>]

\* ethernet, then IPv4 on ethertype 0x0800.
ProgA ==
  [name |-> "pA",
   types |-> ("ethernet_t" :> EthSig) @@ ("ipv4_t" :> Ipv4Sig),
   headerIds |-> NamedById({0, 1}),
   headerTypes |-> (0 :> "ethernet_t") @@ (1 :> "ipv4_t"),
   states |-> ("start" :> [ops |-> <<Ex(0)>>, key |-> <<Sel(0, 96, 16)>>,
                           cases |-> <<Case(2048, "parse_ipv4")>>])
          @@ ("parse_ipv4" :> Leaf(1)),
   parsers |-> ("parser" :> "start")]

\* ethernet, then ARP on 0x0806; arp has the id IPv4 has in ProgA.
ProgB ==
  [name |-> "pB",
   types |-> ("eth_t" :> EthSig) @@ ("arp_t" :> ArpSig),
   headerIds |-> NamedById({0, 1}),
   headerTypes |-> (0 :> "eth_t") @@ (1 :> "arp_t"),
   states |-> ("start" :> [ops |-> <<Ex(0)>>, key |-> <<Sel(0, 96, 16)>>,
                           cases |-> <<Case(2054, "parse_arp")>>])
          @@ ("parse_arp" :> Leaf(1)),
   parsers |-> ("parser" :> "start")]

\* ethernet, then IPv4 or IPv6.
ProgC ==
  [name |-> "pC",
   types |-> ("ethernet_t" :> EthSig) @@ ("ipv4_t" :> Ipv4Sig)
             @@ ("ipv6_t" :> Ipv6Sig),
   headerIds |-> NamedById({0, 1, 2}),
   headerTypes |-> (0 :> "ethernet_t") @@ (1 :> "ipv4_t") @@ (2 :> "ipv6_t"),
   states |-> ("start" :> [ops |-> <<Ex(0)>>, key |-> <<Sel(0, 96, 16)>>,
                           cases |-> <<Case(2048, "parse_ipv4"),
                                       Case(34525, "parse_ipv6")>>])
          @@ ("parse_ipv4" :> Leaf(1)) @@ ("parse_ipv6" :> Leaf(2)),
   parsers |-> ("parser" :> "start")]

GoodPrograms == {ProgA, ProgB, ProgC}

\* More header types.
VlanSig == Fixed(<<3, 1, 12, 16>>)
MplsSig == Fixed(<<20, 3, 1, 8>>)
TcpSig  == Fixed(<<16, 16, 32, 32, 4, 4, 8, 16, 16, 16>>)

\* ethernet, IPv4, and EtherIP (protocol 97) back to the start state.
ProgLoop ==
  [name |-> "pL",
   types |-> ("ethernet_t" :> EthSig) @@ ("ipv4_t" :> Ipv4Sig),
   headerIds |-> NamedById({0, 1}),
   headerTypes |-> (0 :> "ethernet_t") @@ (1 :> "ipv4_t"),
   states |-> ("start" :> [ops |-> <<Ex(0)>>, key |-> <<Sel(0, 96, 16)>>,
                           cases |-> <<Case(2048, "parse_ipv4")>>])
          @@ ("parse_ipv4" :> [ops |-> <<Ex(1)>>, key |-> <<Sel(1, 72, 8)>>,
                               cases |-> <<Case(97, "start")>>]),
   parsers |-> ("parser" :> "start")]

\* ethernet, VLAN, then an MPLS label stack (a self-loop on bottom-of-stack
\* 0) and IPv4 under the last label.
ProgMpls ==
  [name |-> "pM",
   types |-> ("ethernet_t" :> EthSig) @@ ("vlan_t" :> VlanSig)
             @@ ("mpls_t" :> MplsSig) @@ ("ipv4_t" :> Ipv4Sig),
   headerIds |-> NamedById({0, 1, 2, 3}),
   headerTypes |-> (0 :> "ethernet_t") @@ (1 :> "vlan_t") @@ (2 :> "mpls_t")
       @@ (3 :> "ipv4_t"),
   states |-> ("start" :> [ops |-> <<Ex(0)>>, key |-> <<Sel(0, 96, 16)>>,
                           cases |-> <<Case(33024, "parse_vlan")>>])
          @@ ("parse_vlan" :> [ops |-> <<Ex(1)>>, key |-> <<Sel(1, 16, 16)>>,
                               cases |-> <<Case(34887, "parse_mpls")>>])
          @@ ("parse_mpls" :> [ops |-> <<Ex(2)>>, key |-> <<Sel(2, 23, 1)>>,
                               cases |-> <<Case(0, "parse_mpls"),
                                           Case(1, "parse_ipv4")>>])
          @@ ("parse_ipv4" :> Leaf(3)),
   parsers |-> ("parser" :> "start")]

\* ethernet, then IPv4 directly or after a VLAN tag: the ipv4 header is
\* extracted by two states.
ProgDual ==
  [name |-> "pD",
   types |-> ("ethernet_t" :> EthSig) @@ ("ipv4_t" :> Ipv4Sig)
             @@ ("vlan_t" :> VlanSig),
   headerIds |-> NamedById({0, 1, 2}),
   headerTypes |-> (0 :> "ethernet_t") @@ (1 :> "ipv4_t") @@ (2 :> "vlan_t"),
   states |-> ("start" :> [ops |-> <<Ex(0)>>, key |-> <<Sel(0, 96, 16)>>,
                           cases |-> <<Case(2048, "parse_ipv4"),
                                       Case(33024, "parse_vlan")>>])
          @@ ("parse_ipv4" :> Leaf(1))
          @@ ("parse_vlan" :> [ops |-> <<Ex(2)>>, key |-> <<Sel(2, 16, 16)>>,
                               cases |-> <<Case(2048, "parse_vlan_ipv4")>>])
          @@ ("parse_vlan_ipv4" :> Leaf(1)),
   parsers |-> ("parser" :> "start")]

\* ethernet, IPv4, TCP on protocol 6.
ProgTcp ==
  [name |-> "pT",
   types |-> ("ethernet_t" :> EthSig) @@ ("ipv4_t" :> Ipv4Sig)
             @@ ("tcp_t" :> TcpSig),
   headerIds |-> NamedById({0, 1, 2}),
   headerTypes |-> (0 :> "ethernet_t") @@ (1 :> "ipv4_t") @@ (2 :> "tcp_t"),
   states |-> ("start" :> [ops |-> <<Ex(0)>>, key |-> <<Sel(0, 96, 16)>>,
                           cases |-> <<Case(2048, "parse_ipv4")>>])
          @@ ("parse_ipv4" :> [ops |-> <<Ex(1)>>, key |-> <<Sel(1, 72, 8)>>,
                               cases |-> <<Case(6, "parse_tcp")>>])
          @@ ("parse_tcp" :> Leaf(2)),
   parsers |-> ("parser" :> "start")]

\* ethernet, VLAN, IPv4: reaches its ipv4 state by another key than
\* ProgTcp.  The vlan header's id (3) is one no other program uses, so
\* its new merged id is its own.
ProgVlan ==
  [name |-> "pV",
   types |-> ("ethernet_t" :> EthSig) @@ ("ipv4_t" :> Ipv4Sig)
             @@ ("vlan_t" :> VlanSig),
   headerIds |-> NamedById({0, 1, 3}),
   headerTypes |-> (0 :> "ethernet_t") @@ (1 :> "ipv4_t") @@ (3 :> "vlan_t"),
   states |-> ("start" :> [ops |-> <<Ex(0)>>, key |-> <<Sel(0, 96, 16)>>,
                           cases |-> <<Case(33024, "parse_vlan")>>])
          @@ ("parse_vlan" :> [ops |-> <<Ex(3)>>, key |-> <<Sel(3, 16, 16)>>,
                               cases |-> <<Case(2048, "parse_ipv4")>>])
          @@ ("parse_ipv4" :> Leaf(1)),
   parsers |-> ("parser" :> "start")]

FaultPrograms == {ProgA, ProgLoop, ProgMpls, ProgDual}

\* Program sets of the runs that show one behaviour each.
LoopPrograms     == {ProgLoop}
MplsPrograms     == {ProgMpls}
RollbackPrograms == {ProgA, ProgMpls}
DualPrograms     == {ProgDual}
TcpVlanPrograms  == {ProgTcp, ProgVlan}
TypeSharePrograms == {ProgA, ProgC}

=============================================================================
