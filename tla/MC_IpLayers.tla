------------------------------ MODULE MC_IpLayers ------------------------------
(***************************************************************************)
(* Datagrams of one neighbour: pings whose sums need one and two carries,  *)
(* with an odd length, that fill the scratch region, overrun it, overrun   *)
(* csum_buf, and reach the payload of UDP; UDP requests, one of them to    *)
(* another port; membership queries; and headers that do not verify or are *)
(* addressed to somebody else.                                             *)
(***************************************************************************)
EXTENDS IpLayers

Neighbour == HelloIp
Other     == <<Join(192, 168), Join(100, 77)>>
AllHosts  == <<Join(224, 0), 1>>

\* A header sealed by the sender, by the definition of the checksum.
Sealed(total, id, proto, dest) ==
    LET h == << <<Join(69, 0), total>>, <<id, 0>>, <<Join(64, proto), 0>>, Neighbour, dest >>
    IN  [h EXCEPT ![3][2] = R - 2 - ((Sum(Flat(h)) - 1) % (R - 1))]

Damaged(f) == [f EXCEPT ![2][1] = @ + 1]

Ping(bytes, id, data) ==
    Sealed(28 + bytes, 7, 1, BoardIp) \o << <<Join(8, 0), 18132>>, <<id, R - 1>> >> \o data
Query(type, version, group, dest) ==
    Sealed(28, 9, 2, dest) \o << <<Join(type, version), 1>>, group >>
Udp(bytes, from, port, dest, data) ==
    Sealed(28 + bytes, 11, 17, dest) \o << <<from, port>>, <<8 + bytes, 0>> >> \o data

Text(n) == [i \in 1 .. n |-> <<256 * i, i>>]

MCDatagrams ==
    {Ping(0, R - 1, <<>>), Ping(3, 5, << <<R - 1, 1>> >>), Ping(4, R - 1, << <<1, 0>> >>),
     Ping(8, 6, Text(2)), Ping(12, 6, Text(3)),
     Ping(48, 6, Text(12)),
     Query(17, 0, <<0, 0>>, BroadcastIp), Query(17, 5, Group, BoardIp),
     Query(17, 5, <<0, 0>>, AllHosts),
     Udp(6, 3000, UdpPort, BoardIp, Text(3)), Udp(1, 3001, UdpPort, BoardIp, << <<Join(9, 9), 9>> >>),
     Udp(4, 67, 68, BoardIp, << <<68, 68>> >>), Udp(4, 3000, UdpPort, Other, << <<5, 5>> >>),
     Damaged(Udp(4, 3000, UdpPort, BoardIp, << <<6, 6>> >>))}
===============================================================================
