---------------------------- MODULE MCEngineTick ----------------------------
(* Instances of EngineTick for TLC: a small configuration, and networks in *)
(* which its thresholds are met, one kind of traffic in each.              *)
EXTENDS EngineTick

Config ==
    [min_confidence |-> 50,
     min_unique_sources |-> 2, dst_packet_rate |-> 20, flow_packet_rate |-> 20,
     flow_min_duration_ms |-> 5, flow_min_packets |-> 10,
     syn_flood_min_flows |-> 2, syn_flood_min_syn_ratio |-> 2, syn_only_fraction |-> 70,
     udp_flood_min_flows |-> 2, udp_flood_packet_rate |-> 20, udp_flood_max_avg_packets |-> 3,
     icmp_flood_min_flows |-> 2, icmp_flood_packet_rate |-> 10,
     ttl_variance_min_values |-> 3, ttl_min_families |-> 3,
     spoofed_syn_min_flows |-> 2, spoofed_syn_min_sources |-> 2,
     spoofed_syn_only_fraction |-> 80, martian_storm_sources |-> 2,
     min_ports_per_dst |-> 2, min_dsts_per_port |-> 2, max_avg_packets |-> 5,
     min_syn_only_fraction |-> 70, max_scan_dst_port |-> 100,
     min_outbound_bytes |-> 50, min_ratio |-> 10, min_duration_ms |-> 5,
     tunnel_min_subdomains |-> 2, tls_ports |-> {90}, quic_ports |-> {90}]

Kinds ==
    [a |-> "public", b |-> "public", w |-> "public", h |-> "private", v |-> "private",
     m |-> "bogon", n |-> "bogon", g |-> "multicast", lo |-> "loopback", zero |-> "dhcp"]

Flow(proto, src, sport, dst, dport, packets, pps) ==
    [proto |-> proto, src |-> src, sport |-> sport, dst |-> dst, dport |-> dport,
     packets |-> packets, pps |-> pps, ms |-> 10, syn |-> 0, ack |-> 0, ttl |-> 60,
     total |-> 10, query |-> NoQuery, hello |-> "none", traits |-> {}, ml |-> 0,
     new |-> FALSE, at |-> 0]

Syn(src, sport, dst, dport) == [Flow("tcp", src, sport, dst, dport, 1, 1) EXCEPT !.syn = 1]
Session(src, sport, dst, dport, n) ==
    [Flow("tcp", src, sport, dst, dport, n, n) EXCEPT !.syn = 1, !.ack = n]
Ask(sport, name, parent, shape) ==
    [Flow("udp", "h", sport, "w", 53, 1, 1)
        EXCEPT !.query = [name |-> name, parent |-> parent, shape |-> shape]]

SynFloodNet ==
    {Syn("a", 200, "w", 80), Syn("m", 201, "w", 80), Syn("n", 202, "w", 80),
     Session("b", 203, "w", 80, 9), Flow("icmp", "lo", 0, "w", 0, 1, 1)}
UdpFloodNet ==
    {Flow("udp", "a", 200, "g", 99, 1, 1), Flow("udp", "b", 201, "g", 99, 1, 1),
     Flow("udp", "m", 202, "g", 99, 1, 1), Flow("udp", "zero", 68, "v", 67, 1, 1),
     [Flow("udp", "a", 203, "g", 98, 40, 40) EXCEPT !.ml = 50]}
FanInNet ==
    {Session("a", 200, "w", 80, 15), Flow("icmp", "b", 0, "w", 0, 1, 1), Syn("b", 201, "w", 80),
     Syn("n", 202, "w", 80), Flow("icmp", "m", 0, "w", 0, 2, 25)}
ScanNet ==
    {Syn("a", 200, "h", 22), Syn("a", 201, "h", 23), Syn("a", 202, "v", 22),
     Flow("udp", "a", 203, "h", 25, 1, 1), Session("a", 204, "h", 90, 4)}
LeakNet ==
    {[Session("h", 200, "w", 90, 30) EXCEPT !.total = 500, !.hello = "tls",
        !.traits = {"legacy_tls_version"}],
     [Session("w", 90, "h", 200, 8) EXCEPT !.total = 20],
     [Flow("udp", "h", 300, "b", 85, 2, 2) EXCEPT !.hello = "quic"],
     [Syn("h", 210, "h", 210) EXCEPT !.ttl = 0],
     [Flow("tcp", "h", 301, "b", 85, 12, 40) EXCEPT !.hello = "tls",
        !.traits = {"tls_without_sni", "known_bad_ja3"}, !.total = 90]}
NamesNet ==
    {Ask(300, "a.x", "x", {}), [Ask(301, "b.x", "x", {"random"}) EXCEPT !.dst = "b"],
     Ask(302, "c.x", "x", {"stuffed"}),
     Ask(303, "a.y", "y", {"long"}), Ask(304, "b.y", "y", {})}
TtlNet ==
    {[Syn("a", 200 + t, "v", 80) EXCEPT !.ttl = t] : t \in {0, 28, 60, 120, 250}}

Networks == {SynFloodNet, UdpFloodNet, FanInNet, ScanNet, LeakNet, NamesNet, TtlNet}
=============================================================================
