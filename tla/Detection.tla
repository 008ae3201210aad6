----------------------------- MODULE Detection -----------------------------
(***************************************************************************)
(* What one tick of flows is reported as: the detectors that look at a     *)
(* tick on its own (volumetric, spoofing, scanning, exfiltration, DNS,     *)
(* encrypted) and Detector.score, which joins them.  The beacons, which    *)
(* remember, are BeaconTracker's; the incidents IncidentAggregator's.      *)
(*                                                                         *)
(* A flow is a record; `at' is its place in the tick, which tells the      *)
(* first of a group.  Byte rates, which are compared as packet rates are,  *)
(* and the statistics of a name are left out: a query has a shape.         *)
(* Fractions are percentages and confidences hundredths.                   *)
(***************************************************************************)
EXTENDS Integers, FiniteSets, FiniteSetsExt

CONSTANTS
    Cfg,       \* configs/default.toml
    Kind,      \* addresses: "public", "private", "multicast", "loopback", "dhcp" (0.0.0.0
               \* asking for an address) or "bogon" (reserved, link-local)
    NoQuery    \* a flow without a DNS name

ASSUME CfgAssumption ==
    {Cfg.min_confidence, Cfg.min_unique_sources, Cfg.dst_packet_rate, Cfg.flow_packet_rate,
     Cfg.syn_flood_min_flows, Cfg.syn_flood_min_syn_ratio, Cfg.syn_only_fraction,
     Cfg.udp_flood_min_flows, Cfg.udp_flood_packet_rate, Cfg.udp_flood_max_avg_packets,
     Cfg.icmp_flood_min_flows, Cfg.icmp_flood_packet_rate,
     Cfg.ttl_min_families, Cfg.spoofed_syn_min_sources, Cfg.max_avg_packets,
     Cfg.min_syn_only_fraction, Cfg.min_ports_per_dst, Cfg.min_dsts_per_port,
     Cfg.min_outbound_bytes, Cfg.min_ratio, Cfg.tunnel_min_subdomains} \subseteq Int

Martian(a) == Kind[a] \in {"bogon", "multicast", "loopback", "dhcp"}
Loopback(a) == Kind[a] = "loopback"

SynOnly(f) == f.proto = "tcp" /\ f.syn > 0 /\ f.ack = 0
BenignUdp(f) ==
    {f.sport, f.dport} \cap {53, 67, 68, 123, 137, 138, 1900, 5353, 5355} # {}

Over(g, proto) == {f \in g : f.proto = proto}
Toward(fs, d) == {f \in fs : f.dst = d}
Sources(g) == {f.src : f \in g}
Targets(g) == {f.dst : f \in g}
First(g) == CHOOSE f \in g : \A h \in g : f.at <= h.at

Packets(g) == MapThenSumSet(LAMBDA f : f.packets, g)
Rate(g) == MapThenSumSet(LAMBDA f : f.pps, g)
Acks(g) == MapThenSumSet(LAMBDA f : f.ack, g)
Syns(g) == MapThenSumSet(LAMBDA f : f.syn, g)
MostlySynOnly(g, percent) ==
    100 * Cardinality({f \in g : SynOnly(f)}) >= percent * Cardinality(g)

(* Half at the threshold, 0.95 from `ceiling' tenths of it.  The mistake   *)
(* starts from nothing.                                                    *)
Clip(x, top) == IF x < top THEN x ELSE top
RatioConfidenceFromZero(v, threshold, ceiling) == Clip((95 * v) \div (3 * threshold), 95)
RatioConfidence(v, threshold, ceiling) ==
    IF threshold <= 0 \/ v <= threshold THEN 50
    ELSE 50 + Clip((450 * (v - threshold)) \div (threshold * (ceiling - 10)), 45)

Alert(class, subtype, sev, conf, id, src, dst, dport, g) ==
    [class |-> class, subtype |-> subtype, sev |-> sev, conf |-> conf, id |-> id,
     src |-> src, dst |-> dst, dport |-> dport, at |-> First(g).at]

FlowId(f) == <<"flow", f.proto, f.src, f.sport, f.dst, f.dport>>
AlertOfFlow(f, class, subtype, sev, conf) ==
    Alert(class, subtype, sev, conf, FlowId(f), f.src, f.dst, f.dport, {f})

-----------------------------------------------------------------------------
(* volumetric.py, for the flows toward one destination.                    *)
FloodSubtypes == {"syn_flood", "udp_flood", "icmp_flood", "fan_in_flood"}

(* A destination of the local network; alert_lan_destinations is off.      *)
MuteGeneric(g) == \A f \in g : Kind[f.dst] \in {"private", "multicast", "loopback"}

FloodUdp(g) == {f \in Over(g, "udp") : ~BenignUdp(f)}

IsSynFlood(g) ==
    LET tcp == Over(g, "tcp") IN
    /\ Cardinality(tcp) >= Cfg.syn_flood_min_flows
    /\ Syns(tcp) >= Cfg.syn_flood_min_syn_ratio * Max({1, Acks(tcp)})
    /\ MostlySynOnly(tcp, Cfg.syn_only_fraction)

IsUdpFlood(g) ==
    LET udp == FloodUdp(g) IN
    /\ Cardinality(udp) >= Cfg.udp_flood_min_flows
    /\ Cardinality(Sources(udp)) >= Cfg.min_unique_sources
    /\ \/ Packets(udp) <= Cfg.udp_flood_max_avg_packets * Cardinality(udp)
       \/ ~MuteGeneric(g) /\ Rate(udp) >= Cfg.udp_flood_packet_rate

IsIcmpFlood(g) ==
    LET icmp == Over(g, "icmp") IN
    /\ Cardinality(icmp) >= Cfg.icmp_flood_min_flows
    /\ Rate(icmp) >= Cfg.icmp_flood_packet_rate

IsFanIn(g) ==
    /\ ~MuteGeneric(g)
    /\ Cardinality(Sources(g)) >= Cfg.min_unique_sources
    /\ Rate(g) >= Cfg.dst_packet_rate

Specific(g) ==
    {s \in FloodSubtypes :
        \/ s = "syn_flood" /\ IsSynFlood(g)
        \/ s = "udp_flood" /\ IsUdpFlood(g)
        \/ s = "icmp_flood" /\ IsIcmpFlood(g)}

(* Fan-in only when nothing more specific applies.  The mistake takes      *)
(* enough SYN flows for a SYN flood.                                       *)
FloodsBySyns(g) ==
    IF Specific(g) # {} \/ Cardinality({f \in g : SynOnly(f)}) >= Cfg.syn_flood_min_flows
    THEN Specific(g)
    ELSE {s \in {"fan_in_flood"} : IsFanIn(g)}
Floods(g) ==
    IF Specific(g) # {} THEN Specific(g) ELSE {s \in {"fan_in_flood"} : IsFanIn(g)}

FloodAlert(s, d, g) ==
    LET wide == Cardinality(Sources(g)) >= Cfg.min_unique_sources
        conf == [syn_flood |-> RatioConfidence(Syns(g),
                                Cfg.syn_flood_min_syn_ratio * Max({1, Acks(g)}), 30),
                 udp_flood |-> Max({RatioConfidence(Rate(FloodUdp(g)), Cfg.udp_flood_packet_rate, 30),
                                    RatioConfidence(Cardinality(Sources(FloodUdp(g))),
                                                    Cfg.min_unique_sources, 30)}),
                 icmp_flood |-> RatioConfidence(Rate(Over(g, "icmp")), Cfg.icmp_flood_packet_rate, 30),
                 fan_in_flood |-> RatioConfidence(Rate(g), Cfg.dst_packet_rate, 30)]
    IN  Alert("volumetric_ddos", s, IF s = "syn_flood" /\ ~wide THEN "medium" ELSE "high",
              conf[s], <<"dst", s, d>>, "", d, 0, g)

(* One flow that is long, large and fast.                                  *)
HighRate(f) ==
    f.ms >= Cfg.flow_min_duration_ms /\ f.packets >= Cfg.flow_min_packets
    /\ f.pps >= Cfg.flow_packet_rate

HighRateSubtype(f) ==
    CASE f.proto = "udp"  -> "udp_high_rate_flow"
      [] f.proto = "icmp" -> "icmp_high_rate_flow"
      [] SynOnly(f)       -> "syn_high_rate_flow"
      [] OTHER            -> "high_rate_flow"

Volumetric(fs) ==
    {AlertOfFlow(f, "volumetric_ddos", HighRateSubtype(f), "medium",
                 RatioConfidence(f.pps, Cfg.flow_packet_rate, 30)) : f \in {h \in fs : HighRate(h)}}
    \cup (UNION {{FloodAlert(s, d, Toward(fs, d)) : s \in Floods(Toward(fs, d))} :
                   d \in Targets(fs)})

-----------------------------------------------------------------------------
(* spoofing.py; alert_private_to_public is off.                            *)
PerFlowSpoof(fs) ==
    {AlertOfFlow(f, "ip_spoofing", "land_attack", "high", 90) :
        f \in {h \in fs : h.src = h.dst /\ ~Loopback(h.src)}}
    \cup {AlertOfFlow(f, "ip_spoofing", "ttl_anomaly", "low", 55) :
        f \in {h \in fs : ~Martian(h.src) /\ h.ttl = 0}}

(* The first of the usual initial TTLs that lies at most 40 hops above.    *)
TtlFamilies(ttls) ==
    {i \in {255, 128, 64, 32} : \E t \in ttls :
        /\ i - t \in 0 .. 40
        /\ \A j \in {255, 128, 64, 32} : j > i => j - t \notin 0 .. 40}

TtlInconsistency(fs) ==
    LET sent == {f \in fs : ~Martian(f.src) /\ f.ttl > 0}
        Of(s) == {f \in sent : f.src = s}
        Ttls(s) == {f.ttl : f \in Of(s)}
    IN  {Alert("ip_spoofing", "ttl_inconsistency", "high",
               RatioConfidence(Cardinality(TtlFamilies(Ttls(s))), Cfg.ttl_min_families, 14),
               <<"src", s>>, s, "", 0, Of(s)) :
            s \in {r \in Sources(sent) :
                    /\ Cardinality(Ttls(r)) >= Cfg.ttl_variance_min_values
                    /\ Cardinality(TtlFamilies(Ttls(r))) >= Cfg.ttl_min_families}}

SpoofedSynStorm(fs) ==
    LET tcp == Over(fs, "tcp")
        At(d) == Toward(tcp, d)
    IN  {Alert("ip_spoofing", "spoofed_syn_storm", "high",
               RatioConfidence(Cardinality(Sources(At(d))), Cfg.spoofed_syn_min_sources, 30),
               <<"dst", "tcp", d>>, "", d, 0, At(d)) :
            d \in {e \in Targets(tcp) :
                    /\ Cardinality(At(e)) >= Cfg.spoofed_syn_min_flows
                    /\ Cardinality(Sources(At(e))) >= Cfg.spoofed_syn_min_sources
                    /\ MostlySynOnly(At(e), Cfg.spoofed_syn_only_fraction)
                    /\ Acks(At(e)) = 0}}

(* A few martian sources are reported under the name of the first.         *)
MartianSources(fs) ==
    LET At(d) == {f \in Toward(fs, d) : Kind[f.src] \in {"bogon", "multicast"} /\ ~Loopback(d)}
        Report(d) ==
            IF Cardinality(Sources(At(d))) >= Cfg.martian_storm_sources
            THEN Alert("ip_spoofing", "martian_source_storm", "high", 90,
                       <<"dst", "any", d>>, "", d, 0, At(d))
            ELSE Alert("ip_spoofing", "martian_source", "high", 75,
                       <<"pair", First(At(d)).src, d>>, First(At(d)).src, d, 0, At(d))
    IN  {Report(d) : d \in {e \in Targets(fs) : At(e) # {}}}

Spoofing(fs) ==
    PerFlowSpoof(fs) \cup TtlInconsistency(fs) \cup SpoofedSynStorm(fs) \cup MartianSources(fs)

-----------------------------------------------------------------------------
(* scanning.py.  The mistake takes the protocol of the first flow for that *)
(* of all.                                                                 *)
LooksLikeProbingFirst(g) ==
    /\ Packets(g) <= Cfg.max_avg_packets * Cardinality(g)
    /\ First(g).proto = "tcp" => MostlySynOnly(Over(g, "tcp"), Cfg.min_syn_only_fraction)
LooksLikeProbing(g) ==
    /\ Packets(g) <= Cfg.max_avg_packets * Cardinality(g)
    /\ Over(g, "tcp") # {} => MostlySynOnly(Over(g, "tcp"), Cfg.min_syn_only_fraction)

Probes(fs) == Over(fs, "tcp") \cup Over(fs, "udp")

VerticalScans(fs) ==
    LET Of(p) == {f \in Probes(fs) : f.src = p[1] /\ f.dst = p[2]}
        Ports(p) == {f.dport : f \in Of(p)} \cap 1 .. Cfg.max_scan_dst_port
    IN  {Alert("recon_scanning", "vertical_port_scan", "medium",
               RatioConfidence(Cardinality(Ports(p)), Cfg.min_ports_per_dst, 50),
               <<"pair", First(Of(p)).proto, p[1], p[2]>>, p[1], p[2], 0, Of(p)) :
            p \in {<<f.src, f.dst>> : f \in {h \in Probes(fs) :
                    /\ Cardinality(Ports(<<h.src, h.dst>>)) >= Cfg.min_ports_per_dst
                    /\ LooksLikeProbing(Of(<<h.src, h.dst>>))}}}

HorizontalSweeps(fs) ==
    LET Of(p) == {f \in Probes(fs) : f.src = p[1] /\ f.dport = p[2]}
    IN  {Alert("recon_scanning", "horizontal_sweep", "medium",
               RatioConfidence(Cardinality(Targets(Of(p))), Cfg.min_dsts_per_port, 50),
               <<"port", First(Of(p)).proto, p[1], p[2]>>, p[1], "", p[2], Of(p)) :
            p \in {<<f.src, f.dport>> : f \in {h \in Probes(fs) :
                    /\ h.dport <= Cfg.max_scan_dst_port
                    /\ Cardinality(Targets(Of(<<h.src, h.dport>>))) >= Cfg.min_dsts_per_port
                    /\ LooksLikeProbing(Of(<<h.src, h.dport>>))}}}

-----------------------------------------------------------------------------
(* exfiltration.py: far more out than in, by the totals of the two flows   *)
(* of a conversation, when both are in the tick.                           *)
ReverseOf(f, fs) ==
    {h \in fs : <<h.proto, h.src, h.sport, h.dst, h.dport>>
                = <<f.proto, f.dst, f.dport, f.src, f.sport>>}

Exfiltration(fs) ==
    {AlertOfFlow(f, "data_exfiltration", "asymmetric_outbound_volume", "high",
                 Max({RatioConfidence(f.total, Cfg.min_outbound_bytes, 30)} \cup
                     {RatioConfidence(f.total, Cfg.min_ratio * Max({1, r.total}), 30) :
                        r \in ReverseOf(f, fs)})) :
        f \in {h \in fs :
                /\ Kind[h.src] = "private" /\ Kind[h.dst] = "public"
                /\ h.total >= Cfg.min_outbound_bytes /\ h.ms >= Cfg.min_duration_ms
                /\ \E r \in ReverseOf(h, fs) : h.total >= Cfg.min_ratio * Max({1, r.total})}}

(* dnsabuse.py: single queries by their shape, and parents with many       *)
(* subdomains, reported for the resolver.                                  *)
QueryAlerts(f) ==
    {AlertOfFlow(f, "dns_abuse", "dga_domain", "medium", 75) : s \in f.query.shape \cap {"random"}}
    \cup {AlertOfFlow(f, "dns_abuse", "dns_tunnel", "high", 50) : s \in f.query.shape \cap {"stuffed"}}
    \cup {AlertOfFlow(f, "dns_abuse", "oversized_query", "low", 55) :
            s \in IF "stuffed" \in f.query.shape THEN {} ELSE f.query.shape \cap {"long"}}

Subdomains(parent, fs) ==
    {f.query.name : f \in {h \in fs : h.query # NoQuery /\ h.query.parent = parent}}

(* min(servers); how the names of addresses are ordered is left open.      *)
Least(servers) == CHOOSE d \in servers : TRUE

TunnelVolume(fs) ==
    LET queries == {f \in fs : f.query # NoQuery}
        Of(parent) == {f \in queries : f.query.parent = parent}
        Resolver(p) == Least(Targets(Of(p)))
        parents == {p \in {f.query.parent : f \in queries} :
                        p # "" /\ Cardinality(Subdomains(p, fs)) >= Cfg.tunnel_min_subdomains}
    IN  {Alert("dns_abuse", "dns_tunnel_volume", "high",
               RatioConfidence(Cardinality(Subdomains(p, fs)), Cfg.tunnel_min_subdomains, 40),
               <<"resolver", Resolver(p)>>, "", Resolver(p), 53, Of(p)) : p \in parents}

DnsAbuse(fs) ==
    TunnelVolume(fs) \cup (UNION {QueryAlerts(f) : f \in {h \in fs : h.query # NoQuery}})

(* encrypted.py: what a hello sample shows, for a client not on loopback.  *)
OnServicePort(f, ports) == {f.sport, f.dport} \cap ports # {}

TlsTraits(f) ==
    {t \in f.traits : t = "tls_without_sni" => Kind[f.dst] = "public"}
    \cup (IF OnServicePort(f, Cfg.tls_ports) THEN {} ELSE {"tls_on_nonstandard_port"})

TraitSeverity(t) ==
    CASE t = "known_bad_ja3" -> <<"high", 95>>
      [] t = "legacy_tls_version" -> <<"medium", 70>>
      [] t = "tls_without_sni" -> <<"medium", 60>>
      [] OTHER -> <<"low", 55>>

Encrypted(fs) ==
    {AlertOfFlow(f, "encrypted_anomaly", "quic_on_nonstandard_port", "low", 55) :
        f \in {h \in fs : h.hello = "quic" /\ ~OnServicePort(h, Cfg.quic_ports)}}
    \cup (UNION {{AlertOfFlow(f, "encrypted_anomaly", t, TraitSeverity(t)[1], TraitSeverity(t)[2]) :
                    t \in TlsTraits(f)} :
            f \in {h \in fs : h.hello = "tls" /\ ~Loopback(h.src) /\ ~Loopback(h.dst)}})

-----------------------------------------------------------------------------
(* detector.py                                                             *)
(* Alerts with the source 127.0.0.1 are dropped too; none is raised.       *)
SpoofNoise == {"martian_source", "martian_source_storm", "land_attack"}

DropFloodNoise(spoofing, volumetric) ==
    LET flooded == {a.dst : a \in {v \in volumetric : v.subtype \in FloodSubtypes}}
    IN  {a \in spoofing : ~(a.subtype \in SpoofNoise /\ a.dst \in flooded)}

(* The first of those with one key; two of them come from one detector.    *)
Key(a) == <<a.class, a.subtype, a.id>>
Dedupe(alerts) == {a \in alerts : \A b \in alerts : Key(b) = Key(a) => a.at <= b.at}

(* The flow model only confirms: 0.4 of its opinion of the flow, or of the *)
(* flows toward the victim, closes the gap to certainty.                   *)
ApplyModel(a, fs) ==
    LET own == {f \in fs : FlowId(f) = a.id}
        of  == IF own # {} THEN own ELSE Toward(fs, a.dst)
        p   == Max({0} \cup {f.ml : f \in of})
    IN  [a EXCEPT !.conf = @ + (40 * p * (100 - @)) \div 10000]

Raw(fs) ==
    Volumetric(fs) \cup DropFloodNoise(Spoofing(fs), Volumetric(fs))
    \cup DnsAbuse(fs) \cup Encrypted(fs) \cup VerticalScans(fs) \cup HorizontalSweeps(fs)
    \cup Exfiltration(fs)

Score(fs) ==
    {a \in {ApplyModel(r, fs) : r \in Dedupe(Raw(fs))} : a.conf >= Cfg.min_confidence}
=============================================================================
