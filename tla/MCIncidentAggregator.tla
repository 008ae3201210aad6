------------------------ MODULE MCIncidentAggregator ------------------------
(* An instance of IncidentAggregator for TLC: a victim, an attacker, and   *)
(* alerts that can escalate, share an address, or differ in chain stage;   *)
(* or a flood from more sources than an incident keeps partners, one of    *)
(* them 0.0.0.0, with an unrelated alert of that source.                   *)
EXTENDS IncidentAggregator

CONSTANTS victim, attacker, relay, f1, f2, f3, f4, f5, f6, f7, f8

Raise(class, subtype, src, dst, flow, severity, confidence, rate) ==
    [class |-> class, subtype |-> subtype, src |-> src, dst |-> dst,
     flow |-> flow, port |-> 0, severity |-> severity,
     confidence |-> confidence, rate |-> rate]

FloodStart == Raise("volumetric_ddos", "syn_flood", NoHost, victim, f1, 1, 1, 1)
FloodPeak  == Raise("volumetric_ddos", "syn_flood", NoHost, victim, f1, 2, 2, 2)
PortScan   == Raise("recon_scanning", "vertical_port_scan", attacker, victim, f2, 1, 1, NoRate)
MixedTtl   == Raise("ip_spoofing", "ttl_inconsistency", attacker, NoHost, f3, 2, 1, NoRate)
OldTls     == Raise("encrypted_anomaly", "legacy_tls_version", victim, attacker, f4, 1, 1, NoRate)

RateFrom(src, flow) == Raise("volumetric_ddos", "high_rate_flow", src, victim, flow, 1, 1, 1)
OddTtl == Raise("ip_spoofing", "ttl_anomaly", AnyHost, relay, f8, 1, 1, NoRate)

FloodAndScan == {FloodStart, FloodPeak, PortScan}
SharedHosts  == {PortScan, MixedTtl, OldTls}
ManySources  == {RateFrom(attacker, f5), RateFrom(relay, f6), RateFrom(AnyHost, f7), OddTtl}
AnyThreat    == {FloodAndScan, SharedHosts, ManySources}
=============================================================================
