---------------------------- MODULE MCEntityStore ----------------------------
(* Instances of EntityStore for TLC: three addresses for two dossiers, so  *)
(* that one tick can bring more addresses than the store holds.            *)
EXTENDS EntityStore

CONSTANTS x, y, z

Seen(src, dst, port, name) == [src |-> src, dst |-> dst, port |-> port, name |-> name]

Raised(src, dst, class, severity, age) ==
    [src |-> src, dst |-> dst, class |-> class, severity |-> severity, age |-> age]

Conversations ==
    {Seen(x, y, 80, NoName), Seen(z, y, 53, "name"), Seen(z, x, 80, NoName)}

Findings ==
    {Raised(x, y, "recon_scanning", 1, 1), Raised(y, NoHost, "ip_spoofing", 2, 0),
     Raised(z, y, "recon_scanning", 1, 0)}
=============================================================================
