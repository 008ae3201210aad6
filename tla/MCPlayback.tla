----------------------------- MODULE MCPlayback -----------------------------
(* Instances of AlertViews for TLC: files of different days, an analyst    *)
(* who looks at the views, one who only plays and one who also deletes,    *)
(* restarts and hurries.  One day holds two incidents of the engine about  *)
(* one host, of which the later goes over to another host.                 *)
EXTENDS AlertViews, TLC

Days  == {{3, 4, 6, 7}, {5, 8, 9, 10, 13}, {14}}
Kinds == {{}, {"looks"}, {"deletes", "restarts", "hurries"}}

About(id, dst, src, sub, sev) ==
    [incident_id |-> id, dst_ip |-> dst, src_ip |-> src, subtype |-> sub,
     severity |-> sev, threat_class |-> "any"]
Rows ==
    (3 :> About("", "h1", "s1", "flood", "high"))
    @@ (4 :> About("", "", "s1", "scan", "low"))
    @@ (6 :> About("", "h1", "s2", "flood", "low"))
    @@ (7 :> About("", "h1", "s1", "scan", "high"))
    @@ (5 :> About("e1", "h1", "s1", "flood", "high"))
    @@ (8 :> About("e2", "h1", "s2", "scan", "low"))
    @@ (9 :> About("", "", "s2", "scan", "low"))
    @@ (10 :> About("", "h1", "s1", "flood", "high"))
    @@ (13 :> About("e2", "h2", "s2", "scan", "high"))
    @@ (14 :> About("e2", "", "", "scan", "low"))
=============================================================================
