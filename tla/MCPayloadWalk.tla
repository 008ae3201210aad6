--------------------------- MODULE MCPayloadWalk ---------------------------
(* Instances of PayloadWalk for TLC: hellos of clients that draw different *)
(* placeholders and order their extensions differently, names with odd     *)
(* labels, and packets that only look like QUIC.                           *)
EXTENDS PayloadWalk

Ext(type, body) == [type |-> type, body |-> body]
Sni(name) == Ext(0, Sized2(<<0>> \o Sized2(name)))
Alpn(names) == Ext(16, Sized2(Each(Sized1, names)))
Groups(gs) == Ext(10, Sized2(Each(Two, gs)))
Formats(fs) == Ext(11, Sized1(fs))

Grease == {2570, 64250}

Clients ==
    {[kind |-> "client", tcp |-> TRUE, port53 |-> FALSE, version |-> v, session |-> s,
      ciphers |-> <<g, 4865, 49195>>,
      extensions |-> IF first THEN <<Sni(n), Groups(<<g, 29>>), Ext(g, <<>>), Formats(<<0>>), Alpn(<<<<104, 50>>, <<104>>>>)>>
                     ELSE <<Ext(g, <<>>), Alpn(<<<<104, 50>>, <<104>>>>), Formats(<<0>>), Groups(<<g, 29>>), Sni(n)>>,
      sni |-> n, alpn |-> <<<<104, 50>>, <<104>>>>,
      client |-> [ciphers |-> <<4865, 49195>>, curves |-> <<29>>, formats |-> <<0>>,
                  types |-> IF first THEN <<0, 10, 11, 16>> ELSE <<16, 11, 10, 0>>]] :
        v \in {769, 771}, s \in {<<>>, <<7, 7>>}, g \in Grease, first \in BOOLEAN,
        n \in {<<97, 46, 98>>, <<120, 233, 121, 122>>}}

Bare ==
    {[kind |-> "client", tcp |-> TRUE, port53 |-> FALSE, version |-> 771, session |-> <<1>>,
      ciphers |-> <<4865>>, extensions |-> es, sni |-> <<>>, alpn |-> <<>>,
      client |-> [ciphers |-> <<4865>>, types |-> Types(es), curves |-> <<>>, formats |-> <<>>]] :
        es \in {<<>>, <<Ext(43, <<2, 3, 4>>)>>}}

Servers ==
    {[kind |-> "server", tcp |-> TRUE, port53 |-> FALSE, version |-> 771, session |-> s,
      ciphers |-> <<4865>>, extensions |-> <<Ext(43, <<3, 4>>), Ext(2570, <<>>)>>, sni |-> <<>>,
      client |-> [types |-> <<43>>]] : s \in {<<>>, <<7, 7, 7>>}}

Queries ==
    {[kind |-> "dns", tcp |-> FALSE, port53 |-> TRUE, labels |-> l, qtype |-> q] :
        l \in {<<<<97>>>>, <<<<97, 98, 99>>, <<100>>, <<101, 102>>>>, <<<<200, 97>>, <<201>>, <<98>>>>},
        q \in {1, 16}}

Quics ==
    {[kind |-> "quic", tcp |-> FALSE, port53 |-> p, bytes |-> <<b>> \o v \o <<9, 9>>,
      initial |-> b = 195 /\ v # <<255, 0, 0, 35>>] :
        p \in BOOLEAN, b \in {195, 211, 67}, v \in {<<0, 0, 0, 1>>, <<255, 0, 0, 34>>, <<255, 0, 0, 35>>}}

AllMessages == Clients \cup Bare \cup Servers \cup Queries \cup Quics
=============================================================================
