----------------------------- MODULE MCRuleMatch -----------------------------
(* Rule sets and enriched packets for TLC: every predicate form of the     *)
(* rule grammar, valid and not, and packets with and without geo data.     *)
EXTENDS RuleMatch, TLC

CONSTANTS c1, c2

T(w) == [w |-> w, up |-> FALSE]
IPEntry(kind, not, w) == [kind |-> kind, not |-> not, t |-> T(w)]
PortStr(sep, parts) == [prov |-> "string", sep |-> sep, parts |-> parts, val |-> 0]
PortNum(prov, val) == [prov |-> prov, sep |-> "", parts |-> <<>>, val |-> val]
Rule(name, ip, port, mac, eth, proto) ==
  [name |-> name, ip |-> ip, port |-> port, mac |-> mac, eth |-> eth, proto |-> proto]
Pkt(src, dst, sport, dport, smac, dmac, eth, proto, code, city) ==
  [src |-> src, dst |-> dst, sport |-> sport, dport |-> dport, smac |-> smac,
   dmac |-> dmac, eth |-> eth, proto |-> proto, code |-> code, city |-> city]

MCCaseless == {"10.0.0.5", "1.2.3.4", "8.8.8.8", "10.0.0.0/8", "CN", "-", "LAN"}
MCAddrs == {"10.0.0.5", "1.2.3.4", "8.8.8.8", "fe80::1"}
MCNetOf == ("10.0.0.0/8" :> {"10.0.0.5"}) @@ ("fe80::/10" :> {"fe80::1"})
MCMacs == {"aabbccddee01", "aabbccddee02"}
MCEthTable == ("ipv4" :> 2048) @@ ("arp" :> 2054) @@ ("ipv6" :> 34525)
MCProtoTable == ("tcp" :> 6) @@ ("udp" :> 17)

MCPackets ==
  { \* a LAN source: GeoIP stamps "-" and the LAN name
    Pkt(T("10.0.0.5"), T("8.8.8.8"), 1, 53, "aabbccddee01", "aabbccddee02",
        2048, 17, T("-"), T("LAN")),
    \* a source GeoIP places in Beijing
    Pkt(T("1.2.3.4"), T("10.0.0.5"), 80, 65535, "aabbccddee02", "aabbccddee01",
        2048, 6, T("CN"), T("Beijing")),
    \* ARP: no IP, so no enrichment and no ports
    Pkt(Empty, Empty, 0, 0, "aabbccddee01", "ffffffffffff", 2054, 0, Empty, Empty),
    \* IPv6, formatted in lower case by net.IP.String
    Pkt(T("fe80::1"), T("fe80::1"), 443, 2, "aabbccddee01", "aabbccddee02",
        34525, 6, T("-"), T("-")),
    \* no GeoIP database configured
    Pkt(T("8.8.8.8"), T("10.0.0.5"), 53, 2, "aabbccddee02", "aabbccddee01",
        2048, 17, Empty, Empty) }

rDns == Rule("dns", <<>>, <<PortStr("", <<53>>)>>, <<>>, <<>>, <<"tcp">>)
rNotCN == Rule("notcn", <<IPEntry("geo", TRUE, "CN")>>, <<>>, <<>>, <<>>, <<>>)
rCity == Rule("beijing", <<IPEntry("city", FALSE, "Beijing")>>, <<>>, <<>>, <<>>, <<>>)
rNet == Rule("lan", <<IPEntry("cidr", FALSE, "10.0.0.0/8"), IPEntry("junk", FALSE, "x")>>,
             <<>>, <<"zz">>, <<>>, <<>>)
rRange == Rule("low", <<>>, <<PortStr("-", <<1, 80>>), PortStr(",", <<443, BadTok, 0>>)>>,
               <<>>, <<>>, <<>>)
rHigh == Rule("high", <<>>, <<PortStr("-", <<65535, 65536>>)>>, <<>>, <<>>, <<>>)
rV6 == Rule("v6", <<IPEntry("ip", FALSE, "fe80::1")>>, <<>>, <<>>, <<>>, <<>>)
rEth == Rule("arp", <<>>, <<>>, <<"aabbccddee02">>, <<"arp", "bogus">>, <<>>)
rNum == Rule("num", <<>>, <<PortNum("uint32", 53), PortNum("int", 80), PortNum("uint16", 1)>>,
             <<>>, <<>>, <<>>)
rNone == Rule("none", <<IPEntry("cidr", FALSE, "300.0.0.0/8")>>, <<PortStr("", <<0>>)>>,
              <<>>, <<>>, <<"bogus">>)

MCInitRules == <<rDns, rNet>>
MCPayloads == {<<>>, <<rNotCN, rRange, rHigh, rEth>>, <<rCity, rV6, rNone, rNum, rDns>>}

(* The config file of the deployed daemon: one CITY rule.                  *)
MCCityRules == <<rCity>>
=============================================================================
