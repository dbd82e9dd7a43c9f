------------------------------ MODULE MCStack ------------------------------
(* The components of the stack on small instances.  Each is a module of    *)
(* its own with one variable; a behaviour of this module is a behaviour of *)
(* one instance, chosen in the initial state, so that one run explores the *)
(* sum of their state spaces and not the product.  A property is a promise *)
(* that several components make, each in its own terms: the invariant of   *)
(* that component's module, for the behaviours that are about it.          *)
(* The heap is extended rather than instantiated: its invariant HeapTiles  *)
(* is checked here by the name under which MemProofs proves it.            *)
EXTENDS Integers, Sequences, FiniteSets, TLC, Mem

CONSTANT Parts    \* the instances a run explores

VARIABLES part,   \* the instance this behaviour is about
          st      \* its state; the heap has its own, mem

vars == <<part, st, mem>>

(* Constants too long for the WITH clauses. *)

Zones == ("a" :> 1) @@ ("b" :> 2) @@ ("lo" :> 3)

(* The ends of a PPP negotiation: clients and servers of each protocol.    *)
LcpEnd == [user |-> TRUE, refuse |-> {}, require |-> FALSE, md |-> {"md5"},
           mru |-> 1500, map |-> {}, needmap |-> {},
           allow |-> {"mru", "map", "magic", "pcomp", "accomp"}]
LcpServer == [LcpEnd EXCEPT !.require = TRUE]
LcpEnds ==
  {LcpEnd, [LcpEnd EXCEPT !.user = FALSE],
   [LcpEnd EXCEPT !.refuse = {"eap"}, !.md = {"ms", "ms2"}],
   [LcpEnd EXCEPT !.refuse = {"eap", "chap"}],
   [LcpEnd EXCEPT !.refuse = {"chap"}, !.allow = {"map", "pcomp"}],
   [LcpEnd EXCEPT !.mru = 100, !.needmap = {2}]}
LcpServers ==
  {LcpServer, [LcpServer EXCEPT !.md = {"md5", "ms2"}, !.refuse = {"eap"}],
   [LcpServer EXCEPT !.refuse = {"chap"}, !.map = {1}],
   [LcpServer EXCEPT !.refuse = {"eap", "pap"}, !.md = {"md5", "ms"}, !.mru = 1000]}
IpcpEnd == [our |-> 0, his |-> 0, addr |-> TRUE, peerdns |-> FALSE,
            dns |-> [d \in {"dns1", "dns2"} |-> 0], vj |-> TRUE, slots |-> 2,
            noremote |-> FALSE]
IpcpEnds ==
  {IpcpEnd, [IpcpEnd EXCEPT !.our = 1], [IpcpEnd EXCEPT !.peerdns = TRUE],
   [IpcpEnd EXCEPT !.addr = FALSE],
   [IpcpEnd EXCEPT !.our = 5, !.his = 2, !.noremote = TRUE]}
IpcpServers ==
  {[IpcpEnd EXCEPT !.our = 2, !.his = 1],
   [IpcpEnd EXCEPT !.our = 2, !.his = 3, !.dns["dns1"] = 8],
   [IpcpEnd EXCEPT !.our = 2, !.slots = 1], [IpcpEnd EXCEPT !.vj = FALSE]}
Ipv6cpEnds == [our : {0}, his : {0}, allow : BOOLEAN]
              \cup {[our |-> 1, his |-> 0, allow |-> TRUE],
                    [our |-> 0, his |-> 2, allow |-> TRUE]}
CcpEnd == [require |-> TRUE, refuse |-> {}, mschap1 |-> FALSE, stateful |-> FALSE,
           takestateful |-> FALSE]
CcpEnds ==
  {CcpEnd, [CcpEnd EXCEPT !.refuse = {"40"}], [CcpEnd EXCEPT !.refuse = {"128"}],
   [CcpEnd EXCEPT !.mschap1 = TRUE],
   [CcpEnd EXCEPT !.stateful = TRUE, !.takestateful = TRUE]}
NegConfigs ==
  [proto : {"lcp"}, A : LcpEnds, B : LcpServers]
  \cup [proto : {"ipcp"}, A : IpcpEnds, B : IpcpServers]
  \cup [proto : {"ipv6cp"}, A : Ipv6cpEnds, B : Ipv6cpEnds]
  \cup [proto : {"ccp"}, A : CcpEnds, B : CcpEnds]

(* Files of the HTTP server, as the characters its tag parser tells apart. *)
HttpFiles == ("a" :> <<"x", "x">>)
          @@ ("s" :> <<"<", "#", "n", "-", ">", "x">>)
          @@ ("t" :> <<"x", "<", "#", " ", "m", " ", "-", ">", "<">>)
PostFiles == ("a" :> <<"x", "x">>) @@ ("err" :> <<>>)

(* What an MQTT broker sends: answers, and publications of several sizes.  *)
MqttMsg(t, id, len) ==
  [t |-> t, id |-> id, qos |-> 0, hdr |-> 2, var |-> 0, len |-> len]
MqttPub(qos, hdr, var, len) ==
  [t |-> "publish", id |-> 0, qos |-> qos, hdr |-> hdr, var |-> var, len |-> len]
MqttAcks == {MqttMsg("connack", 0, 2), MqttMsg("connack", 1, 2),
             MqttMsg("pingresp", 0, 0), MqttMsg("ack", 1, 2), MqttMsg("ack", 2, 2)}
MqttPubs == {MqttMsg("connack", 0, 2), MqttPub(1, 2, 4, 7), MqttPub(0, 3, 2, 9),
             MqttPub(0, 2, 2, 2)}

(* SNMP: MIBs that overlap and lie beside each other, and request frames.  *)
Scalar(n, a) == [oid |-> n, type |-> "scalar", access |-> a]
Tree(n, s) == [oid |-> n, type |-> "tree", subs |-> s]
Array(n, c) == [oid |-> n, type |-> "array", cols |-> c]
Table(n, c) == [oid |-> n, type |-> "table", cols |-> c]
Column(n, a) == [oid |-> n, access |-> a]
Mib(b, r) == [base |-> b, root |-> r]
RW == {"r", "w"}
RO == {"r"}
ReadMibs ==
  {Mib(<<1, 1>>, Tree(1, <<Scalar(3, RW),
                           Tree(1, <<Table(2, <<Column(3, RO), Column(1, RO)>>),
                                     Scalar(1, {})>>)>>)),
   Mib(<<1, 1, 2>>, Tree(2, <<Array(1, <<Column(2, RW), Column(1, {"r", "c64"})>>)>>)),
   Mib(<<1, 3>>, Scalar(3, RO))}
WriteMibs ==
  {Mib(<<1, 2>>, Tree(2, <<Tree(2, <<Scalar(1, RW)>>), Scalar(1, RW)>>)),
   Mib(<<1, 2, 3, 1>>, Tree(1, <<Scalar(1, {"w"})>>)),
   Mib(<<1, 2, 3>>, Tree(3, <<Scalar(2, RW)>>))}
TableMibs == {Mib(<<1, 1>>, Tree(1, <<Table(1, <<Column(1, RO)>>)>>)),
              Mib(<<1, 1, 1, 2>>, Scalar(2, RW))}
SnmpAgents == [mibs : {ReadMibs, WriteMibs, TableMibs}, write : {"private"}]
              \cup [mibs : {WriteMibs}, write : {"public", ""}]
Vb(o, v) == [oid |-> o, val |-> v]
Oids ==
  {<<1>>, <<1, 1>>, <<1, 2>>, <<1, 9>>, <<1, 1, 1>>, <<1, 1, 1, 2, 1>>,
   <<1, 1, 1, 2, 1, 1, 1>>, <<1, 1, 1, 2, 1, 3, 2, 1>>, <<1, 1, 1, 1, 1, 1>>,
   <<1, 1, 1, 2, 1, 1, 2, 1>>, <<1, 1, 2>>, <<1, 1, 2, 1, 1>>, <<1, 1, 2, 1, 1, 0>>,
   <<1, 1, 2, 1, 2, 0>>, <<1, 1, 3, 0>>, <<1, 2, 1, 0>>, <<1, 2, 2, 1, 0>>,
   <<1, 2, 3, 1, 1, 0>>, <<1, 2, 3, 1>>, <<1, 2, 3, 2, 0>>, <<1, 3, 0>>,
   <<1, 1, 1, 2, 0>>, <<1, 1, 1, 1, 1, 1, 2, 1>>, <<2>>}
Frame == [version |-> 2, community |-> "public", type |-> "next", nonrep |-> 0,
          reps |-> 0, vbs |-> <<>>]
Writable == <<1, 2, 1, 0>>
Security == [engine : BOOLEAN, user : {"none", "noauth", "auth", "priv"},
             flags : {"noauth", "auth", "priv", "bad"}, digest : BOOLEAN,
             intime : BOOLEAN, decrypts : BOOLEAN]
SnmpFrames ==
  {[Frame EXCEPT !.type = t, !.version = v, !.vbs = <<Vb(o, "null")>>] :
     t \in {"get", "next"}, v \in {1, 2}, o \in Oids}
  \cup {[Frame EXCEPT !.type = "bulk", !.nonrep = n, !.reps = r,
                      !.vbs = <<Vb(o, "null"), Vb(<<1, 2>>, "null")>>] :
          n \in 0 .. 3, r \in {0, 1, 3},
          o \in {<<1>>, <<1, 1, 1, 2, 1, 1, 1>>, <<1, 3, 0>>}}
  \cup {[Frame EXCEPT !.type = "set", !.community = c, !.version = v,
                      !.vbs = <<Vb(Writable, x), Vb(o, y)>>] :
          c \in {"private", "public", ""}, v \in {1, 2}, x \in {"new", "bad"},
          y \in {"new", "wrongtype"},
          o \in {Writable, <<1, 2, 2, 1, 0>>, <<1, 2, 3, 1, 1, 0>>, <<1, 1, 1>>,
                 <<1, 1, 2, 1, 1, 0>>}}
  \cup {[Frame EXCEPT !.type = "bulk", !.version = 1],
        [Frame EXCEPT !.community = "other"],
        [Frame EXCEPT !.vbs = <<Vb(<<1, 2>>, "x")>>]}
  \cup [version : {3}, community : {""}, type : {"set"}, nonrep : {0}, reps : {0},
        vbs : {<<Vb(Writable, "new")>>}, sec : Security]
(* Around the edges of the encodings, in a radix of 16.                    *)
SnmpNumbers == {0, 1, 7, 8, 9, 127, 128, 2047, 2048, 32767,
                -1, -8, -9, -128, -129, -2048, -2049, -32768}

(* Multicast DNS: the labels with their lengths, and queries.              *)
LabelLens ==
  [l \in {"h", "g"} |-> 1] @@ [l \in {"a6", "b6"} |-> 63]
  @@ [l \in {"ip6", "web"} |-> 3] @@ [l \in {"local", "_http", "other"} |-> 5]
  @@ [l \in {"a4", "_dns-sd", "in-addr"} |-> 7] @@ ("_services" :> 9)
  @@ [l \in {"_tcp", "_udp", "arpa", "txt"} |-> 4]
Question(d, t, u) == [dom |-> d, type |-> t, unicast |-> u]
Known(d, t, x, f) == [dom |-> d, type |-> t, data |-> x, fresh |-> f]
Query(qs, kn, m, u) == [qs |-> qs, known |-> kn, mdns |-> m, uni |-> u]
HostDom == <<"h", "local">>
TypeDom == <<"_http", "_tcp", "local">>
ServiceDom == <<"web">> \o TypeDom
ReverseDom == <<"b6", "ip6", "arpa">>
MdnsQueries ==
  {Query(<<Question(HostDom, "ANY", FALSE)>>, <<>>, TRUE, FALSE),
   Query(<<Question(HostDom, "A", FALSE)>>, <<>>, FALSE, FALSE),
   Query(<<Question(HostDom, "AAAA", TRUE), Question(ReverseDom, "PTR", FALSE)>>,
         <<Known(HostDom, "AAAA", <<"a6">>, TRUE),
           Known(ReverseDom, "PTR", HostDom, TRUE)>>, TRUE, FALSE),
   Query(<<Question(TypeDom, "PTR", FALSE)>>,
         <<Known(TypeDom, "PTR", <<"other">> \o TypeDom, TRUE)>>, TRUE, TRUE),
   Query(<<Question(TypeDom, "PTR", FALSE),
           Question(<<"_services", "_dns-sd", "_udp", "local">>, "PTR", FALSE)>>,
         <<Known(TypeDom, "PTR", ServiceDom, TRUE)>>, TRUE, FALSE),
   Query(<<Question(ServiceDom, "ANY", FALSE)>>,
         <<Known(ServiceDom, "SRV", HostDom, TRUE),
           Known(ServiceDom, "TXT", <<"txt">>, FALSE)>>, TRUE, FALSE),
   Query(<<Question(ServiceDom, "SRV", FALSE)>>,
         <<Known(ServiceDom, "SRV", HostDom, TRUE)>>, FALSE, FALSE)}

----------------------------------------------------------------------------
(* The instances: the lower layers ... *)

PbufsPart == INSTANCE Pbuf WITH pb <- st,
  Pbufs <- {1, 2, 3}, BufSize <- 2, Headroom <- 1, Lengths <- {1, 3},
  LenMod <- 5, MaxRef <- 2, MaxOps <- 5

TimersPart == INSTANCE Tcpip WITH os <- st,
  TimeMod <- 16, ArpInterval <- 2, TcpInterval <- 1, MaxLate <- 2,
  QueueSize <- 2, NumApi <- 1, NumInpkt <- 1, RingSize <- 1, MaxPcbs <- 1,
  Delays <- {2}, MayRunOut <- FALSE, Ticks <- TRUE, Frames <- FALSE

FramesPart == INSTANCE Tcpip WITH os <- st,
  TimeMod <- 8, ArpInterval <- 2, TcpInterval <- 1, MaxLate <- 2,
  QueueSize <- 2, NumApi <- 2, NumInpkt <- 2, RingSize <- 3, MaxPcbs <- 1,
  Delays <- {2}, MayRunOut <- FALSE, Ticks <- FALSE, Frames <- TRUE

NetifsPart == INSTANCE Netif WITH nif <- st,
  Netifs <- {"a", "b"}, Addrs4 <- {0, 11, 21},
  Addrs6 <- [n \in {"a", "b"} |-> {}], Slots <- {}, LoopMax <- 0,
  Zone <- Zones, Fixed <- <<>>, FixedAddr <- 21, NumMod <- 3, MboxSize <- 2,
  MayFill <- FALSE

Netifs6Part == INSTANCE Netif WITH nif <- st,
  Netifs <- {"a"}, Addrs4 <- {0}, Addrs6 <- [n \in {"a"} |-> {611, 11, 22}],
  Slots <- {0, 1}, LoopMax <- 0, Zone <- Zones, Fixed <- <<>>,
  FixedAddr <- 21, NumMod <- 3, MboxSize <- 2, MayFill <- FALSE

NetifsLoopPart == INSTANCE Netif WITH nif <- st,
  Netifs <- {"a"}, Addrs4 <- {0}, Addrs6 <- [n \in {"a"} |-> {}], Slots <- {},
  LoopMax <- 3, Zone <- Zones, Fixed <- <<>>, FixedAddr <- 21, NumMod <- 3,
  MboxSize <- 2, MayFill <- FALSE

Ip4Part == INSTANCE Ip WITH nif <- st,
  Netifs <- {"a"}, Zone <- Zones, Fixed <- <<"b">>, FixedAddr <- 21,
  NumMod <- 3, LoopMax <- 0, MboxSize <- 2, MayFill <- FALSE,
  Prefixes <- {<<3, "b">>}, MaxHdrs <- 2, Addrs4 <- {0, 11, 23},
  Addrs6 <- [n \in {"a"} |-> {}], Slots <- {},
  Peers4 <- {0, 11, 12, 22, 29, 32, 127, 169, 224, 255},
  Srcs4 <- {0, 12, 32, 255}, Srcs6 <- {}, Peers6 <- {}

Ip6Part == INSTANCE Ip WITH nif <- st,
  Netifs <- {"a"}, Zone <- Zones, Fixed <- <<"b">>, FixedAddr <- 21,
  NumMod <- 3, LoopMax <- 0, MboxSize <- 2, MayFill <- FALSE,
  Prefixes <- {<<3, "b">>}, MaxHdrs <- 2, Addrs4 <- {0},
  Addrs6 <- [n \in {"a"} |-> {611, 11}], Slots <- {0, 1}, Peers4 <- {},
  Srcs4 <- {}, Srcs6 <- {0, 12, 602},
  Peers6 <- {0, 11, 12, 32, 127, 224, 301, 602}

ArpPart == INSTANCE Etharp WITH arp <- st,
  TableSize <- 2, Netifs <- {"n1", "n2"}, Hosts <- {1, 2}, Macs <- {11},
  MaxPackets <- 2, MaxInputs <- 2, MaxAge <- 3, MaxPending <- 2,
  AgeUnicast <- 1, AgeBroadcast <- 2

DhcpPart == INSTANCE Dhcp WITH host <- st,
  Addrs <- {1, 2}, Inf <- 99,
  Leases <- {<<3, 1, 2>>, <<2, 1, 1>>, <<99, 99, 99>>}, SelectTries <- 1,
  RebootTries <- 2, CoopTries <- 2, MaxTries <- 2, ProbeNum <- 2,
  AnnounceNum <- 2, MaxConflict <- 2, MaxReplies <- 3, MayRestart <- FALSE

IpfragPart == INSTANCE IpFrag WITH ip <- st,
  Ids <- {1, 2, 3}, DataLen <- 5, Payloads <- <<{2, 4}, {3}, {4}>>,
  MaxPbufs <- 4, PoolSize <- 2, MaxAge <- 1

Nd6Part == INSTANCE Nd6 WITH nd <- st,
  NumNeighbors <- 2, NumDests <- 2, NumRouters <- 1, NumPrefixes <- 1,
  NumAddrs <- 1, Hosts <- {1, 2}, Gateways <- {2}, Far <- (11 :> 1),
  RouterLives <- {2},
  PrefixOpts <- {[pfx |-> 1, onlink |-> TRUE, auto |-> FALSE, valid |-> 2, pref |-> 1]},
  MaxSolicit <- 2, ReachTime <- 1, DelayTime <- 1, DadAttempts <- 1,
  TwoHours <- 2, Inf <- 99, NumQueue <- 2, Mtus <- {}, MayRedirect <- FALSE,
  MayConfigure <- FALSE, MaxTraffic <- 2

Nd6autoPart == INSTANCE Nd6 WITH nd <- st,
  NumNeighbors <- 1, NumDests <- 1, NumRouters <- 1, NumPrefixes <- 1,
  NumAddrs <- 3, Hosts <- {2}, Gateways <- {2}, Far <- (11 :> 1),
  RouterLives <- {1},
  PrefixOpts <- {[pfx |-> 1, onlink |-> FALSE, auto |-> TRUE, valid |-> v, pref |-> q] : v \in {0, 3, 4}, q \in {0, 3}},
  MaxSolicit <- 1, ReachTime <- 1, DelayTime <- 1, DadAttempts <- 2,
  TwoHours <- 2, Inf <- 4, NumQueue <- 1, Mtus <- {1}, MayRedirect <- TRUE,
  MayConfigure <- TRUE, MaxTraffic <- 1

Nd6redirPart == INSTANCE Nd6 WITH nd <- st,
  NumNeighbors <- 2, NumDests <- 1, NumRouters <- 1, NumPrefixes <- 1,
  NumAddrs <- 1, Hosts <- {1, 2, 3}, Gateways <- {}, Far <- <<>>,
  RouterLives <- {}, PrefixOpts <- {}, MaxSolicit <- 1, ReachTime <- 1,
  DelayTime <- 1, DadAttempts <- 1, TwoHours <- 2, Inf <- 99, NumQueue <- 2,
  Mtus <- {}, MayRedirect <- TRUE, MayConfigure <- FALSE, MaxTraffic <- 2

IgmpPart == INSTANCE Mcast WITH mc <- st,
  Igmp <- <<"a">>, Mld <- <<>>, Groups <- {1, 2}, PoolNum <- 3,
  Socks <- {"s", "t"}, MaxMembers <- 2, MaxUse <- 2, MaxResps <- {0, 3},
  JoinDelay <- 3, RemoveJoined <- FALSE

MldPart == INSTANCE Mcast WITH mc <- st,
  Igmp <- <<>>, Mld <- <<"c">>, Groups <- {1, 2}, PoolNum <- 3,
  Socks <- {"s", "t"}, MaxMembers <- 2, MaxUse <- 2, MaxResps <- {0, 3},
  JoinDelay <- 3, RemoveJoined <- FALSE

UdpPart == INSTANCE UdpRaw WITH net <- st,
  Netifs <- {1}, OwnAddrs <- {1, 2}, Peers <- {5, 6}, Ports <- {7},
  Ephemeral <- {20, 21}, UdpPcbs <- {"u1", "u2"}, RawPcbs <- {}, BoxSize <- 0,
  MaxBufs <- 2

RawPart == INSTANCE UdpRaw WITH net <- st,
  Netifs <- {1}, OwnAddrs <- {1, 2}, Peers <- {5, 6}, Ports <- {7},
  Ephemeral <- {20, 21}, UdpPcbs <- {}, RawPcbs <- {"r1", "r2"}, BoxSize <- 2,
  MaxBufs <- 3

BridgePart == INSTANCE Bridge WITH br <- st,
  Hosts <- {1, 2}, Local <- {7}, Broadcast <- 9, MaxPorts <- 3,
  NumDynamic <- 1, NumStatic <- 1, Timeout <- 2, MayReuse <- FALSE,
  Unstable <- {2}, MayMove <- TRUE

PppnegPart == INSTANCE PppNeg WITH neg <- st,
  NegConfigs <- NegConfigs, Magics <- {1, 2, 3}, NegMaxNak <- 3,
  LoopbackFail <- 2, NegMaxLost <- 1, NegMaxRounds <- 10

(* ... and the services and applications. *)

DnsPart == INSTANCE Dns WITH dns <- st,
  Names <- {"a", "b"}, Types <- {"v4", "v4v6"}, TableSize <- 2, Servers <- 2,
  MaxRetries <- 1, Ttls <- {0, 1}, Txids <- {1, 2}, SeqnoMod <- 4,
  MaxRequests <- 2, MaxChanges <- 1, MayReenter <- FALSE

HttpdPart == INSTANCE Httpd WITH web <- st,
  Conns <- {"c", "d"}, Files <- HttpFiles, SsiFiles <- {"s", "t"},
  NumStates <- 2, PostLens <- {}, NumHdr <- 1, InsertLen <- 2, MaxName <- 2,
  SndBuf <- 2, NumSsi <- 1, QueueLen <- 1, MaxRetries <- 2, MayReset <- FALSE,
  MayRefuse <- FALSE

HttpdPostPart == INSTANCE Httpd WITH web <- st,
  Conns <- {"c"}, Files <- PostFiles, SsiFiles <- {}, NumStates <- 1,
  PostLens <- {0, 2}, NumHdr <- 1, InsertLen <- 2, MaxName <- 2, SndBuf <- 2,
  NumSsi <- 1, QueueLen <- 1, MaxRetries <- 2, MayReset <- FALSE,
  MayRefuse <- FALSE

HttpcPart == INSTANCE HttpClient WITH hc <- st,
  Bodies <- {0, 2, 3}, Lengths <- {0, 2, 3, 99}, Unknown <- 99,
  PollTimeout <- 2, MayRefuse <- FALSE

MqttPart == INSTANCE Mqtt WITH mq <- st,
  RingSize <- 5, BufLen <- 6, ConnectLen <- 2, MayFill <- FALSE, NumMod <- 10,
  NumReqs <- 2, ReqTimeout <- 2, ConnectTimeout <- 2, KeepAlive <- 1,
  IdMod <- 3, SndBuf <- 2, ReqLens <- {2}, Messages <- MqttAcks, Whole <- TRUE

MqttRxPart == INSTANCE Mqtt WITH mq <- st,
  RingSize <- 5, BufLen <- 6, ConnectLen <- 2, MayFill <- FALSE, NumMod <- 10,
  NumReqs <- 1, ReqTimeout <- 1, ConnectTimeout <- 1, KeepAlive <- 0,
  IdMod <- 2, SndBuf <- 4, ReqLens <- {}, Messages <- MqttPubs, Whole <- FALSE

SmtpPart == INSTANCE Smtp WITH ml <- st,
  BodyLen <- 3, DoneWithData <- FALSE, SndBuf <- 2, Timeout <- 1,
  MayCut <- FALSE, Auths <- {"plain", "login", "none"}, Chunks <- <<>>

SmtpBodyPart == INSTANCE Smtp WITH ml <- st,
  BodyLen <- 3, DoneWithData <- FALSE, SndBuf <- 2, Timeout <- 1,
  MayCut <- FALSE, Auths <- {"none"}, Chunks <- <<2, 3>>

SmtpDonePart == INSTANCE Smtp WITH ml <- st,
  BodyLen <- 3, DoneWithData <- TRUE, SndBuf <- 2, Timeout <- 1,
  MayCut <- FALSE, Auths <- {"none"}, Chunks <- <<1, 2>>

TlsPart == INSTANCE Altcp WITH ac <- st,
  Records <- <<2, 1>>, SndBuf <- 1, EarlyFin <- FALSE,
  Stack <- <<"tcp", "tls">>, BufSize <- 1, MayStarve <- FALSE,
  MayFail <- FALSE, MayAbort <- TRUE

TlsStarvePart == INSTANCE Altcp WITH ac <- st,
  Records <- <<2, 1>>, SndBuf <- 1, EarlyFin <- FALSE,
  Stack <- <<"tcp", "tls">>, BufSize <- 1, MayStarve <- TRUE,
  MayFail <- FALSE, MayAbort <- TRUE

ProxyTlsPart == INSTANCE Altcp WITH ac <- st,
  Records <- <<2, 1>>, SndBuf <- 1, EarlyFin <- FALSE,
  Stack <- <<"tcp", "proxy", "tls">>, BufSize <- 1, MayStarve <- FALSE,
  MayFail <- FALSE, MayAbort <- FALSE

AltcpPart == INSTANCE Altcp WITH ac <- st,
  Records <- <<2, 1>>, SndBuf <- 1, EarlyFin <- FALSE, Stack <- <<"tcp">>,
  BufSize <- 1, MayStarve <- FALSE, MayFail <- TRUE, MayAbort <- TRUE

SnmpPart == INSTANCE Snmp WITH sn <- st,
  Agents <- SnmpAgents, RowOids <- {<<1>>, <<2, 1>>}, Frames <- SnmpFrames,
  FrameSize <- 5, MaxReps <- 0, Radix <- 16, Numbers <- SnmpNumbers

MdnsPart == INSTANCE Mdns WITH md <- st,
  LabelLen <- LabelLens, HostNames <- {"h", "g"},
  ServiceNames <- {"web", "other"}, Addrs4 <- {"a4"},
  Addrs6 <- <<"a6", "b6">>, Queries <- MdnsQueries, MAX_SERVICES <- 1,
  PROBE_COUNT <- 2, OUTPACKET_SIZE <- 500, NUM_OFFSETS <- 10, TxtLen <- 10

TftpPart == INSTANCE Tftp WITH tf <- st,
  Files <- {1, 5}, BlkMod <- 4, Limit <- 1, MaxRetries <- 1, Cap <- 2,
  Outlives <- FALSE, MaxTimers <- 2

SntpPart == INSTANCE Sntp WITH nt <- st,
  Num <- 2, Addrs <- {1, 2}, RetryMax <- 2, Big <- 3, MaxChains <- 2,
  MaxChanges <- 1, MayName <- FALSE, Offsets <- {2}, MayKod <- FALSE,
  MayRepeat <- FALSE, MayStopLooking <- FALSE, MaxTime <- 4, MaxNet <- 2

SntpNamesPart == INSTANCE Sntp WITH nt <- st,
  Num <- 2, Addrs <- {1, 2}, RetryMax <- 2, Big <- 3, MaxChains <- 2,
  MaxChanges <- 1, MayName <- TRUE, Offsets <- {0}, MayKod <- TRUE,
  MayRepeat <- TRUE, MayStopLooking <- TRUE, MaxTime <- 3, MaxNet <- 1

----------------------------------------------------------------------------
Start ==
  \/ part = "heap" /\ st = 0
  \/ part = "pbufs" /\ PbufsPart!Init
  \/ part = "timers" /\ TimersPart!Init
  \/ part = "frames" /\ FramesPart!Init
  \/ part = "netifs" /\ NetifsPart!Init
  \/ part = "netifs6" /\ Netifs6Part!Init
  \/ part = "netifsLoop" /\ NetifsLoopPart!Init
  \/ part = "ip4" /\ Ip4Part!Init
  \/ part = "ip6" /\ Ip6Part!Init
  \/ part = "arp" /\ ArpPart!Init
  \/ part = "dhcp" /\ DhcpPart!Init
  \/ part = "ipfrag" /\ IpfragPart!Init
  \/ part = "nd6" /\ Nd6Part!Init
  \/ part = "nd6auto" /\ Nd6autoPart!Init
  \/ part = "nd6redir" /\ Nd6redirPart!Init
  \/ part = "igmp" /\ IgmpPart!Init
  \/ part = "mld" /\ MldPart!Init
  \/ part = "udp" /\ UdpPart!Init
  \/ part = "raw" /\ RawPart!Init
  \/ part = "bridge" /\ BridgePart!Init
  \/ part = "pppneg" /\ PppnegPart!NegInit
  \/ part = "dns" /\ DnsPart!Init
  \/ part = "httpd" /\ HttpdPart!Init
  \/ part = "httpdPost" /\ HttpdPostPart!Init
  \/ part = "httpc" /\ HttpcPart!Init
  \/ part = "mqtt" /\ MqttPart!Init
  \/ part = "mqttRx" /\ MqttRxPart!Init
  \/ part = "smtp" /\ SmtpPart!Init
  \/ part = "smtpBody" /\ SmtpBodyPart!Init
  \/ part = "smtpDone" /\ SmtpDonePart!Init
  \/ part = "tls" /\ TlsPart!Init
  \/ part = "tlsStarve" /\ TlsStarvePart!Init
  \/ part = "proxyTls" /\ ProxyTlsPart!Init
  \/ part = "altcp" /\ AltcpPart!Init
  \/ part = "snmp" /\ SnmpPart!Init
  \/ part = "mdns" /\ MdnsPart!Init
  \/ part = "tftp" /\ TftpPart!Init
  \/ part = "sntp" /\ SntpPart!Init
  \/ part = "sntpNames" /\ SntpNamesPart!Init

Init == part \in Parts /\ MemInit /\ Start

Next ==
  \/ part = "heap" /\ MemNext /\ UNCHANGED <<part, st>>
  \/ part = "pbufs" /\ PbufsPart!Next /\ UNCHANGED <<part, mem>>
  \/ part = "timers" /\ TimersPart!Next /\ UNCHANGED <<part, mem>>
  \/ part = "frames" /\ FramesPart!Next /\ UNCHANGED <<part, mem>>
  \/ part = "netifs" /\ NetifsPart!NetifNext /\ UNCHANGED <<part, mem>>
  \/ part = "netifs6" /\ Netifs6Part!NetifNext /\ UNCHANGED <<part, mem>>
  \/ part = "netifsLoop" /\ NetifsLoopPart!NetifNext /\ UNCHANGED <<part, mem>>
  \/ part = "ip4" /\ Ip4Part!Next /\ UNCHANGED <<part, mem>>
  \/ part = "ip6" /\ Ip6Part!Next /\ UNCHANGED <<part, mem>>
  \/ part = "arp" /\ ArpPart!Next /\ UNCHANGED <<part, mem>>
  \/ part = "dhcp" /\ DhcpPart!Next /\ UNCHANGED <<part, mem>>
  \/ part = "ipfrag" /\ IpfragPart!Next /\ UNCHANGED <<part, mem>>
  \/ part = "nd6" /\ Nd6Part!Next /\ UNCHANGED <<part, mem>>
  \/ part = "nd6auto" /\ Nd6autoPart!Next /\ UNCHANGED <<part, mem>>
  \/ part = "nd6redir" /\ Nd6redirPart!Next /\ UNCHANGED <<part, mem>>
  \/ part = "igmp" /\ IgmpPart!Next /\ UNCHANGED <<part, mem>>
  \/ part = "mld" /\ MldPart!Next /\ UNCHANGED <<part, mem>>
  \/ part = "udp" /\ UdpPart!Next /\ UNCHANGED <<part, mem>>
  \/ part = "raw" /\ RawPart!Next /\ UNCHANGED <<part, mem>>
  \/ part = "bridge" /\ BridgePart!Next /\ UNCHANGED <<part, mem>>
  \/ part = "pppneg" /\ PppnegPart!NegNext /\ UNCHANGED <<part, mem>>
  \/ part = "dns" /\ DnsPart!Next /\ UNCHANGED <<part, mem>>
  \/ part = "httpd" /\ HttpdPart!Next /\ UNCHANGED <<part, mem>>
  \/ part = "httpdPost" /\ HttpdPostPart!Next /\ UNCHANGED <<part, mem>>
  \/ part = "httpc" /\ HttpcPart!Next /\ UNCHANGED <<part, mem>>
  \/ part = "mqtt" /\ MqttPart!Next /\ UNCHANGED <<part, mem>>
  \/ part = "mqttRx" /\ MqttRxPart!Next /\ UNCHANGED <<part, mem>>
  \/ part = "smtp" /\ SmtpPart!Next /\ UNCHANGED <<part, mem>>
  \/ part = "smtpBody" /\ SmtpBodyPart!Next /\ UNCHANGED <<part, mem>>
  \/ part = "smtpDone" /\ SmtpDonePart!Next /\ UNCHANGED <<part, mem>>
  \/ part = "tls" /\ TlsPart!Next /\ UNCHANGED <<part, mem>>
  \/ part = "tlsStarve" /\ TlsStarvePart!Next /\ UNCHANGED <<part, mem>>
  \/ part = "proxyTls" /\ ProxyTlsPart!Next /\ UNCHANGED <<part, mem>>
  \/ part = "altcp" /\ AltcpPart!Next /\ UNCHANGED <<part, mem>>
  \/ part = "snmp" /\ SnmpPart!Next /\ UNCHANGED <<part, mem>>
  \/ part = "mdns" /\ MdnsPart!Next /\ UNCHANGED <<part, mem>>
  \/ part = "tftp" /\ TftpPart!Next /\ UNCHANGED <<part, mem>>
  \/ part = "sntp" /\ SntpPart!Next /\ UNCHANGED <<part, mem>>
  \/ part = "sntpNames" /\ SntpNamesPart!Next /\ UNCHANGED <<part, mem>>

Spec == Init /\ [][Next]_vars

----------------------------------------------------------------------------
(* What is allocated is accounted for.  A request to the heap fails only   *)
(* when no block fits, whatever is freed inside mem_malloc; a pool element *)
(* is free or held once; a pbuf lives exactly as long as someone holds it  *)
(* and every tot_len is the sum it claims (pbuf_free, pbuf_cat, pbuf_ref); *)
(* every message posted to the tcpip thread is executed or freed; packets  *)
(* that wait for ARP or for reassembly are queued once, within the limits, *)
(* and freed when their entry goes.                                        *)
Conserved ==
  /\ part = "heap" => PoolConserved /\ MallocFailsRightly
  /\ part = "pbufs" => PbufsPart!PbufsCounted /\ PbufsPart!TotLenAgrees
  /\ part = "timers" => TimersPart!MessagesKept
  /\ part = "frames" => FramesPart!MessagesKept
  /\ part = "arp" => ArpPart!ArpQueues
  /\ part = "ipfrag" => IpfragPart!ReassBounded

(* Packets reach their destination and nobody else.  A copy of a pbuf      *)
(* chain holds the bytes of the chain; a packet leaves only to the         *)
(* hardware address its next hop resolved to, and reassembly returns       *)
(* exactly the datagram that was sent; a datagram goes to the UDP or raw   *)
(* pcb that best matches it; the stack forwards only what is not for it    *)
(* and answers only what may be answered, by an interface over which the   *)
(* answer returns; the bridge forwards a frame to the ports it must reach, *)
(* never back to the one it came from.                                     *)
Delivered ==
  /\ part = "pbufs" => PbufsPart!CopiesAgree
  /\ part = "ip4" =>
       /\ Ip4Part!ForwardSafe
       /\ Ip4Part!AnswersSafe
       /\ Ip4Part!AnswersArrive
  /\ part = "ip6" =>
       /\ Ip6Part!ForwardSafe
       /\ Ip6Part!AnswersSafe
       /\ Ip6Part!AnswersArrive
  /\ part = "arp" => ArpPart!ArpDelivery
  /\ part = "ipfrag" => IpfragPart!Reassembled
  /\ part = "udp" => UdpPart!UdpDemux /\ UdpPart!UdpSourceOwn
  /\ part = "raw" => RawPart!UdpDemux /\ RawPart!UdpSourceOwn
  /\ part = "bridge" => BridgePart!BridgeForwards

(* Nothing that waits is forgotten.  A timeout on the list fires in order  *)
(* and the cyclic ones are rearmed across the wrap of the clock; a looped- *)
(* back packet always has a poll to come; a DHCP client that runs always   *)
(* has a timer or an address; the loop that sends a neighbour's queue ends *)
(* unless the neighbour's entry is itself recycled in it; a multicast      *)
(* query has its report scheduled in time; a PPP option negotiation        *)
(* converges unless an end cannot accept.                                  *)
Served ==
  /\ part = "timers" => TimersPart!TimersKept
  /\ part = "frames" => FramesPart!TimersKept
  /\ part = "netifs" => NetifsPart!LoopsPolled
  /\ part = "netifs6" => Netifs6Part!LoopsPolled
  /\ part = "netifsLoop" => NetifsLoopPart!LoopsPolled
  /\ part = "dhcp" => DhcpPart!DhcpNeverStuck
  /\ part = "nd6" => Nd6Part!Nd6SendEnds
  /\ part = "nd6redir" => Nd6redirPart!Nd6SendEnds
  /\ part = "igmp" => IgmpPart!QueriesAnswered
  /\ part = "mld" => MldPart!QueriesAnswered
  /\ part = "pppneg" => PppnegPart!NegConverges

(* Tables that several modules share agree.  Interface lists, their        *)
(* numbers and the default interface; neighbour, destination, router and   *)
(* prefix caches of ND6 (an entry that another refers to is alive and      *)
(* leads where the other says); IGMP and MLD group lists and the           *)
(* memberships of sockets; UDP ports; the forwarding database of the       *)
(* bridge.  And an address is used only while the host may use it: a DHCP  *)
(* lease until it expires and no longer, an AutoIP address only after its  *)
(* probes and, once the link has changed, while it is probed anew, IPv6    *)
(* addresses only while the link-local one they were formed from is no     *)
(* duplicate and their lifetimes last, each with its solicited-node group  *)
(* joined; the source address chosen for a packet is one no other address  *)
(* beats; what two ends of a PPP link agreed on is what each may offer and *)
(* the other accepts.                                                      *)
Consistent ==
  /\ part = "netifs" => NetifsPart!NetifsKept
  /\ part = "netifs" => NetifsPart!SolicitedJoined
  /\ part = "netifs6" => Netifs6Part!NetifsKept
  /\ part = "netifs6" => Netifs6Part!SolicitedJoined
  /\ part = "netifsLoop" => NetifsLoopPart!NetifsKept
  /\ part = "netifsLoop" => NetifsLoopPart!SolicitedJoined
  /\ part = "ip4" => Ip4Part!SourceRules
  /\ part = "ip6" => Ip6Part!SourceRules
  /\ part = "dhcp" => DhcpPart!LeaseHeld /\ DhcpPart!AutoAddrProbed
  /\ part = "nd6" => Nd6Part!Nd6Caches
  /\ part = "nd6auto" => Nd6autoPart!Nd6Caches
  /\ part = "nd6auto" => Nd6autoPart!Nd6AddrsFollow
  /\ part = "nd6redir" => Nd6redirPart!Nd6Caches
  /\ part = "igmp" => IgmpPart!McastLists /\ IgmpPart!MembersServed
  /\ part = "mld" => MldPart!McastLists /\ MldPart!MembersServed
  /\ part = "udp" => UdpPart!UdpPortsDistinct
  /\ part = "raw" => RawPart!UdpPortsDistinct
  /\ part = "bridge" => BridgePart!BridgeLearns
  /\ part = "pppneg" => PppnegPart!NegAgrees

(* A request gets one answer, the right one.  Each caller of a DNS lookup  *)
(* is called back once with an address of the name it asked for; each HTTP *)
(* POST that began is finished, each HTTP, SMTP and MQTT request has one   *)
(* result; an SMTP response is parsed only when complete; an SNMP Set      *)
(* changes all of its variables or none; mDNS answers a question unless    *)
(* the querier knows the answer; the SNTP clock is set from an answer to   *)
(* the request that is outstanding.                                        *)
Answered ==
  /\ part = "dns" => DnsPart!DnsWaitersServed /\ DnsPart!DnsAnswersMatch
  /\ part = "httpd" => HttpdPart!HttpPosts
  /\ part = "httpdPost" => HttpdPostPart!HttpPosts
  /\ part = "httpc" => HttpcPart!HttpcOneResult
  /\ part = "mqtt" => MqttPart!MqttRequests
  /\ part = "mqttRx" => MqttRxPart!MqttRequests
  /\ part = "smtp" => SmtpPart!SmtpOneResult /\ SmtpPart!SmtpResponses
  /\ part = "smtpBody" =>
       /\ SmtpBodyPart!SmtpOneResult
       /\ SmtpBodyPart!SmtpResponses
  /\ part = "smtpDone" => SmtpDonePart!SmtpOneResult
  /\ part = "snmp" => SnmpPart!SnmpSets
  /\ part = "mdns" => MdnsPart!MdnsReplies
  /\ part = "sntp" => SntpPart!SntpClock

(* Nothing stays behind and nothing is let through early.  HTTP states and *)
(* file handles, TLS and proxy layers and TFTP handles are freed exactly   *)
(* once and their timers with them; MQTT and SNTP keep exactly one timer   *)
(* while they run; an mDNS name is announced only after its probes; an     *)
(* SNMP v3 message is acted upon only with the protection its user         *)
(* requires.                                                               *)
Released ==
  /\ part = "httpd" => HttpdPart!HttpStates
  /\ part = "httpdPost" => HttpdPostPart!HttpStates
  /\ part = "mqtt" => MqttPart!MqttTimer
  /\ part = "mqttRx" => MqttRxPart!MqttTimer
  /\ part = "tls" => TlsPart!AltcpOwned
  /\ part = "tlsStarve" => TlsStarvePart!AltcpOwned
  /\ part = "proxyTls" => ProxyTlsPart!AltcpOwned
  /\ part = "altcp" => AltcpPart!AltcpOwned
  /\ part = "snmp" => SnmpPart!SnmpGuarded
  /\ part = "mdns" => MdnsPart!MdnsProbed /\ MdnsPart!MdnsTimer
  /\ part = "tftp" => TftpPart!TftpHandle
  /\ part = "sntp" => SntpPart!SntpNeverSilent /\ SntpPart!SntpPollsOnce
  /\ part = "sntpNames" => SntpNamesPart!SntpNeverSilent

(* What a stream delivers is what was put into it.  HTTP responses with    *)
(* their inserted tags, bodies that the HTTP client reads, MQTT's output   *)
(* ring and its split input, SMTP bodies, TLS records with the window they *)
(* open, TFTP blocks under loss and repetition; an SNMP walk visits every  *)
(* instance once in order, its encoder and decoder agree, and a compressed *)
(* mDNS name reads back as the name.                                       *)
Streams ==
  /\ part = "httpd" => HttpdPart!HttpResponses
  /\ part = "httpdPost" => HttpdPostPart!HttpResponses
  /\ part = "httpc" => HttpcPart!HttpcBody
  /\ part = "mqtt" => MqttPart!MqttStreams
  /\ part = "mqttRx" => MqttRxPart!MqttStreams
  /\ part = "smtp" => SmtpPart!SmtpSent
  /\ part = "smtpBody" => SmtpBodyPart!SmtpSent
  /\ part = "smtpDone" => SmtpDonePart!SmtpSent
  /\ part = "tls" => TlsPart!AltcpWindow /\ TlsPart!AltcpStream
  /\ part = "tlsStarve" =>
       /\ TlsStarvePart!AltcpWindow
       /\ TlsStarvePart!AltcpStream
  /\ part = "proxyTls" => ProxyTlsPart!AltcpWindow /\ ProxyTlsPart!AltcpStream
  /\ part = "altcp" => AltcpPart!AltcpWindow /\ AltcpPart!AltcpStream
  /\ part = "snmp" => SnmpPart!SnmpWalks /\ SnmpPart!Asn1Agrees
  /\ part = "mdns" => MdnsPart!MdnsNames
  /\ part = "tftp" => TftpPart!TftpTransfers
============================================================================
