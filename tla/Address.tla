------------------------------ MODULE Address ------------------------------
(***************************************************************************)
(* Addresses: a name is resolved by the socket that binds or connects, and *)
(* what it reads as then (ZMQ_LAST_ENDPOINT) is resolved by a peer         *)
(* (tcp_address.cpp, udp_address.cpp, ipc_address.cpp, tipc_address.cpp,   *)
(* vmci_address.cpp, address.cpp); a filter of TCP is resolved and matched *)
(* with the address of a client (tcp_address_mask_t).  A text is the       *)
(* record of its parts.  The name services of the system are external.     *)
(***************************************************************************)
EXTENDS Integers, Sequences, FiniteSets, Bitwise

CONSTANTS
  Names,        \* by protocol: records, see below
  Systems,      \* records: platform, Linux or another; nics, what the call that
                \* lists the interfaces does; here, the VMCI of this machine
  Filters,      \* of TCP: records of host and mask, NoMask if there is none
  ByteBits,     \* bits of a byte
  Clients       \* addresses that connect: records of family and bytes

VARIABLES
  stage,        \* what is done so far
  name,         \* the name, its protocol, and the options local and ipv6
  system,
  mine,         \* what it has been resolved to
  published,    \* what that reads as
  yours         \* what this is resolved to
addressvars == <<stage, name, system, mine, published, yours>>

Fails(errno) == [rc |-> errno]
Ok(r) == r.rc = "ok"
Found(family, host) == [rc |-> "ok", family |-> family, host |-> host, port |-> 0, zone |-> 0]

-----------------------------------------------------------------------------
(* The system: the address of each interface, in the order they are        *)
(* listed, the literals and the host names.  An IPv6 socket is given an    *)
(* IPv4 address mapped, where that is supported.                           *)
Nics == [eth0 |-> <<"inet6", "inet">>, tun0 |-> <<"inet6">>]
NicHost(nic, family) ==
  IF family = "inet" THEN "10.0.0.1" ELSE IF nic = "eth0" THEN "fe80::1" ELSE "fe80::2"
Inet == {"10.0.0.1", "0.0.0.0"}
Inet6 == {"fe80::1", "fe80::2", "::", "::ffff:10.0.0.1", "::ffff:0.0.0.0"}
Mapped(host) == IF host = "10.0.0.1" THEN "::ffff:10.0.0.1" ELSE "::ffff:0.0.0.0"
Maps == system.platform # "freebsd"
Hosts == [localhost |-> "10.0.0.1"]
GetAddrInfo(host, family, literal) ==
  CASE family = "inet" /\ host \in Inet -> Found("inet", host)
    [] family = "inet6" /\ host \in Inet6 -> Found("inet6", host)
    [] family = "inet6" /\ host \in Inet /\ Maps -> Found("inet6", Mapped(host))
    [] ~literal /\ host \in DOMAIN Hosts ->
         IF family = "inet" THEN Found("inet", Hosts[host])
         ELSE IF Maps THEN Found("inet6", Mapped(Hosts[host])) ELSE Fails("EINVAL")
    [] OTHER -> Fails("EINVAL")

(* resolve_nic_name(), of which each platform has its own: the first       *)
(* address of the interface with a family that is wanted.                  *)
FirstOf(nic, families) ==
  LET found == IF nic \in DOMAIN Nics THEN {i \in DOMAIN Nics[nic] : Nics[nic][i] \in families}
               ELSE {}
      family == Nics[nic][CHOOSE i \in found : \A j \in found : i <= j]
  IN  IF found = {} THEN Fails("ENODEV") ELSE Found(family, NicHost(nic, family))
Families(ipv6) == IF ipv6 THEN {"inet", "inet6"} ELSE {"inet"}
NicSolaris(nic, ipv6) ==
  IF system.nics = "failed" THEN Fails("aborted") ELSE FirstOf(nic, {"inet"})
NicIoctl(nic, ipv6) == IF ipv6 \/ system.nics = "failed" THEN Fails("ENODEV") ELSE FirstOf(nic, {"inet"})
NicIfaddrs(nic, ipv6) ==
  CASE system.nics = "unsupported" -> Fails("ENODEV")
    [] system.nics = "failed" -> Fails("aborted")
    [] OTHER -> FirstOf(nic, Families(ipv6))
NicWindows(nic, ipv6) ==
  IF system.nics # "listed" THEN Fails("ENODEV") ELSE FirstOf(nic, Families(ipv6))
ResolveNicName(nic, ipv6) ==
  CASE system.platform = "solaris" -> NicSolaris(nic, ipv6)
    [] system.platform = "aix" -> NicIoctl(nic, ipv6)
    [] system.platform \in {"linux", "freebsd"} -> NicIfaddrs(nic, ipv6)
    [] system.platform = "windows" -> NicWindows(nic, ipv6)
    [] OTHER -> Fails("ENODEV")

-----------------------------------------------------------------------------
(* tcp_address_t::resolve().  A part of a name is the host, the zone       *)
(* behind "%", and the port: 0 for "*" and "0", and any number that is 0   *)
(* in 16 bits for a text that is none.                                     *)
Family(ipv6) == IF ipv6 THEN "inet6" ELSE "inet"
ResolveInterface(host, ipv6) ==
  LET nic == ResolveNicName(host, ipv6)
      literal == GetAddrInfo(host, Family(ipv6), TRUE)
      again == GetAddrInfo(host, "inet", TRUE)
  IN  CASE host = "*" -> Found(Family(ipv6), IF ipv6 THEN "::" ELSE "0.0.0.0")
        [] host # "*" /\ nic.rc # "ENODEV" -> nic
        [] OTHER -> IF Ok(literal) THEN literal
                    ELSE IF system.platform = "windows" /\ Ok(again) THEN again ELSE Fails("ENODEV")
ResolveHostname(host, ipv6) == GetAddrInfo(host, Family(ipv6), FALSE)

Port16(n) == n % (2 ^ 16)
ZoneId(zone) == IF zone = "eth0" THEN 1 ELSE IF zone = "tun0" THEN 2 ELSE 0
ResolvePart(part, local, ipv6, is_src) ==
  LET found == IF local \/ is_src THEN ResolveInterface(part.host, ipv6)
               ELSE ResolveHostname(part.host, ipv6)
  IN  IF part.zone = "" THEN Fails("out_of_range")
      ELSE IF \/ part.zone # "none" /\ ZoneId(part.zone) = 0
              \/ part.port # 0 /\ Port16(part.port) = 0 THEN Fails("EINVAL")
      ELSE IF ~Ok(found) THEN found
      ELSE [found EXCEPT !.port = Port16(part.port),
                         !.zone = IF found.family = "inet6" THEN ZoneId(part.zone) ELSE 0]
None == [host |-> "none"]
TcpResolve(n, local, ipv6) ==
  LET source == ResolvePart(n.src, local, ipv6, TRUE)
      address == ResolvePart(n.dst, local, ipv6, FALSE)
  IN  IF n.src # None /\ ~Ok(source) THEN source ELSE address
(* to_string(): an address of IPv6 with its zone.                          *)
ZoneName(id) == CASE id = 1 -> "eth0" [] id = 2 -> "tun0" [] OTHER -> "none"
TcpToString(a) == [src |-> None, dst |-> [host |-> a.host, zone |-> ZoneName(a.zone), port |-> a.port]]

-----------------------------------------------------------------------------
(* udp_address_t: IPv4 only; with the first byte from 224 to 239 it is of  *)
(* a group.  255.255.255.255 is INADDR_NONE, the value for no address.     *)
UdpHosts == {"10.0.0.1", "0.0.0.0", "224.0.0.1"}
Multicast == {"224.0.0.1"}
Udp(host, port) == [host |-> host, port |-> port]
UdpResolve(n, bind) ==
  LET host == IF n.host = "*" /\ bind THEN "0.0.0.0" ELSE n.host
      port == Port16(n.port)
  IN  IF port = 0 \/ host \notin UdpHosts THEN Fails("EINVAL")
      ELSE [rc |-> "ok", dest |-> Udp(host, port), mcast |-> host \in Multicast, text |-> n,
            bind |-> IF bind /\ host \notin Multicast THEN Udp(host, port) ELSE Udp("0.0.0.0", port)]

(* ipc_address_t: a path that is too long, or "@" alone, is refused.  An   *)
(* abstract path has a 0 in place of its "@".                              *)
SunPath == 108
IpcResolve(n) ==
  IF n.len >= SunPath THEN Fails("ENAMETOOLONG")
  ELSE IF n.at /\ n.len = 1 THEN Fails("EINVAL")
  ELSE [rc |-> "ok", zero |-> n.at \/ n.len = 0, rest |-> IF n.len = 0 THEN 0 ELSE n.len - 1]
IpcToString(a) ==
  IF a.zero /\ a.rest = 0 THEN [len |-> 0, at |-> FALSE] ELSE [len |-> a.rest + 1, at |-> a.zero]

(* tipc_address_t: {type, lower, upper} is a sequence of names; without    *)
(* upper, and with a type that is not reserved, a name in a domain.  The   *)
(* errors are positive here.                                               *)
ReservedTypes == 64
Absent == -1
Malformed == -2
Domain(n) == IF n.domain = Absent THEN 2 ^ 24 ELSE n.domain
Tipc(kind, type, lower, third) ==
  [rc |-> "ok", kind |-> kind, type |-> type, lower |-> lower, third |-> third]
TipcResolve(n) ==
  LET isSeq == n.upper # Absent
  IN  IF \/ n.domain = Malformed
         \/ isSeq /\ (n.type < ReservedTypes \/ n.upper < n.lower)
         \/ ~isSeq /\ n.type <= ReservedTypes
        THEN Fails("EINVAL")
      ELSE IF isSeq THEN Tipc("nameseq", n.type, n.lower, n.upper)
      ELSE Tipc("name", n.type, n.lower, Domain(n))
(* to_string() takes either for a sequence: the third number of a name is  *)
(* its domain.                                                             *)
TipcToString(a) == [type |-> a.type, lower |-> a.lower, upper |-> a.third, domain |-> Absent]

(* vmci_address_t: the address of this machine is "@", and "*" and "-1"    *)
(* are the largest number, which stands for any.                           *)
VmciAny == 2 ^ 30
VmciNumber(n) == IF n \in {"*", "-1"} THEN VmciAny ELSE CASE n = "2" -> 2 [] n = "7" -> 7 [] OTHER -> -1
VmciResolve(n) ==
  LET cid == IF n.cid = "@" THEN system.here ELSE VmciNumber(n.cid)
      port == VmciNumber(n.port)
  IN  IF n.cid = "@" /\ cid = VmciAny THEN Fails("ENODEV")
      ELSE IF cid < 0 \/ port < 0 THEN Fails("EINVAL")
      ELSE [rc |-> "ok", cid |-> cid, port |-> port]
VmciText(n) == CASE n = VmciAny -> "*" [] n = 2 -> "2" [] OTHER -> "7"
VmciToString(a) == [cid |-> VmciText(a.cid), port |-> VmciText(a.port)]

-----------------------------------------------------------------------------
(* socket_base_t, the listeners and the connecters: a name is resolved, in *)
(* an IPv6 socket once more for IPv4 if the system has no IPv6, a port is  *)
(* drawn for port 0, and the endpoint is read (address_t::to_string).      *)
Resolve(protocol, n, local, ipv6) ==
  CASE protocol = "tcp" -> TcpResolve(n, local, ipv6)
    [] protocol = "udp" -> UdpResolve(n, local)
    [] protocol = "ipc" -> IpcResolve(n)
    [] protocol = "tipc" -> TipcResolve(n)
    [] protocol = "vmci" -> VmciResolve(n)
ToString(protocol, a) ==
  CASE protocol = "tcp" -> [protocol |-> "tcp", n |-> TcpToString(a)]
    [] protocol = "udp" -> [protocol |-> "none", n |-> a.text]
    [] protocol = "ipc" -> [protocol |-> "ipc", n |-> IpcToString(a)]
    [] protocol = "tipc" -> [protocol |-> "tipc", n |-> TipcToString(a)]
    [] protocol = "vmci" -> [protocol |-> "vmci", n |-> VmciToString(a)]

Nothing == Fails("none")
AddressInit ==
  /\ stage = "named" /\ system \in Systems
  /\ \/ \E protocol \in DOMAIN Names, local \in BOOLEAN, ipv6 \in BOOLEAN :
          \E n \in Names[protocol] :
            name = [protocol |-> protocol, n |-> n, local |-> local, ipv6 |-> ipv6]
     \/ \E filter \in Filters, ipv6 \in BOOLEAN :
          name = [protocol |-> "filter", n |-> filter, local |-> FALSE, ipv6 |-> ipv6]
  /\ mine = Nothing /\ yours = Nothing
  /\ published = [protocol |-> "none", n |-> Nothing]

ResolveName ==
  /\ stage = "named" /\ name.protocol # "filter"
  /\ stage' = "resolved"
  /\ \E downgraded \in IF name.ipv6 /\ name.protocol = "tcp" THEN BOOLEAN ELSE {FALSE} :
       mine' = LET r == Resolve(name.protocol, name.n, name.local, name.ipv6)
               IN  IF downgraded /\ Ok(r) THEN Resolve(name.protocol, name.n, name.local, FALSE) ELSE r
  /\ UNCHANGED <<name, system, published, yours>>
DrawPort ==
  /\ stage = "resolved" /\ name.local /\ name.protocol = "tcp" /\ Ok(mine) /\ mine.port = 0
  /\ mine' = [mine EXCEPT !.port = 49152]
  /\ UNCHANGED <<stage, name, system, published, yours>>
Publish ==
  /\ stage = "resolved" /\ Ok(mine)
  /\ stage' = "published" /\ published' = ToString(name.protocol, mine)
  /\ UNCHANGED <<name, system, mine, yours>>
PeerResolves(ipv6) ==
  /\ stage = "published" /\ published.protocol # "none"
  /\ stage' = IF ipv6 THEN "sought6" ELSE "sought"
  /\ yours' = Resolve(published.protocol, published.n, FALSE, ipv6)
  /\ UNCHANGED <<name, system, mine, published>>

-----------------------------------------------------------------------------
(* tcp_address_mask_t: a mask counts the bits of the address as it has     *)
(* been resolved; match_address() compares bytes, and bits of the last.    *)
NoMask == -1
BytesOf(family) == IF family = "inet" THEN 2 ELSE 3
Width(family) == BytesOf(family) * ByteBits
FilterAddress(f, ipv6) ==
  CASE f.family = Family(ipv6) -> [rc |-> "ok", family |-> f.family, bytes |-> f.bytes]
    [] f.family = "inet" /\ ipv6 /\ Maps ->
         [rc |-> "ok", family |-> "inet6", bytes |-> <<2 ^ ByteBits - 1>> \o f.bytes]
    [] OTHER -> Fails("EINVAL")
MaskResolve(f, ipv6) ==
  LET a == FilterAddress(f, ipv6)
      mask == IF f.mask = NoMask THEN Width(a.family) ELSE f.mask
  IN  IF ~Ok(a) THEN a
      ELSE IF mask \notin 0 .. Width(a.family) THEN Fails("EINVAL")
      ELSE [rc |-> "ok", family |-> a.family, bytes |-> a.bytes, mask |-> mask]
MatchAddress(a, c) ==
  LET full == a.mask \div ByteBits
      lastByteBits == ((2 ^ ByteBits - 1) * 2 ^ (ByteBits - (a.mask % ByteBits))) % 2 ^ ByteBits
  IN  /\ a.family = c.family
      /\ a.mask > 0 =>
           /\ SubSeq(a.bytes, 1, full) = SubSeq(c.bytes, 1, full)
           /\ lastByteBits # 0 =>
                a.bytes[full + 1] & lastByteBits = c.bytes[full + 1] & lastByteBits

SetFilter ==
  /\ stage = "named" /\ name.protocol = "filter"
  /\ stage' = "filtering" /\ mine' = MaskResolve(name.n, name.ipv6)
  /\ UNCHANGED <<name, system, published, yours>>
Accept(c) ==
  /\ stage = "filtering" /\ Ok(mine)
  /\ stage' = "filtered"
  /\ yours' = [rc |-> "ok", client |-> c, allowed |-> MatchAddress(mine, c)]
  /\ UNCHANGED <<name, system, mine, published>>

AddressNext ==
  \/ ResolveName \/ DrawPort \/ Publish \/ SetFilter
  \/ \E ipv6 \in BOOLEAN : PeerResolves(ipv6)
  \/ \E c \in Clients : Accept(c)
AddressSpec == AddressInit /\ [][AddressNext]_addressvars

-----------------------------------------------------------------------------
(* Properties.                                                             *)

(* What a socket publishes leads a peer to the address that it has: the    *)
(* host, as an IPv4 address or mapped, the zone and the port               *)
(* (to_string() and resolve() of each address).  A peer without IPv6 finds *)
(* no IPv6 address, one on a system that does not map no IPv4 address with *)
(* IPv6; a name of TIPC, and any address of UDP, do not lead back.         *)
SameHost(a, b) == a.host = b.host \/ (a.host \in Inet /\ b.host = Mapped(a.host))
Understands(a, b) ==
  CASE name.protocol = "tcp" ->
         Ok(b) => SameHost(a, b) /\ b.port = a.port /\ (b.family = "inet6" => b.zone = a.zone)
    [] name.protocol = "tipc" /\ a.kind = "name" -> b # a
    [] OTHER -> b = a
LeadsBack ==
  /\ stage \in {"sought", "sought6"} => Understands(mine, yours)
  /\ stage = "sought" /\ name.protocol = "tcp" => (Ok(yours) <=> mine.family = "inet")
  /\ stage = "sought6" /\ name.protocol = "tcp" => (Ok(yours) <=> mine.family = "inet6" \/ Maps)
  /\ stage = "published" => (published.protocol = "none" <=> name.protocol = "udp")

(* A socket gets an IPv6 address only if it may have one, and a port that  *)
(* nobody asked for only for a number that is no port: it is taken in 16   *)
(* bits.  It has a zone only if one was named, even if it was found by the *)
(* name of its interface.  A literal of IPv4 with a port is always         *)
(* resolved where the interfaces can be listed (tcp_address_t::resolve).   *)
AsAsked ==
  stage = "resolved" /\ name.protocol = "tcp" =>
    /\ Ok(mine) =>
         /\ mine.family = "inet6" => name.ipv6
         /\ name.n.dst.port \in 1 .. 2 ^ 16 - 1 => mine.port = name.n.dst.port
         /\ name.n.dst.host \in DOMAIN Nics => name.local
         /\ mine.zone # 0 <=> name.n.dst.zone # "none" /\ mine.family = "inet6"
    /\ /\ ~name.ipv6 /\ name.n.dst.host \in Inet /\ name.n.src = None /\ system.nics = "listed"
       /\ name.n.dst.zone \in DOMAIN Nics \cup {"none"} /\ name.n.dst.port \in 0 .. 2 ^ 16 - 1
       => Ok(mine)

(* RADIO and DISH with the same address of UDP meet: what the one sends    *)
(* arrives where the other is bound; only DISH may be at any address       *)
(* (udp_address_t::resolve).                                               *)
Meet ==
  stage # "named" /\ name.protocol = "udp" =>
    LET radio == UdpResolve(name.n, FALSE)
        dish == UdpResolve(name.n, TRUE)
    IN  /\ name.n.host = "*" => ~Ok(radio) /\ (Ok(dish) <=> Port16(name.n.port) # 0)
        /\ Ok(radio) => /\ Ok(dish) /\ dish.bind.port = radio.dest.port
                        /\ dish.bind.host \in {radio.dest.host, "0.0.0.0"}
                        /\ radio.mcast => dish.mcast /\ dish.bind.host = "0.0.0.0"

(* A filter lets in the clients whose address has its first bits, as many  *)
(* as its mask says (match_address()).                                     *)
Bit(bytes, i) == (bytes[((i - 1) \div ByteBits) + 1] \div 2 ^ (ByteBits - 1 - ((i - 1) % ByteBits))) % 2
FiltersByPrefix ==
  stage = "filtered" =>
    (yours.allowed <=> /\ yours.client.family = mine.family
                       /\ \A i \in 1 .. mine.mask : Bit(yours.client.bytes, i) = Bit(mine.bytes, i))
=============================================================================
