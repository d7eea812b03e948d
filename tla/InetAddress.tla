---------------------------- MODULE InetAddress ----------------------------
(***************************************************************************)
(* InetAddress.cpp, Resolver.cpp and the address functions of             *)
(* SocketsOps.cpp.  `addr' is one object, that constructors, tryParse(),   *)
(* the kernel's answers and resolve() overwrite.  An IP is a model value   *)
(* with its literal and its binary form identified; ports are numbers, in  *)
(* network order inside an address.                                        *)
(***************************************************************************)
EXTENDS Integers, Sequences, SequencesExt

CONSTANTS
    Ips4, Ips6,   \* the addresses of either family
    Ports,        \* the ports that the user gives
    MaxInfos      \* bound on the answers of getaddrinfo()

VARIABLES
    addr,         \* addr_ and length_
    asked,        \* the port and family last asked for; the literal or answers
    ok, error     \* what the last call returned, and its *error_code

addrVars == <<addr, asked, ok, error>>

NoError == "0"

Size4 == 16
Size6 == 28
Storage == 128

htons(p) == (p % 256) * 256 + (p \div 256)
ntohs(p) == (p % 256) * 256 + (p \div 256)

\* A memset() object: AF_UNSPEC, port 0.
Zeroed(length) == [family |-> "unspec", ip |-> "zero", port |-> 0, length |-> length]

Sockaddr4(ip, p) == [family |-> "v4", ip |-> ip, port |-> p, length |-> Size4]
Sockaddr6(ip, p) == [family |-> "v6", ip |-> ip, port |-> p, length |-> Size6]
SockaddrOf(family, ip, p) == IF family = "v4" THEN Sockaddr4(ip, p) ELSE Sockaddr6(ip, p)

isValid(a) == a.length # 0 /\ a.family \in {"v4", "v6"}

portNetEndian(a) == a.port
toPort(a) == ntohs(portNetEndian(a))

\* inet_pton(): whether the text is an address of the family.
IsLiteral(ip, family) == ip \in IF family = "v4" THEN Ips4 ELSE Ips6

\* fromIpPort() has set family and port of a local before it finds the text
\* invalid; the object does not get them.
FromLiteral(ip, p, family) ==
    IF IsLiteral(ip, family) THEN SockaddrOf(family, ip, htons(p)) ELSE Zeroed(0)

\* toIp() and toIpPort(): an IPv6 address stands in brackets.
toIp(a) == IF a.family = "unspec" THEN "" ELSE a.ip
toIpPort(a) ==
    CASE a.family = "v4" -> <<toIp(a), ":", toPort(a)>>
      [] a.family = "v6" -> <<"[", toIp(a), "]:", toPort(a)>>
      [] a.family = "unspec" -> <<>>

isSelfConnect(a, b) ==
    /\ a.family = b.family /\ a.family \in {"v4", "v6"}
    /\ a.port = b.port
    /\ a.ip = b.ip

\* The entries of getaddrinfo() that resolve() can use.
Usable(ai) == \/ ai.family = "v4" /\ ai.length >= Size4
              \/ ai.family = "v6" /\ ai.length >= Size6

\* Mutant: the loop goes on to the last one.
FirstUsableBug(infos) == SelectLastInSeq(infos, Usable)

FirstUsable(infos) == SelectInSeq(infos, Usable)

-----------------------------------------------------------------------------
AddrInit ==
    /\ addr = Sockaddr4("any", htons(0))
    /\ asked = [call |-> "ctor", port |-> 0, family |-> "v4", infos |-> <<>>]
    /\ ok = TRUE /\ error = NoError

\* InetAddress(port, loopbackOnly, ipv6), loopback() and any().
FromPort(p, loopback, family) ==
    /\ addr' = SockaddrOf(family, IF loopback THEN "loopback" ELSE "any", htons(p))
    /\ asked' = [call |-> "ctor", port |-> p, family |-> family, infos |-> <<>>]
    /\ UNCHANGED <<ok, error>>

tryParse(ip, p, family) ==
    /\ addr' = FromLiteral(ip, p, family)
    /\ ok' = isValid(addr')
    /\ asked' = [call |-> "parse", port |-> p, family |-> family, infos |-> <<ip>>]
    /\ UNCHANGED error

\* getLocalAddr(), getPeerAddr(): if the kernel does not answer the object is
\* all zeros with the length of the whole storage.
KernelAddr(known, ip, p, family) ==
    /\ addr' = IF known THEN SockaddrOf(family, ip, htons(p)) ELSE Zeroed(Storage)
    /\ asked' = [call |-> IF known THEN "ctor" ELSE "failed", port |-> p, family |-> family,
                 infos |-> <<>>]
    /\ UNCHANGED <<ok, error>>

\* Resolver::resolve(); `ret' is what getaddrinfo() returned.
resolve(ret, infos, p, family) ==
    LET at == FirstUsable(infos)
        fails(code) == ok' = FALSE /\ error' = code /\ UNCHANGED addr
    IN  /\ asked' = [call |-> "resolve", port |-> p, family |-> family, infos |-> infos]
        /\ \/ family = "other" /\ fails("EAI_FAMILY")
           \/ family # "other" /\ ret # NoError /\ fails(ret)
           \/ family # "other" /\ ret = NoError /\ at = 0 /\ fails("EAI_NONAME")
           \/ /\ family # "other" /\ ret = NoError /\ at > 0
              /\ addr' = SockaddrOf(infos[at].family, infos[at].ip, htons(p))
              /\ ok' = TRUE /\ error' = NoError

\* What getaddrinfo() may list: addresses of the family asked for, whole or
\* not, and entries of other families.
Infos(family) ==
    LET one == {ai \in [family : {"v4", "v6", "unix"}, ip : Ips4 \cup Ips6, length : {8, Size4, Size6}] :
                  /\ family \in {"v4", "v6"} => ai.family = family
                  /\ ai.family = "v4" => ai.ip \in Ips4 /\ ai.length # Size6
                  /\ ai.family = "v6" => ai.ip \in Ips6 /\ ai.length # 8
                  /\ ai.family = "unix" => ai.ip \in Ips6 /\ ai.length = 8}
    IN  IF family = "other" THEN {<<>>} ELSE UNION {[1..n -> one] : n \in 0..MaxInfos}

AddrNext ==
    \E p \in Ports :
      \/ \E family \in {"v4", "v6"}, loopback \in BOOLEAN : FromPort(p, loopback, family)
      \/ \E family \in {"v4", "v6"}, ip \in Ips4 \cup Ips6 \cup {"junk"} : tryParse(ip, p, family)
      \/ \E family \in {"v4", "v6"} :
           \E known \in BOOLEAN, ip \in IF family = "v4" THEN Ips4 ELSE Ips6 :
             KernelAddr(known, ip, p, family)
      \/ \E family \in {"unspec", "v4", "v6", "other"}, ret \in {NoError, "EAI_AGAIN"} :
           \E infos \in IF ret = NoError THEN Infos(family) ELSE {<<>>} :
             resolve(ret, infos, p, family)

-----------------------------------------------------------------------------
(* Properties.                                                             *)

\* A valid address is whole: its length is the one its family needs, so that
\* bind() and sendto() see all of it; and a literal of the other family or a
\* kernel that does not answer never makes a valid one.
ValidIsWhole ==
    /\ isValid(addr) => addr.length = IF addr.family = "v4" THEN Size4 ELSE Size6
    /\ isValid(addr) => IsLiteral(addr.ip, addr.family) \/ addr.ip \in {"any", "loopback"}
    /\ asked.call = "failed" => ~isValid(addr)

\* The port comes out as it was given, whichever way the address was made, the
\* printed address shows it, and parsing what was printed gives an address that
\* isSelfConnect() takes for the same.
AddressKept ==
    isValid(addr) /\ (asked.call = "resolve" => ok) =>
      /\ toPort(addr) = asked.port /\ Last(toIpPort(addr)) = asked.port
      /\ addr.ip \notin {"any", "loopback"} =>
           isSelfConnect(addr, FromLiteral(toIp(addr), toPort(addr), addr.family))

\* resolve() answers with the first address of an acceptable family, and only
\* with one of the family asked for; it reports an error exactly if it fails.
ResolveAnswersAsked ==
    asked.call = "resolve" =>
      /\ ok <=> error = NoError
      /\ ok => /\ asked.family # "unspec" => addr.family = asked.family
               /\ \E i \in DOMAIN asked.infos :
                    /\ Usable(asked.infos[i]) /\ asked.infos[i].ip = addr.ip
                    /\ \A j \in 1..(i - 1) : ~Usable(asked.infos[j])
\* An address is what its maker asked for: whole, with the port that was given,
\* and of the family looked up (InetAddress's constructors, Resolver::resolve).
AddressAsAsked == ValidIsWhole /\ AddressKept /\ ResolveAnswersAsked
=============================================================================
