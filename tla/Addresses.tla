---- MODULE Addresses ----
(* ip.hpp, ip.cpp and resolve.cpp: addresses as sequences of 4 or 16 bytes, endpoints, both wire
   formats, texts and order. A text is a sequence of numbers and of the four characters that
   endpoints look for. *)
EXTENDS Integers, Sequences, SequencesExt, FiniteSets

CONSTANT PortWord   \* 2^16

ASSUME AddressesAssumption == PortWord \in Nat \ {0}

Dot == -1
Colon == -2
OpenBracket == -3
CloseBracket == -4

\* A result: the values there are, {} when the code throws.
Throwing == {}
----
is_ipv4(a) == Len(a) = 4
is_ipv6(a) == Len(a) = 16

\* operator< of addresses: by the family, then by the bytes.
AddressBelow(a, b) ==
  \/ Len(a) < Len(b)
  \/ /\ Len(a) = Len(b)
     /\ \E i \in DOMAIN a : a[i] < b[i] /\ SubSeq(a, 1, i - 1) = SubSeq(b, 1, i - 1)

EndpointBelow(x, y) ==
  \/ AddressBelow(x.ip, y.ip)
  \/ ~AddressBelow(y.ip, x.ip) /\ x.port < y.port

----
(* What kind of address it is. *)

\* The masks keep leading bits: a quotient of a byte.
is_private_address(a) ==
  IF is_ipv4(a) THEN a[1] = 10 \/ (a[1] = 172 /\ a[2] \div 16 = 1) \/ (a[1] = 192 /\ a[2] = 168)
                     \/ (a[1] = 169 /\ a[2] = 254)
  ELSE a[1] \div 2 = 126 \/ (a[1] = 254 /\ a[2] \div 64 = 2)

is_multicast_address(a) == IF is_ipv4(a) THEN a[1] \div 16 = 14 ELSE a[1] = 255

is_loopback_address(a) ==
  IF is_ipv4(a) THEN a[1] = 127 ELSE a[16] = 1 /\ \A i \in 1..15 : a[i] = 0

is_public_address(a) == ~(is_private_address(a) \/ is_multicast_address(a) \/ is_loopback_address(a))

is_ipv4_mapped_ipv6(a) == is_ipv6(a) /\ (\A i \in 1..10 : a[i] = 0) /\ a[11] = 255 /\ a[12] = 255

to_ipv4_address(a) ==
  IF is_ipv4(a) THEN {a} ELSE IF is_ipv4_mapped_ipv6(a) THEN {SubSeq(a, 13, 16)} ELSE Throwing

\* asio's addresses are bytes too, and stay what they are.
to_asio_address(a) == a

\* One that arrives mapped becomes one of the first family.
from_asio_address(b) == IF is_ipv4_mapped_ipv6(b) THEN SubSeq(b, 13, 16) ELSE b
----
(* Texts. *)

\* asio's text of an address: bytes between dots, or numbers between colons.
AddressText(a) ==
  LET between == IF is_ipv4(a) THEN Dot ELSE Colon
  IN  Tail(FlattenSeq([i \in DOMAIN a |-> <<between, a[i]>>]))

\* asio's make_address.
AddressOfText(t) ==
  LET bytes == SelectSeq(t, LAMBDA c : c >= 0)
  IN  IF Len(bytes) \in {4, 16} /\ AddressText(bytes) = t THEN {bytes} ELSE Throwing

\* boost's lexical_cast<uint16_t>.
PortOfText(t) == IF Len(t) = 1 /\ t[1] \in 0..PortWord - 1 THEN {t[1]} ELSE Throwing

\* endpoint::operator string
EndpointText(x) ==
  IF is_ipv6(x.ip) THEN <<OpenBracket>> \o AddressText(x.ip) \o <<CloseBracket, Colon, x.port>>
  ELSE AddressText(x.ip) \o <<Colon, x.port>>

Places(t, c) == {i \in DOMAIN t : t[i] = c}

\* Where the host ends and the port begins, 0 for no port; without the character looked for the text
\* is refused.
Split(t) ==
  IF t # <<>> /\ t[1] = OpenBracket
  THEN IF Places(t, CloseBracket) = {} THEN Throwing
       ELSE LET close == CHOOSE i \in Places(t, CloseBracket) : \A j \in Places(t, CloseBracket) : i <= j
            IN  IF close = Len(t) THEN {[host |-> SubSeq(t, 2, close - 1), port |-> {}]}
                ELSE IF t[close + 1] # Colon THEN Throwing
                ELSE {[host |-> SubSeq(t, 2, close - 1), port |-> {SubSeq(t, close + 2, Len(t))}]}
  ELSE IF Places(t, Colon) = {} THEN Throwing
  ELSE LET last == CHOOSE i \in Places(t, Colon) : \A j \in Places(t, Colon) : j <= i
       IN  {[host |-> SubSeq(t, 1, last - 1), port |-> {SubSeq(t, last + 1, Len(t))}]}

\* endpoint::from_string: without a port, it is 0.
from_string(t) ==
  {[ip |-> a, port |-> p] : a \in UNION {AddressOfText(s.host) : s \in Split(t)},
                            p \in UNION {IF s.port = {} THEN {0} ELSE UNION {PortOfText(q) : q \in s.port} : s \in Split(t)}}

\* resolve_string_to_ip_endpoints() of an address: a text without a port is refused.
ResolveText(t) ==
  {[ip |-> from_asio_address(a), port |-> p] :
      a \in UNION {AddressOfText(s.host) : s \in Split(t)},
      p \in UNION {UNION {PortOfText(q) : q \in s.port} : s \in Split(t)}}
----
(* raw::pack and unpack. *)

\* A number of the first family is packed from its lowest byte on.
PackAddress(a) == IF is_ipv4(a) THEN <<4>> \o Reverse(a) ELSE <<6>> \o a

\* The value and what is left of the stream.
UnpackAddress(t) ==
  IF t = <<>> THEN Throwing
  ELSE IF t[1] = 4 /\ Len(t) >= 5 THEN {[ip |-> Reverse(SubSeq(t, 2, 5)), rest |-> SubSeq(t, 6, Len(t))]}
  ELSE IF t[1] = 6 /\ Len(t) >= 17 THEN {[ip |-> SubSeq(t, 2, 17), rest |-> SubSeq(t, 18, Len(t))]}
  ELSE Throwing

PackEndpoint(x) == PackAddress(x.ip) \o <<x.port % 256, x.port \div 256>>

UnpackEndpoint(t) ==
  {[ip |-> u.ip, port |-> u.rest[1] + 256 * u.rest[2]] : u \in {v \in UnpackAddress(t) : Len(v.rest) >= 2}}

\* legacy_endpoint: the older format, which has no family.
ToLegacy(x) == {[ip |-> a, port |-> x.port] : a \in to_ipv4_address(x.ip)}
PackLegacy(x) == Reverse(x.ip) \o <<x.port % 256, x.port \div 256>>
UnpackLegacy(t) == IF Len(t) < 6 THEN Throwing ELSE {[ip |-> Reverse(SubSeq(t, 1, 4)), port |-> t[5] + 256 * t[6]]}
----
(* Properties. *)

\* Both readers read an endpoint's text as this endpoint: colons of an address are not taken for the
\* port's.
EndpointReturns(x) ==
  /\ from_string(EndpointText(x)) = {x}
  /\ ResolveText(EndpointText(x)) = {[x EXCEPT !.ip = from_asio_address(@)]}

\* What was packed is unpacked, in the format of both families and, where it can be, in the older
\* one.
EndpointIsUnpacked(x) ==
  /\ UnpackEndpoint(PackEndpoint(x)) = {x}
  /\ UNION {UnpackLegacy(PackLegacy(l)) : l \in ToLegacy(x)} = ToLegacy(x)
  /\ (ToLegacy(x) = {}) <=> (is_ipv6(x.ip) /\ ~is_ipv4_mapped_ipv6(x.ip))

\* The order is one: of two endpoints one is below the other, or they are equal.
EndpointsAreOrdered(x, y) ==
  Cardinality({r \in {"below", "equal", "above"} :
      CASE r = "below" -> EndpointBelow(x, y)
        [] r = "equal" -> x = y
        [] r = "above" -> EndpointBelow(y, x)}) = 1

\* The blocks of private addresses, as their first and last addresses.
PrivateBlocks ==
  {<<<<10, 0, 0, 0>>, <<10, 255, 255, 255>>>>, <<<<172, 16, 0, 0>>, <<172, 31, 255, 255>>>>,
   <<<<192, 168, 0, 0>>, <<192, 168, 255, 255>>>>, <<<<169, 254, 0, 0>>, <<169, 254, 255, 255>>>>}

\* The masks of the private blocks are their ranges, in the order of addresses.
PrivateIsItsRange(a) ==
  is_ipv4(a) => (is_private_address(a)
                   <=> \E b \in PrivateBlocks : ~AddressBelow(a, b[1]) /\ ~AddressBelow(b[2], a))

\* An address has at most one kind; one from the network is never a mapped one.
KindIsOne(a) ==
  LET came == from_asio_address(to_asio_address(a))
  IN  /\ Cardinality({k \in {"private", "multicast", "loopback", "public"} :
             CASE k = "private" -> is_private_address(a)
               [] k = "multicast" -> is_multicast_address(a)
               [] k = "loopback" -> is_loopback_address(a)
               [] k = "public" -> is_public_address(a)}) = 1
      /\ ~is_ipv4_mapped_ipv6(came)
      /\ \A v \in to_ipv4_address(a) : came = v

----
(* url.cpp: texts of urls and the objects that hold them. A copy of a url makes its own
   implementation, but those made of nothing or moved from point to the program's one null url, and
   setters write through the pointer. A text is a sequence of numbers (letters, digits) and of the
   characters below. *)

CONSTANTS
    UrlPortWord,   \* 2^16
    UrlObjects,    \* the objects of type mutable_url
    UrlValues,     \* the protocols that are set
    MaxUrls        \* bound: how many implementations are made

ASSUME UrlsAssumption == UrlPortWord \in Nat \ {0} /\ MaxUrls \in Nat

ColonMark == -1
Slash == -2
At == -3
Question == -4
----
\* std::getline(): what is before the mark, and what is after it.
Line(t, mark) ==
  LET at == {i \in DOMAIN t : t[i] = mark}
      first == CHOOSE i \in at : \A j \in at : i <= j
  IN  IF at = {} THEN [line |-> t, rest |-> <<>>]
      ELSE [line |-> SubSeq(t, 1, first - 1), rest |-> SubSeq(t, first + 1, Len(t))]

Has(t, mark) == \E i \in DOMAIN t : t[i] = mark

\* to_uint64() of a text of one number, cast to 16 bits: {} when it throws.
PortOf(t) == IF Len(t) = 1 /\ t[1] >= 0 THEN {t[1] % UrlPortWord} ELSE {}

\* What precedes the first '@' of the whole text is user and password; the password ends at a second
\* colon.
Credentials(whole, t) ==
  LET l == Line(t, At)
      user == Line(l.line, ColonMark)
  IN  IF ~Has(whole, At) THEN [user |-> {}, pass |-> {}, rest |-> t]
      ELSE IF Has(l.line, ColonMark)
           THEN [user |-> {user.line}, pass |-> {Line(user.rest, ColonMark).line}, rest |-> l.rest]
           ELSE [user |-> {l.line}, pass |-> {}, rest |-> l.rest]

\* url_impl::parse(): {} when the port is no number.  A query in the path is dropped.
Parse(t) ==
  LET proto == Line(t, ColonMark)
      c == Credentials(t, Line(Line(proto.rest, Slash).rest, Slash).rest)
      hostPort == Line(c.rest, Slash)
      host == Line(hostPort.line, ColonMark)
      ports == PortOf(host.rest)
  IN  IF Has(hostPort.line, ColonMark) /\ ports = {} THEN {}
      ELSE {[proto |-> proto.line, user |-> c.user, pass |-> c.pass,
             host |-> {host.line},
             port |-> IF Has(hostPort.line, ColonMark) THEN ports ELSE {},
             path |-> {<<Slash>> \o Line(hostPort.rest, Question).line}]}

\* The one text of {} or {text}, after what precedes it.
Given(before, option) == IF option = {} THEN <<>> ELSE before \o CHOOSE x \in option : TRUE

\* url::operator string
Text(u) ==
  u.proto \o <<ColonMark, Slash, Slash>>
    \o (IF u.user = {} THEN <<>> ELSE Given(<<>>, u.user) \o Given(<<ColonMark>>, u.pass) \o <<At>>)
    \o Given(<<>>, u.host)
    \o Given(<<ColonMark>>, {<<p>> : p \in u.port})
    \o Given(<<>>, u.path)
----
(* parse_urlencoded_params() of http_connection.cpp, on characters' codes. *)

EqualSign == 61
Ampersand == 38
Percent == 37
PlusMark == 43
Space == 32

\* from_hex()
HexValue(c) == IF c >= 97 THEN c - 87 ELSE c - 48
HexDigit(n) == IF n < 10 THEN n + 48 ELSE n + 87

\* One character or an escape of three: appended to the key before an equals sign, else to the
\* value; an ampersand ends it.
ReadChar(f, s, i) ==
  LET c == f[i]
      escaped == c = Percent
      read == IF escaped THEN 16 * HexValue(f[i + 1]) + HexValue(f[i + 2])
              ELSE IF c = PlusMark /\ ~s.inKey THEN Space ELSE c
      next == IF escaped THEN i + 3 ELSE i + 1
  IN  IF i < s.next THEN s
      ELSE IF s.inKey /\ c = EqualSign THEN [s EXCEPT !.inKey = FALSE, !.next = next]
      ELSE IF s.inKey THEN [s EXCEPT !.now.key = Append(@, read), !.next = next]
      ELSE IF c = Ampersand
           THEN [next |-> next, inKey |-> TRUE, now |-> [key |-> <<>>, val |-> <<>>], read |-> Append(s.read, s.now)]
      ELSE [s EXCEPT !.now.val = Append(@, read), !.next = next]

\* There are as many parameters as equals signs.
ReadParams(f) ==
  LET start == [next |-> 1, inKey |-> TRUE, now |-> [key |-> <<>>, val |-> <<>>], read |-> <<>>]
      end == FoldLeft(LAMBDA s, i : ReadChar(f, s, i), start, [i \in DOMAIN f |-> i])
  IN  IF end.inKey THEN end.read ELSE Append(end.read, end.now)

\* What a browser makes of a form.
EncodedText(t) ==
  FlattenSeq([i \in DOMAIN t |-> IF t[i] \in {EqualSign, Ampersand, Percent, PlusMark}
                                 THEN <<Percent, HexDigit(t[i] \div 16), HexDigit(t[i] % 16)>>
                                 ELSE <<t[i]>>])
EncodedParams(params) ==
  FlattenSeq([i \in DOMAIN params |->
      (IF i = 1 THEN <<>> ELSE <<Ampersand>>) \o EncodedText(params[i].key) \o <<EqualSign>>
        \o EncodedText(params[i].val)])
----
(* The objects. *)

VARIABLES
    impls,    \* the implementations that were made: number -> its protocol; 1 is the null url
    my,       \* per object: its implementation
    meant     \* per object: the protocol it was given last, {} when it was made of nothing

urlVars == <<impls, my, meant>>

\* The domain of every variable: each url points to an implementation, never to none.
UrlTypeOK ==
  /\ my \in [UrlObjects -> DOMAIN impls]
  /\ \A i \in DOMAIN impls : impls[i] \in UrlValues \union {"null"}
  /\ meant \in [UrlObjects -> {{}} \union {{v} : v \in UrlValues \union {"null"}}]

UrlInit == impls = <<"null">> /\ my = [u \in UrlObjects |-> 1] /\ meant = [u \in UrlObjects |-> {}]

\* mutable_url( text ), assigned.
UrlRead(u, v) ==
  /\ Len(impls) < MaxUrls /\ impls' = Append(impls, v) /\ my' = [my EXCEPT ![u] = Len(impls) + 1]
  /\ meant' = [meant EXCEPT ![u] = {v}]

\* A copy has its own implementation, also that of a null url.
UrlCopy(u, w) ==
  /\ u # w /\ Len(impls) < MaxUrls /\ impls' = Append(impls, impls[my[w]])
  /\ my' = [my EXCEPT ![u] = Len(impls) + 1] /\ meant' = [meant EXCEPT ![u] = {impls[my[w]]}]

\* A move leaves the null url behind.
UrlMove(u, w) ==
  /\ u # w /\ my' = [my EXCEPT ![u] = my[w], ![w] = 1]
  /\ meant' = [meant EXCEPT ![u] = meant[w], ![w] = {}] /\ UNCHANGED impls

\* A setter.
UrlSet(u, v) ==
  /\ impls' = [impls EXCEPT ![my[u]] = v]
  /\ meant' = [meant EXCEPT ![u] = IF my[u] = 1 THEN {} ELSE {v}]
  /\ UNCHANGED my

UrlNext ==
  \E u \in UrlObjects :
      \/ \E v \in UrlValues : UrlRead(u, v) \/ UrlSet(u, v)
      \/ \E w \in UrlObjects : UrlCopy(u, w) \/ UrlMove(u, w)
----
(* Properties. *)

\* A url that was read or copied is what its own setters made of it, unlike those that share the
\* null url.
UrlIsItsOwn ==
  \A u \in UrlObjects :
      /\ meant[u] # {} => impls[my[u]] \in meant[u]
      /\ my[u] # 1 => \A w \in UrlObjects \ {u} : my[w] # my[u]

\* A text read once is read the same after it was printed, though port and arguments may have been
\* cut.
TextStaysRead(t) == \A u \in Parse(t) : Parse(Text(u)) = {u}

\* The parameters of a form come back, whichever of the marks are in them.
ParamsReturn(params) == ReadParams(EncodedParams(params)) = params
====
