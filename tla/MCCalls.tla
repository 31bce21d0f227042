---- MODULE MCCalls ----
(* JsonConnection, RpcState, and components that have nothing to do with them, on small instances:
   the first state chooses one, and the others stay as they are, so that the states of the run are
   the sum of theirs. The input of a pure algorithm is chosen in the first state. *)
EXTENDS JsonConnection, RpcState, Deflate, Cryptography, Filesystem, Loggers,
        Addresses, HttpServer

CONSTANTS c1, c2, none

VARIABLES subject, input

MCCallers == {c1, c2}

allVars == <<subject, input, search, jcVars, rsVars, zsVars, fsVars, lgVars, urlVars, htVars>>

Subjects == {"json_connection", "rpc::state",
             "deflate",
             "zlib",
             "keys",
             "files", "paths",
             "ciphers",
             "loggers", "chunks",
             "addresses",
             "urls", "params",
             "url_objects",
             "http"}
----
(* Small instances. *)

MCWindowTexts == UNION {[1..n -> {0, 1}] : n \in {0, 3, 6, 9}}
MCSecrets == 1..10
MCExtended == {Extended(k, c, i, f, d) : k \in MCSecrets, c \in {0, 5}, i \in {0, 3}, f \in {0, 9}, d \in 0..3}

MCPlaces == UNION {[1..n -> {"a", "b", ".", ".."}] : n \in 0..3}

MCWordBits == {0, 1}
MCKeys == {<<{}>>, <<{0}>>, <<{0, 1}, {1}>>, <<{1}, {0}, {0, 1}, {}>>}
MCModes == {"ECB", "CBC", "CFB"}
MCBlocks == {<<{}, {}>>, <<{0}, {1}>>, <<{0, 1}, {}>>, <<{1}, {0, 1}>>}
MCBlockTexts == UNION {[1..n -> MCBlocks] : n \in 1..3}
MCInitial == [P |-> [i \in 0..5 |-> CHOOSE w \in CipherWords : w = {b \in {0, 1} : (i \div (b + 1)) % 2 = 1}],
              S |-> [w \in CipherWords |-> IF w = {} THEN {1} ELSE IF w = {1} THEN {0, 1} ELSE {1} \ w]]

MCLogger(name, parent, level, appenders) ==
  [name |-> name, parent |-> parent, level |-> level, appenders |-> appenders]
MCLogConfigs == {
    [appenders |-> <<"x">>, broken |-> FALSE, loggers |-> <<MCLogger("default", {}, {0}, <<"x">>)>>],
    [appenders |-> <<"x", "y">>, broken |-> FALSE,
     loggers |-> <<MCLogger("a", {"default"}, {2}, <<"y", "z">>), MCLogger("default", {}, {}, <<"x">>)>>],
    [appenders |-> <<"x", "y">>, broken |-> TRUE, loggers |-> <<MCLogger("default", {}, {}, <<"x">>)>>]}

MCAddresses ==
  {<<b, c, 0, d>> : b \in {0, 9, 10, 11, 127, 169, 172, 192, 224, 255}, c \in {0, 15, 16, 31, 32, 168, 254}, d \in {0, 1}}
    \union {[i \in 1..16 |-> IF i = 1 THEN b ELSE IF i \in {11, 12} THEN c ELSE IF i = 16 THEN d ELSE 0] :
              b \in {0, 252, 254, 255}, c \in {0, 255}, d \in {0, 1}}
MCParamTexts == {<<>>} \union {<<c>> : c \in {97, 61, 38, 37, 43, 32}} \union {<<97, 37>>, <<61, 97>>}
MCParams == [key : MCParamTexts, val : MCParamTexts]
MCUrlValues == {"http", "file"}
MCEndpoints ==
  [ip : {<<10, 0, 0, 1>>, <<1, 0, 0, 10>>} \union {[i \in 1..16 |-> IF i \in {11, 12} THEN c ELSE IF i = 16 THEN d ELSE 0] :
              c \in {0, 255}, d \in {0, 1}},
   port : {0, 1, 258, 65535}]

MCSizes == UNION {[1..n -> 0..2] : n \in 1..7}
----
InputInit ==
  \/ subject = "deflate" /\ \/ \E t \in MCWindowTexts, how \in {"lazy", "greedy", "fast"} : input = <<"text", t, how>>
                            \/ \E f \in [1..5 -> 0..4] : input = <<"frequencies", f>>
                            \/ \E z \in MCSizes : input = <<"sizes", z>>
  \/ subject = "keys" /\ \/ \E k \in MCSecrets, o \in 0..12 : input = <<"child", k, o>>
                         \/ \E x \in MCExtended, i \in -2..3 : input = <<"extended", x, i>>
                         \/ \E a, b \in MCSecrets, ca, cb \in 0..1, h \in 1..10, i \in 0..1 :
                               input = <<"blind", Extended(a, ca, 0, 0, 0), Extended(b, cb, 0, 0, 0), h, i>>
  \/ subject = "paths" /\ \E f \in MCPlaces, t \in MCPlaces : input = <<f, t>>
  \/ subject = "ciphers" /\ \/ \E key \in MCKeys, mode \in MCModes, t \in MCBlockTexts :
                                  input = <<"modes", key, mode, t>>
                            \/ \E key \in MCKeys, t \in MCBlockTexts, cut, other \in 0..3 :
                                  cut <= Len(t) /\ other <= Len(t) /\ input = <<"pieces", key, t, cut, other>>
                            \/ \E key \in MCKeys, n \in 0..3 : \E w \in [1..n -> CipherWords] : input = <<"file", key, w>>
  \/ subject = "chunks" /\ \E n \in 0..14 : input = [i \in 1..n |-> i]
  \/ subject = "addresses" /\ \/ \E x, y \in MCEndpoints : input = <<"pair", x, y>>
                              \/ \E a \in MCAddresses : input = <<"kind", a>>
  \/ subject = "params" /\ \E n \in 0..2 : \E q \in [1..n -> MCParams] : input = q
  \/ subject = "urls" /\ \E n \in 0..4 : \E t \in [1..n -> {1, 6, -1, -2, -3, -4}] : input = t
  \/ subject \notin {"deflate", "keys", "paths", "ciphers", "chunks", "addresses", "urls", "params"} /\ input = <<>>

MCInit ==
  /\ subject \in Subjects /\ InputInit /\ ZsInit
  /\ search = DeflateBegin(IF subject = "deflate" /\ input[1] = "text" THEN input[2] ELSE <<>>)
  /\ FsInit /\ (subject = "files" \/ disk = {})
  /\ LgInit /\ UrlInit /\ HtInit /\ JcInit /\ RsInit

\* A step of one, while the others rest.
Only(s, A) ==
  /\ subject = s /\ A /\ UNCHANGED <<subject, input>>
  /\ IF s = "json_connection" THEN TRUE ELSE UNCHANGED jcVars
  /\ IF s = "rpc::state" THEN TRUE ELSE UNCHANGED rsVars
  /\ IF s = "deflate" THEN TRUE ELSE UNCHANGED search
  /\ IF s = "zlib" THEN TRUE ELSE UNCHANGED zsVars
  /\ IF s = "files" THEN TRUE ELSE UNCHANGED fsVars
  /\ IF s = "loggers" THEN TRUE ELSE UNCHANGED lgVars
  /\ IF s = "url_objects" THEN TRUE ELSE UNCHANGED urlVars
  /\ IF s = "http" THEN TRUE ELSE UNCHANGED htVars

\* The callers are interchangeable: the second calls after the first, which may have given
\* a notice that it did not flush.
CallersInTurn ==
  /\ op'[c2] \in {"none", "call"} /\ (cpc'[c2] # "idle" => cpc'[c1] # "idle" /\ op'[c1] # "notice")
\* The peer sends until its input has ended; MaxIn messages if the output stays whole, fewer if it
\* breaks.
PeerInTurn ==
  /\ sent' > sent => /\ loop # "ended" /\ dtor # "gone" /\ \A i \in DOMAIN in : in[i].type \notin {"broken", "eof"}
                     /\ sent' = MaxIn => outOk
  /\ outOk /\ ~outOk' /\ dtor' = dtor => dtor # "gone" /\ sent < MaxIn
RpcInTurn == rpc'[c2] # "idle" => rpc'[c1] # "idle"

MCNext ==
  \/ Only("json_connection", JcNext /\ CallersInTurn /\ PeerInTurn) \/ Only("rpc::state", RsNext /\ RpcInTurn)
  \/ Only("deflate", input[1] = "text" /\ DfNext(input[3])) \/ Only("zlib", ZsNext)
  \/ Only("files", FsNext)
  \/ Only("loggers", LgNext)
  \/ Only("url_objects", UrlNext)
  \/ Only("http", HtNext)

\* JcFair and RsFair, for the one that runs; and HttpServer's.
MCFair ==
  /\ WF_allVars(Only("json_connection", Read \/ LoopFails))
  /\ WF_allVars(Only("json_connection", \E k \in DOMAIN handlers : Handle(k)))
  /\ \A c \in Callers : WF_allVars(Only("json_connection", Resume(c)))
  /\ WF_allVars(Only("rpc::state", HandleOne))
  /\ \A c \in RpcCallers : WF_allVars(Only("rpc::state", CallStep(c)))
  \* HttpServer: its fibers run, and a handler returns.
  /\ \A c \in Clients : WF_allVars(Only("http", ClientStep(c)))
  /\ WF_allVars(Only("http", Arrive)) /\ WF_allVars(Only("http", StartTask))
  /\ WF_allVars(Only("http", ~listening /\ AcceptFails))
  /\ \A k \in 1..MaxConnections : WF_allVars(Only("http", k \in DOMAIN tasks /\ TaskRuns(k)))
  /\ WF_allVars(Only("http", DestroyStep))

MCSpec == MCInit /\ [][MCNext]_allVars /\ MCFair
----
(* The properties of the algorithms, of the input at hand. *)

IsDeflate(kind) == subject = "deflate" /\ input[1] = kind

\* What tdefl_compress() writes expands to what it was given.
MatchesExpand == IsDeflate("text") => ExpandedIs(input[2])

\* The codes of tdefl_optimize_huffman_table() can be told apart, and the tables of
\* tinfl_decompress() take them.
CodesAreTold == IsDeflate("frequencies") => CodesAreTaken(input[2])

\* The lengths of the codes that tdefl_start_dynamic_block() packs arrive as they were.
SizesArrive == IsDeflate("sizes") => SizesReturn(input[2])

IsKeys(kind) == subject = "keys" /\ input[1] = kind

\* child() of a public key (elliptic_common.cpp) is the public key of its secret's.
PublicChildIsTwin == IsKeys("child") => ChildrenAreTwins(input[2], input[3])

\* derive_child() of an extended private key and of its public part stay twins.
DerivedIsTwin == IsKeys("extended") => DerivedAreTwins(input[2], input[3])

\* from_base58() of an extended key reads what to_base58() wrote, and of no other kind.
KeyTextIsRead == IsKeys("extended") => TextsReturn(input[2])

\* What blind_hash(), blind_sign() and unblind_signature() make is a signature by the
\* key blind_public_key() names.
BlindIsSigned == IsKeys("blind") => UnblindedIsSigned(input[2], input[3], input[4], input[5])

\* make_relative() of filesystem.cpp leads from the one path to the other.
RelativeIsRight == subject = "paths" => RelativeLeadsTo(input[1], input[2])

IsCiphers(kind) == subject = "ciphers" /\ input[1] = kind
MCSchedules(key) == {Schedule(MCInitial, key)}

\* blowfish: decrypt() undoes encrypt() in each mode.
CipherIsUndone ==
  IsCiphers("modes") => \A k \in MCSchedules(input[2]) : DecryptedReturns(k, input[3], <<{1}, {0}>>, input[4])

\* blowfish: a damaged block spoils itself and the next one at most.
DamageIsContained ==
  IsCiphers("modes") => \A k \in MCSchedules(input[2]), i \in DOMAIN input[4], b \in MCBlocks :
      DamageStays(k, input[3], <<{1}, {0}>>, input[4], i, b)

\* aes_encoder and aes_decoder: a stream in some pieces is decoded in others.
StreamIsWhole ==
  IsCiphers("pieces") => \A k \in MCSchedules(input[2]) : PiecesJoin(k, input[3], input[4], input[5])

\* aes_load() returns what aes_save() wrote, and nothing of a file that was changed.
SealedIsKept ==
  IsCiphers("file") => \A k \in MCSchedules(input[2]), other \in MCSchedules(<<{1}>>), b \in MCBlocks :
      FileIsSealed(k, <<{0}, {}>>, input[3], other, b)

\* gelf_appender::log(): the datagrams of a long message give it back in any order.
ChunkedIsWhole == subject = "chunks" => ChunksReturn(input)

\* endpoint::from_string() and resolve() read what endpoint prints (ip.cpp, resolve.cpp).
EndpointsReturn ==
  subject = "addresses" /\ input[1] = "pair" => EndpointReturns(input[2])

\* raw::unpack() of ip.hpp reads what pack() wrote, in the older format too.
EndpointsAreUnpacked ==
  subject = "addresses" /\ input[1] = "pair" => EndpointIsUnpacked(input[2])

\* operator< of ip.cpp is an order that agrees with operator==.
EndpointsAreCompared ==
  subject = "addresses" /\ input[1] = "pair" => EndpointsAreOrdered(input[2], input[3])

\* is_private_address(), is_multicast_address() and is_public_address() exclude each
\* other, and the masks are the ranges they stand for.
KindsAreRight ==
  subject = "addresses" /\ input[1] = "kind" => PrivateIsItsRange(input[2]) /\ KindIsOne(input[2])

\* parse_urlencoded_params() reads what a form was encoded to.
ParamsAreRead == subject = "params" => ParamsReturn(input)

\* url_impl::parse(): a text that is read stays the same url when it is printed.
UrlsStayRead == subject = "urls" => TextStaysRead(<<7, -1, -2, -2>> \o input)

\* What was compressed, enciphered, signed or printed is read back as it was.
ValuesReturn ==
  /\ MatchesExpand /\ CodesAreTold /\ SizesArrive
  /\ PublicChildIsTwin /\ DerivedIsTwin /\ KeyTextIsRead /\ BlindIsSigned
  /\ CipherIsUndone /\ DamageIsContained /\ StreamIsWhole /\ SealedIsKept
  /\ RelativeIsRight /\ ChunkedIsWhole /\ UrlsStayRead /\ ParamsAreRead
  /\ EndpointsReturn /\ EndpointsAreUnpacked /\ EndpointsAreCompared /\ KindsAreRight

\* Files, loggers and urls that are copied, moved, configured anew or dropped keep what is theirs:
\* a file one owner, a logger what the last configuration said, a url its own parts.
HoldersKeepTheirs ==
  /\ FsTypeOK /\ NameHasOneOwner /\ NothingStays /\ OneHoldsTheFile /\ OpenIsHeld
  /\ LgTypeOK /\ ConfiguredAsTold /\ LevelIsRespected /\ FormerRest
  /\ UrlTypeOK /\ UrlIsItsOwn

\* Every call over a connection returns: of json_connection, which answers each once, of rpc::state,
\* and of HTTP.
CallsReturn ==
  /\ []AnsweredOnce
  /\ DecidedCallReturns /\ AnsweredCallReturns /\ RequestReturns /\ DestructorReturns
====
