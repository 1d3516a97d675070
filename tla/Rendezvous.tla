----------------------------- MODULE Rendezvous ------------------------------
(***************************************************************************)
(* How a client finds the server it was told about: the server's options   *)
(* become an identity, a record in the DHT and the connection string it    *)
(* prints (holesail.cpp, server.cpp); somebody gives that string, or what  *)
(* else of it has become known, to a client or to a lookup, which must     *)
(* arrive at the same identity and the same endpoint (client.cpp).         *)
(*                                                                         *)
(* The DHT is external: a query for the server's public key is answered    *)
(* with its record or with nothing.  One client or one lookup runs beside  *)
(* the server: they do not see each other.                                 *)
(***************************************************************************)
EXTENDS CommandLine, Record

CONSTANTS
    RandomKey,      \* random_hex32() as a key text
    RandomSeed,     \* random_hex32() as a seed
    ServerLines,    \* the command lines that servers are started with
    ClientExtras,   \* what may stand before and after a client's key
    DefaultPort     \* kDefaultPort of the client: 8989

ASSUME RandomAssumption ==
    /\ RandomKey \in Chosen
    /\ RandomSeed \in RawKeys \cap DOMAIN PublicKey
    /\ \A k \in Chosen : Digest[k] # RandomSeed /\ Digest[k] \in DOMAIN PublicKey

\* Command lines are finite.  A server is started with a key that somebody
\* chose, on a port that can be written; the text of a host is not empty (an
\* empty value is Empty).
ASSUME LinesAssumption ==
    /\ DefaultHost \in Seq(Character) \ {<<>>}
    /\ \A argv \in ServerLines : Len(argv) \in Nat
    /\ \A argv \in ServerLines : \A v \in Values(argv) :
          /\ "text" \in DOMAIN v => v.text.key \in Chosen \cup {<<>>}
          /\ "num" \in DOMAIN v /\ v.num \in Ports => v.num \in DOMAIN Decimal
          /\ "host" \in DOMAIN v => v.host \in Seq(Character) \ {<<>>}

VARIABLES
    server,   \* the running server, in a set of at most one
    client,   \* the running client, in a set of at most one
    found     \* the answer of a lookup, in a set of at most one

vars == <<server, client, found>>

Init == server = {} /\ client = {} /\ found = {}

-----------------------------------------------------------------------------
(* holesail.cpp                                                            *)

\* validate_opts: the options that make the constructor throw.
Throws(options) ==
    \/ ~options.server /\ options.key = {}
    \/ Bare(<<>>) \in options.key
    \/ options.server /\ options.host = {}

\* derive: the key, whether the link is secure, and the seed (in a set, empty
\* where the server is to take a random one).  The string decides about
\* secure first; the option only where it says nothing.
Derive(options) ==
    LET parsed == ParseUrl(ValueOr(options.key, Bare(<<>>)))
        secure == parsed.secure \/ TRUE \in options.secure
        key    == IF options.server /\ parsed.key = <<>> /\ secure
                  THEN RandomKey ELSE parsed.key
    IN  [secure |-> secure,
         key    |-> key,
         seed   |-> IF (IF options.server THEN key # <<>> ELSE secure)
                    THEN {ToHex(Sha256(key))} ELSE {}]

\* Mutant: the key that was given is advertised in public mode too.
InfoKeyGiven(derived, underlying) ==
    IF derived.key # <<>> THEN derived.key ELSE underlying

\* info().key: the key itself for a secure link, else what the server reports,
\* which for a public one is its public key.
InfoKey(derived, underlying) ==
    IF derived.key # <<>> /\ derived.secure THEN derived.key ELSE underlying

-----------------------------------------------------------------------------
(* The server                                                              *)

\* The constructor: the seed that was derived, or a random one.
Seed(derived) ==
    CHOOSE s \in FromHex(ValueOr(derived.seed, ToHex(RandomSeed))) : TRUE

\* HolesailServer::key(): what it reports as its key.
OwnKey(secure, seed) == Z32Encode(IF secure THEN seed ELSE KeyPair(seed))

\* What there is to know of a server that listens: its identity, the record it
\* publishes, and the string that info() gives and render_started prints.
Started(options) ==
    LET derived == Derive(options)
        seed    == Seed(derived)
        udp     == ValueOr(options.udp, FALSE)
        port    == ValueOr(options.port, 0)
        host    == ValueOr(options.host, DefaultHost)
        key     == InfoKey(derived, OwnKey(derived.secure, seed))
    IN  [secure |-> derived.secure,
         key    |-> derived.key,
         public |-> KeyPair(seed),
         udp    |-> udp,
         port   |-> port,
         host   |-> host,
         record |-> EncodeRecord(host, IF udp THEN {TRUE} ELSE {}, port),
         url    |-> MakeUrl(derived.secure, key)]

\* holesail --live ...: run() up to the server that listens.  A command line
\* that is refused, or is not a server's, starts nothing.
Live(argv) ==
    LET args    == ParseArgv(argv)
        options == ServerOptions(args)
    IN  /\ server = {}
        /\ Validate(args) = {} /\ Dispatch(args) = "server"
        /\ ~Throws(options)
        /\ server' = {Started(options)}
        /\ UNCHANGED <<client, found>>

\* Mutant: the firewall compares nothing.
AdmitsAll(srv, identity) == TRUE

\* firewall_cb, which only a secure server installs.
Admits(srv, identity) == srv.secure => identity = srv.public

\* What the DHT may answer about a public key: nothing, or the record of the
\* server that has it.
Answers(public) ==
    {<<>>} \cup {srv.record : srv \in {s \in server : s.public = public}}

-----------------------------------------------------------------------------
(* The client                                                              *)

\* The constructor of HolesailClient: the public key it dials, in a set that
\* is empty for an invalid key, and the identity it dials with.  The key pair
\* of a secure link is both; otherwise the identity is the DHT's own.
Target(derived) ==
    LET pair == KeyPair(Sha256(derived.key))
        raw  == {r \in Z32Decode(derived.key) : Len(r) = KeyBytes}
    IN  IF derived.secure
        THEN [public |-> {pair}, identity |-> pair]
        ELSE [public |-> raw, identity |-> Nobody]

\* resolve: the options, then the record, then the defaults.
Resolve(options, record) ==
    LET host(r) == IF r.host = <<>> THEN {} ELSE {r.host}
        Prefer(own, S) == IF own # {} THEN own ELSE S
        of(r) == [port |-> ValueOr(Prefer(options.port, r.port), DefaultPort),
                  host |-> ValueOr(Prefer(options.host, host(r)), DefaultHost),
                  udp  |-> ValueOr(Prefer(options.udp, r.udp), FALSE)]
    IN  of(ValueOr(record, NoRecord))

\* holesail --connect ...: run() up to the listening proxy, or to the refusal
\* of an invalid key, which dials nothing.
Connect(argv) ==
    LET args    == ParseArgv(argv)
        options == ClientOptions(args)
        derived == Derive(options)
        target  == Target(derived)
    IN  /\ client = {} /\ found = {}
        /\ Validate(args) = {} /\ Dispatch(args) = "client"
        /\ ~Throws(options)
        /\ \E heard \in Answers(ValueOr(target.public, Nobody)) :
              client' = {[given    |-> ValueOr(options.key, Bare(<<>>)),
                          options  |-> options,
                          secure   |-> derived.secure,
                          public   |-> target.public,
                          identity |-> target.identity,
                          heard    |-> heard,
                          resolved |-> Resolve(options, DecodeRecord(heard))]}
        /\ UNCHANGED <<server, found>>

-----------------------------------------------------------------------------
(* lookup                                                                  *)

\* Holesail::lookup and run_lookup: the key is read as a seed and as a public
\* key, and the record of the first reading is preferred.  A key that is not
\* one asks nothing.
Lookup(argv) ==
    LET args   == ParseArgv(argv)
        given  == TextOf(ValueOr(Str(args, "lookup"), Empty))
        parsed == ParseUrl(given)
        arg    == IF parsed.secure THEN Z32Encode(Sha256(parsed.key)) ELSE parsed.key
        raw    == {r \in Z32Decode(arg) : Len(r) = KeyBytes}
        pair   == {KeyPair(r) : r \in raw}
        Reported(r) == [host |-> r.host, port |-> ValueOr(r.port, 0),
                        udp |-> ValueOr(r.udp, FALSE)]
    IN  /\ client = {} /\ found = {}
        /\ Validate(args) = {} /\ Dispatch(args) = "lookup"
        /\ \E primary  \in Answers(ValueOr(pair, Nobody)),
              fallback \in Answers(ValueOr(raw, Nobody)) :
              LET first  == DecodeRecord(primary)
                  record == IF first # {} THEN first ELSE DecodeRecord(fallback)
              IN  found' = {[given  |-> given,
                             secure |-> parsed.secure,
                             asked  |-> pair \cup raw,
                             heard  |-> primary # <<>> \/ fallback # <<>>,
                             record |-> {Reported(r) : r \in record}]}
        /\ UNCHANGED <<server, client>>

-----------------------------------------------------------------------------

\* The strings somebody may have: the one the server printed, the bare key in
\* it, its public key, which the DHT knows, bare or made to look like either
\* kind of string, and another key.
Known(srv) ==
    LET public == Z32Encode(srv.public)
    IN  {srv.url, Bare(srv.url.key), Bare(public), Url("0", public), Url("s", public)}
        \cup {Url("s", k) : k \in Chosen \ {RandomKey}}

Next ==
    \/ \E argv \in ServerLines : Live(argv)
    \/ \E srv \in server, extra \in ClientExtras : \E text \in Known(srv) :
          \/ Connect(extra.before \o <<Word(Text(text))>> \o extra.after)
          \/ Lookup(<<Option("lookup"), Word(Text(text))>>)

Spec == Init /\ [][Next]_vars

-----------------------------------------------------------------------------
(* Properties                                                              *)

\* The string a server prints leads to it: a client given that string dials
\* the server's public key, in the server's mode, and is let in, and a lookup
\* asks for it and tells its mode.  The exception is a client that was also
\* told to be secure (cli.cpp:186; holesail.cpp:98-128, 249-254;
\* client.cpp:57-75; server.cpp:111-114).
UrlLeadsToServer ==
    \A srv \in server :
       /\ \A c \in client :
             c.given = srv.url /\ c.options.secure # {TRUE} =>
                /\ c.public = {srv.public}
                /\ c.secure = srv.secure
                /\ Admits(srv, c.identity)
       /\ \A f \in found :
             f.given = srv.url => srv.public \in f.asked /\ f.secure = srv.secure

\* Whoever hears the record agrees with the server about the endpoint, however
\* strange its host is written: a client has the server's protocol, port and
\* host wherever it was not told its own, and a lookup reports them
\* (server.cpp:191-194, record.cpp, client.cpp:102-116, holesail.cpp:283-289).
EndpointAgreed ==
    \A srv \in server :
       /\ \A c \in client : c.heard # <<>> =>
             /\ c.options.udp = {} => c.resolved.udp = srv.udp
             /\ c.options.port = {} => c.resolved.port = srv.port
             /\ c.options.host = {} => c.resolved.host = srv.host
       /\ \A f \in found : f.heard =>
             f.record = {[host |-> srv.host, port |-> srv.port, udp |-> srv.udp]}

\* A key works for those who have it: a secure server lets in a client that
\* dials it exactly when the client was given the server's key, and what a
\* public server prints does not contain the key it was started with
\* (README.md:213-219; server.cpp:253-262; holesail.cpp:225-229).
OnlyTheKeyOpens ==
    \A srv \in server :
       /\ srv.secure => \A c \in client :
             c.public = {srv.public} =>
                (Admits(srv, c.identity) <=> c.given.key = srv.key /\ c.secure)
       /\ ~srv.secure => srv.url.key # srv.key
=============================================================================
