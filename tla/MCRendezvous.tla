---------------------------- MODULE MCRendezvous -----------------------------
(* Rendezvous with keys of four bytes, so that a z32 text ends in a partial *)
(* letter and has a sixth one, and every order of the options that changes  *)
(* what parse_argv makes of them.                                           *)
EXTENDS Rendezvous, TLC

CONSTANTS k1, ks, kShort, kRandom

MCChosen == {k1, ks, kShort, kRandom}

MCSeeds == {<<0, 0, 0, 0>>, <<255, 255, 255, 255>>, <<1, 2, 3, 4>>,
            <<128, 64, 0, 1>>, <<7, 255, 0, 31>>}
MCDigest == (k1 :> <<0, 0, 0, 0>>) @@ (ks :> <<255, 255, 255, 255>>)
            @@ (kShort :> <<1, 2, 3, 4>>) @@ (kRandom :> <<128, 64, 0, 1>>)
MCNobody == <<9, 9, 9, 9>>
MCRandomSeed == <<7, 255, 0, 31>>

\* The public key of the random seed, and only that, has an s in the sixth
\* place of its z32 text.
MCPublicKey == (<<0, 0, 0, 0>> :> <<0, 0, 0, 1>>)
            @@ (<<255, 255, 255, 255>> :> <<254, 1, 127, 255>>)
            @@ (<<1, 2, 3, 4>> :> <<170, 85, 3, 3>>)
            @@ (<<128, 64, 0, 1>> :> <<255, 255, 255, 254>>)
            @@ (<<7, 255, 0, 31>> :> <<16, 32, 64, 88>>)

MCDefaultHost == <<"a">>
MCHosts == {<<"a">>, <<"b", Quote, ",", Quote, "port", Quote, ":", "1", "}">>,
            <<Backslash, "n", "^0a", "^1f", Backslash>>}
MCCharacter == Marks \cup Words \cup {"a", "b", "n", "r", "t", "u", "0", "1", "f", "^0a", "^1f"}
                 \cup {ToString(p) : p \in {8080, 8989, 65535}}
MCControl == ("^01" :> <<"0", "1">>) @@ ("^1f" :> <<"1", "f">>)
MCDecimal == [p \in {0, 1, 8080, 8989, 65535} |-> ToString(p)]

MCServerLines ==
    {live \o public \o key \o udp \o host :
        live   \in {<<Option("live"), Word(Num(n))>> : n \in {0, 8080, 70000}}
                   \cup {<<Word(Num(1)), Option("live")>>},
        public \in {<<>>, <<Option("public")>>, <<OptionIs("public", Num(1))>>},
        key    \in {<<>>} \cup {<<Option("key"), Word(Text(t))>> :
                      t \in {Bare(k1), Bare(ks), Bare(kShort), Url("0", k1), Url("s", k1)}},
        udp    \in {<<>>, <<Option("udp")>>, <<OptionIs("udp", Num(0))>>},
        host   \in {<<OptionIs("host", Host(h))>> : h \in MCHosts}}

\* --udp or --public may take the word that follows it.
MCClientExtras ==
    {[before |-> before, after |-> udp \o port] :
        before \in {<<>>, <<Option("connect")>>, <<Option("public")>>, <<OptionIs("public", Num(1))>>,
                    <<Option("public"), ShortOption("h")>>},
        udp  \in {<<>>, <<Option("udp")>>, <<OptionIs("udp", Num(0))>>},
        port \in {<<>>, <<OptionIs("port", Num(1))>>, <<OptionIs("port", Empty)>>}}
=============================================================================
