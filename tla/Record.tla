------------------------------- MODULE Record -------------------------------
(***************************************************************************)
(* The DHT record (record.cpp): JSON written by hand and read by hand.     *)
(*                                                                         *)
(* A text is a sequence of characters, and a character is a string.  The   *)
(* words of the format, the member names and the numbers, which nothing    *)
(* looks into, are one character each, and so is a control character,      *)
(* "^" followed by its two hexadecimal digits.  White space between the    *)
(* parts, which neither implementation writes, is left out.                *)
(*                                                                         *)
(* An optional value is a set of at most one value.                        *)
(***************************************************************************)
EXTENDS Integers, Sequences, SequencesExt

CONSTANTS
    Character,   \* the characters of a text
    Control,     \* the two digits of a control character that has no letter
    Decimal      \* the character that a port which occurs is written as

Quote     == "\""
Backslash == "\\"
Marks     == {"{", "}", ":", ",", Quote, Backslash}
Words     == {"host", "udp", "port", "true", "false"}

\* Different control characters have different codes; different numbers are
\* written differently, and none as a mark.
ASSUME CharacterAssumption ==
    /\ Marks \cup Words \cup {"n", "r", "t", "u", "0"} \subseteq Character
    /\ \A c \in DOMAIN Control : Control[c] \in Character \X Character
    /\ \A c, d \in DOMAIN Control : Control[c] = Control[d] => c = d
    /\ DOMAIN Decimal \subseteq Nat
    /\ \A p \in DOMAIN Decimal : Decimal[p] \in Character \ Marks
    /\ \A p, q \in DOMAIN Decimal : Decimal[p] = Decimal[q] => p = q

\* The letters of the escapes that append_escaped writes, and of those that
\* read_string also understands.
EscapeLetter == [c \in {Quote, Backslash, "^0a", "^0d", "^09"} |->
    CASE c = Quote -> Quote [] c = Backslash -> Backslash
      [] c = "^0a" -> "n" [] c = "^0d" -> "r" [] c = "^09" -> "t"]
UnescapeLetter == [e \in {Quote, Backslash, "/", "n", "r", "t", "b", "f"} |->
    CASE e = Quote -> Quote [] e = Backslash -> Backslash [] e = "/" -> "/"
      [] e = "n" -> "^0a" [] e = "r" -> "^0d" [] e = "t" -> "^09"
      [] e = "b" -> "^08" [] e = "f" -> "^0c"]

\* Mutant: only quotes are escaped.
EscapedQuotes(c) == IF c = Quote THEN <<Backslash, c>> ELSE <<c>>

\* One character of append_escaped.
Escaped(c) ==
    IF c \in DOMAIN EscapeLetter THEN <<Backslash, EscapeLetter[c]>>
    ELSE IF c \in DOMAIN Control
    THEN <<Backslash, "u", "0", "0", Control[c][1], Control[c][2]>>
    ELSE <<c>>

JsonString(text) ==
    <<Quote>> \o FlattenSeq([k \in 1..Len(text) |-> Escaped(text[k])]) \o <<Quote>>

Member(name, value) == JsonString(name) \o <<":">> \o value

\* encode_record
EncodeRecord(host, udp, port) ==
    <<"{">> \o Member(<<"host">>, JsonString(host))
    \o (IF udp = {} THEN <<>>
        ELSE <<",">> \o Member(<<"udp">>, <<IF TRUE \in udp THEN "true" ELSE "false">>))
    \o <<",">> \o Member(<<"port">>, <<Decimal[port]>>) \o <<"}">>

-----------------------------------------------------------------------------
(* Reading.  A reader of a part returns what it read and the place after   *)
(* it, 0 when it could not be read.                                        *)

\* The code a \u escape has, as a character; above ASCII it is lost.
CodePoint(hex) ==
    LET of == {c \in DOMAIN Control : hex = <<"0", "0", Control[c][1], Control[c][2]>>}
    IN  IF of = {} THEN "?" ELSE CHOOSE c \in of : TRUE

\* read_string, from the opening quote at i.
ReadString(s, i) ==
    LET Bad == [text |-> <<>>, next |-> 0]
        Push(c, r) == [text |-> <<c>> \o r.text, next |-> r.next]
        from[j \in 1..(Len(s) + 7)] ==
          IF j > Len(s) THEN Bad
          ELSE IF s[j] = Quote THEN [text |-> <<>>, next |-> j + 1]
          ELSE IF s[j] # Backslash THEN Push(s[j], from[j + 1])
          ELSE IF j = Len(s) THEN Bad
          ELSE IF s[j + 1] \in DOMAIN UnescapeLetter
               THEN Push(UnescapeLetter[s[j + 1]], from[j + 2])
          ELSE IF s[j + 1] = "u" /\ j + 5 <= Len(s)
               THEN Push(CodePoint(<<s[j + 2], s[j + 3], s[j + 4], s[j + 5]>>), from[j + 6])
          ELSE Bad
    IN  IF i <= Len(s) /\ s[i] = Quote THEN from[i + 1] ELSE Bad

\* read_scalar: everything up to a comma or a brace.
Ends == {",", "}"}
ReadScalar(s, i) ==
    LET ends == {j \in i..Len(s) : s[j] \in Ends}
        stop == IF ends = {} THEN Len(s) + 1
                ELSE CHOOSE j \in ends : \A k \in ends : j <= k
    IN  [text |-> SubSeq(s, i, stop - 1), next |-> IF stop = i THEN 0 ELSE stop]

NoRecord == [host |-> <<>>, udp |-> {}, port |-> {}]

\* The ports a record may name.
Ports == 1..65535

\* What one member adds to the record.  A host is read from a string only,
\* the rest from a scalar only; a port out of range is as good as none.
AddMember(rec, m) ==
    CASE m.name = <<"host">> /\ m.quoted -> [rec EXCEPT !.host = m.text]
      [] m.name = <<"udp">> /\ ~m.quoted ->
            IF m.text = <<"true">> THEN [rec EXCEPT !.udp = {TRUE}]
            ELSE IF m.text = <<"false">> THEN [rec EXCEPT !.udp = {FALSE}]
            ELSE rec
      [] m.name = <<"port">> /\ ~m.quoted ->
            LET ports == {p \in DOMAIN Decimal : m.text = <<Decimal[p]>> /\ p \in Ports}
            IN  IF ports = {} THEN rec ELSE [rec EXCEPT !.port = ports]
      [] OTHER -> rec

\* The members' values in the order of the text: a later one replaces an
\* earlier one.
AddMembers(members) ==
    LET upTo[k \in 0..Len(members)] ==
          IF k = 0 THEN NoRecord ELSE AddMember(upTo[k - 1], members[k])
    IN  upTo[Len(members)]

\* decode_record: the record in a set that is empty for malformed text.
DecodeRecord(s) ==
    LET Bad == [ok |-> FALSE, members |-> <<>>]
        from[i \in 1..(Len(s) + 1)] ==
          LET key    == ReadString(s, i)
              at     == key.next + 1
              quoted == s[at] = Quote
              value  == IF quoted THEN ReadString(s, at) ELSE ReadScalar(s, at)
              member == [name |-> key.text, quoted |-> quoted, text |-> value.text]
          IN  IF key.next = 0 \/ at > Len(s) THEN Bad
              ELSE IF s[key.next] # ":" THEN Bad
              ELSE IF value.next \notin 1..Len(s) THEN Bad
              ELSE IF s[value.next] = ","
                   THEN [ok |-> from[value.next + 1].ok,
                         members |-> <<member>> \o from[value.next + 1].members]
              ELSE [ok |-> s[value.next] = "}", members |-> <<member>>]
    IN  IF s = <<>> THEN {}
        ELSE IF s[1] # "{" THEN {}
        ELSE IF Len(s) > 1 /\ s[2] = "}" THEN {NoRecord}
        ELSE IF from[2].ok
             THEN {AddMembers(from[2].members)}
        ELSE {}
=============================================================================
