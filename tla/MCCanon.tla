------------------------------ MODULE MCCanon ------------------------------
(* Instances of Canon for TLC: file systems of two names and depth two with *)
(* files, directories and links (absolute, relative, upwards, to links, to  *)
(* nothing, in circles), every path of up to three elements, and a stock of *)
(* URIs and URLs.                                                           *)
EXTENDS Canon

Names == {"a", "b"}
Absent == [kind |-> "absent"]
File == [kind |-> "file"]
Link(target) == [kind |-> "link", target |-> target]

Leaves ==
  {Absent, File, Link(<<"", "b">>), Link(<<"", "a", "b">>), Link(<<"..", "b">>), Link(<<"a">>)}
Below == Leaves \cup {Dir}

(* What a name in the root is, and what is below it. *)
Nothing == [n \in Names |-> Absent]
Nodes == {[entry |-> e, below |-> Nothing] : e \in Leaves}
         \cup [entry : {Dir}, below : [Names -> Below]]

NodeAt(top, p) ==
  CASE Len(p) = 0 -> Dir [] Len(p) = 1 -> top[p[1]].entry [] OTHER -> top[p[1]].below[p[2]]
Tree(top) ==
  [p \in {q \in {<< >>} \cup {<<n>> : n \in Names} \cup (Names \X Names) : NodeAt(top, q) # Absent}
     |-> NodeAt(top, p)]

(* A link to a name that is not valid UTF-8. *)
Unreadable ==
  [p \in {<< >>, <<"a">>, <<"bytes">>} |->
     CASE p = << >> -> Dir [] p = <<"a">> -> Link(<<"bytes">>) [] OTHER -> File]

MCFileSystems == {Tree(top) : top \in [Names -> Nodes]} \cup {Unreadable}

TheFileSystem ==
  CHOOSE f \in MCFileSystems \ {Unreadable} : {<<"b">>, <<"a", "b">>} \subseteq DOMAIN f /\ f[<<"b">>] = Link(<<"a">>)

Texts == UNION {[1 .. n -> {"a", "b", "", ".", ".."}] : n \in 1 .. 3}

PathInputs ==
  {[form |-> "path", text |-> <<"">> \o t] : t \in Texts}
  \cup {[form |-> "path", text |-> t] :
          t \in {<<"">>, <<"a">>, <<"a", "b">>, <<"", "a", "nul">>}}

UriInputs ==
  {[form |-> "uri", scheme |-> s, authority |-> h, text |-> <<"">> \o t] :
     s \in {"file", "FILE", "http"}, h \in {"", "localhost", "LOCALHOST", "other"},
     t \in {<<"a">>, <<"a", "b">>, <<"a%2Fb">>, <<"a", "%2e%2e", "b">>, <<"%61", "", "b">>}}

UrlInputs ==
  {[form |-> "url", scheme |-> s, authority |-> a, text |-> t] :
     s \in {"http", "HTTP", "https", "ftp", ""},
     a \in {"", "host", "HOST", "host:80", "HOST:443", "host:443", "host:", ":", ":80",
            "[::1]", "[::1]:443", "::1", "[::ab]:443", "::ab"},
     t \in {<< >>, <<"">>, <<"a">>, <<"", "a", ".">>, <<"a", "">>, <<"a", "..", "b">>,
            <<"a%2Fb">>, <<"%61">>, <<"%61", "">>, <<"%2e%2e">>}}

MCInputs == PathInputs \cup UriInputs \cup UrlInputs

Spellings == {"a", "b", "", ".", "..", "nul", "bytes"}
MCDecoded ==
  [e \in Spellings \cup {"%61", "%2e%2e", "a%2Fb"} |->
     CASE e = "%61" -> <<"a">> [] e = "%2e%2e" -> <<"..">> [] e = "a%2Fb" -> <<"a", "b">>
       [] OTHER -> <<e>>]
Capitals ==
  [FILE |-> "file", HTTP |-> "http", LOCALHOST |-> "localhost", HOST |-> "host"]
MCLower ==
  [x \in DOMAIN Capitals \cup {Capitals[c] : c \in DOMAIN Capitals}
         \cup {"", "https", "ftp", "other", "host:80", "HOST:443", "host:443", "host:", ":", ":80",
               "[::1]", "[::1]:443", "::1", "[::ab]:443", "::ab"} |->
     IF x \in DOMAIN Capitals THEN Capitals[x] ELSE IF x = "HOST:443" THEN "host:443" ELSE x]

(* "::ab" is missing: what looks like its port is no number.                *)
MCSplit ==
  [a \in {"", "host", "HOST", "localhost", "LOCALHOST", "other", "host:80", "HOST:443", "host:443",
         "host:", ":", ":80", "[::1]", "[::1]:443", "::1", "[::ab]:443"} |->
     [bracketed |-> a \in {"[::1]", "[::1]:443", "[::ab]:443"},
      host |-> CASE a \in {"host:80", "host:443", "host:"} -> "host" [] a = "HOST:443" -> "HOST"
                 [] a \in {":", ":80"} -> "" [] a \in {"[::1]", "[::1]:443"} -> "::1"
                 [] a = "[::ab]:443" -> "::ab" [] a = "::1" -> ":" [] OTHER -> a,
      port |-> CASE a \in {"host:80", ":80"} -> "80" [] a = "::1" -> "1"
                 [] a \in {"HOST:443", "host:443", "[::1]:443", "[::ab]:443"} -> "443"
                 [] OTHER -> ""]]

(* Every path in every file system; URIs and URLs do not need as many. *)
MCInit ==
  /\ Init
  /\ input.form # "path" => fs = TheFileSystem
MCSpec == MCInit /\ [][Next]_vars
=============================================================================
