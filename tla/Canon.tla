------------------------------- MODULE Canon -------------------------------
(***************************************************************************)
(* Canonicalisation before comparison: canon.Path, FileURIPath and URL      *)
(* (internal/canon/canon.go).                                               *)
(*                                                                         *)
(* A text is split at its slashes: "/srv//x" is <<"", "srv", "", "x">>.  A  *)
(* canonical path is the sequence of its names from the root, << >> being   *)
(* the root.  A URL keeps the elements after the slash that ends its        *)
(* authority (Host of net/url: the host, and the port if there is one).     *)
(* The file system is a function from the paths that exist, and does not    *)
(* change during a call.  What the kernel makes of a path is Walk;          *)
(* filepath.EvalSymlinks, which the code calls, resolves as the kernel does.*)
(***************************************************************************)
EXTENDS Naturals, Sequences, SequencesExt

CONSTANTS
  FileSystems,       \* each a function from the paths that exist
  Inputs,            \* paths, file URIs and URLs to canonicalise
  Broken,            \* the elements that hold a NUL or invalid UTF-8
  Decoded, Lower,    \* percent-decoding of an element, lower case of a name
  Split,             \* the authorities net/url accepts: host, port, and brackets
  Hops               \* how many links are followed before the kernel gives up

Elements == DOMAIN Decoded
Noise == {"", "."}
Dir == [kind |-> "dir"]
Parent(p) == IF p = << >> THEN p ELSE Front(p)

(* A path that exists is below directories all the way, under a name of its *)
(* own; a link leads somewhere.                                             *)
IsTree(f) ==
  /\ << >> \in DOMAIN f /\ f[<< >>] = Dir
  /\ DOMAIN f \subseteq Seq(Elements)
  /\ \A p \in DOMAIN f \ {<< >>} :
       Front(p) \in DOMAIN f /\ f[Front(p)] = Dir /\ Last(p) \notin Noise \cup {".."}
  /\ \A p \in DOMAIN f : f[p].kind = "link" => f[p].target \in Seq(Elements) \ {<< >>}

ASSUME TreesAssumption == \A f \in FileSystems : IsTree(f)
ASSUME InputsAssumption ==
  \A in \in Inputs :
    /\ in.form \in {"path", "uri", "url"} /\ in.text \in Seq(Elements)
    /\ in.form = "url" => in.scheme \in DOMAIN Lower /\ in.authority \in DOMAIN Lower
(* What has been decoded has nothing left to decode (String escapes it      *)
(* again), and what is lower case stays so.                                 *)
ASSUME SpellingAssumption ==
  /\ Decoded \in [Elements -> Seq({e \in Elements : Decoded[e] = <<e>>})]
  /\ "" \in Elements /\ Decoded[""] = <<"">>
  /\ \A x \in DOMAIN Lower :
       Lower[x] \in DOMAIN Lower /\ Lower[Lower[x]] = Lower[x] /\ (Lower[x] = "" <=> x = "")
(* Hostname and Port of net/url: Hostname has lost the brackets of an IPv6  *)
(* literal, a host without brackets and its port are written in one way.    *)
ASSUME AuthoritiesAssumption ==
  /\ DOMAIN Split \subseteq DOMAIN Lower
  /\ \A a \in DOMAIN Split :
       /\ Split[a].host \in DOMAIN Lower
       /\ Lower[a] \in DOMAIN Split
       /\ Split[Lower[a]].host = Lower[Split[a].host]
       /\ Split[Lower[a]].port = Split[a].port
       /\ Split[Lower[a]].bracketed = Split[a].bracketed
  /\ \A a, b \in DOMAIN Split :
       /\ Split[a].host = Split[b].host /\ Split[a].port = Split[b].port
       /\ Split[a].port # "" /\ ~Split[a].bracketed /\ ~Split[b].bracketed
       => a = b
ASSUME HopsAssumption == Hops \in Nat

VARIABLES
  fs, input,         \* the file system, and what is canonicalised
  again,             \* the input is a result, canonicalised again
  current, remainder,\* resolveSymlinks: what is tried, what was cut off
  result

vars == <<fs, input, again, current, remainder, result>>

Idle == [kind |-> "idle"]
Resolving == [kind |-> "resolving"]
Error == [kind |-> "error"]
Path(p) == [kind |-> "path", path |-> p]

Init ==
  /\ fs \in FileSystems
  /\ input \in Inputs
  /\ again = FALSE
  /\ current = << >>
  /\ remainder = << >>
  /\ result = Idle

-----------------------------------------------------------------------------
(* The kernel, from the place at through the elements of todo.  A walk ends *)
(* at something that exists, at the first name that does not, with the rest *)
(* unread, or with an error (not a directory, too many links).              *)
Walkers(f) == [at : DOMAIN f, todo : Seq(Elements), hops : 0 .. Hops]
Under(w) == Append(w.at, Head(w.todo))

End(f, w) ==
  IF w.todo = << >> THEN "found"
  ELSE IF f[w.at] # Dir THEN "error"
  ELSE IF Head(w.todo) \in Noise \cup {".."} THEN "none"
  ELSE IF Under(w) \notin DOMAIN f THEN "missing"
  ELSE IF f[Under(w)].kind = "link" /\ w.hops = 0 THEN "error" ELSE "none"

Onward(f, w) ==
  LET rest == Tail(w.todo) IN
  IF Head(w.todo) \in Noise THEN [w EXCEPT !.todo = rest]
  ELSE IF Head(w.todo) = ".." THEN [w EXCEPT !.at = Parent(w.at), !.todo = rest]
  ELSE IF f[Under(w)].kind # "link" THEN [w EXCEPT !.at = Under(w), !.todo = rest]
  ELSE LET target == f[Under(w)].target IN
       [at |-> IF Head(target) = "" THEN << >> ELSE w.at,
        todo |-> target \o rest, hops |-> w.hops - 1]

Walk(f, from) ==
  LET walk[w \in Walkers(f)] == IF End(f, w) # "none" THEN w ELSE walk[Onward(f, w)]
  IN walk[from]

(* filepath.EvalSymlinks: where a path leads. *)
EvalSymlinks(f, path) == Walk(f, [at |-> << >>, todo |-> path, hops |-> Hops])

(* filepath.Clean of an absolute path, path.Clean. *)
Clean(text) ==
  LET clean[t \in Seq(Elements)] ==
        IF t = << >> THEN << >>
        ELSE IF Last(t) \in Noise THEN clean[Front(t)]
        ELSE IF Last(t) = ".." THEN Parent(clean[Front(t)])
        ELSE Append(clean[Front(t)], Last(t))
  IN clean[text]

(* A text with a piece in the place of each element. *)
Spread(text, piece) ==
  LET spread[t \in Seq(DOMAIN piece)] ==
        IF t = << >> THEN << >> ELSE spread[Front(t)] \o piece[Last(t)]
  IN spread[text]

Decode(text) == Spread(text, Decoded)
Kept(text) == Spread(text, [e \in Elements |-> IF e \in Noise THEN << >> ELSE <<e>>])

HasTraversal(text) == ".." \in ToSet(text)

-----------------------------------------------------------------------------
(* Path and FileURIPath *)

(* FileURIPath: this machine's files only; url.Parse has decoded the path.  *)
Local(in) ==
  in.form = "uri" => Lower[in.scheme] = "file" /\ Lower[in.authority] \in {"", "localhost"}
PathText(in) == IF in.form = "uri" THEN Decode(in.text) ELSE in.text

\* Faulty variant of Acceptable: ".." is left to Clean.
AcceptableTraversal(text) ==
  /\ text # <<"">>
  /\ ToSet(text) \cap Broken = {}
  /\ Head(text) = "" /\ Len(text) > 1

(* Path: not empty, nothing broken, no traversal, absolute. *)
Acceptable(text) ==
  /\ text # <<"">>
  /\ ToSet(text) \cap Broken = {}
  /\ ~HasTraversal(text)
  /\ Head(text) = "" /\ Len(text) > 1

Reject ==
  /\ input.form # "url" /\ result = Idle
  /\ ~(Local(input) /\ Acceptable(PathText(input)))
  /\ result' = Error
  /\ UNCHANGED <<fs, input, again, current, remainder>>

Enter ==
  /\ input.form # "url" /\ result = Idle
  /\ Local(input) /\ Acceptable(PathText(input))
  /\ current' = Clean(PathText(input))
  /\ remainder' = << >>
  /\ result' = Resolving
  /\ UNCHANGED <<fs, input, again>>

(* resolveSymlinks, an iteration.  EvalSymlinks(current) succeeds, ... *)
Resolve ==
  LET w == EvalSymlinks(fs, current) IN
  /\ result = Resolving
  /\ End(fs, w) = "found"
  /\ result' = Path(w.at \o remainder)
  /\ UNCHANGED <<fs, input, again, current, remainder>>

(* ... fails for another reason than absence, ... *)
Unresolvable ==
  /\ result = Resolving
  /\ End(fs, EvalSymlinks(fs, current)) = "error"
  /\ result' = Error
  /\ UNCHANGED <<fs, input, again, current, remainder>>

\* Faulty variant of Climb: the names cut off are joined the wrong way round.
ClimbReversed ==
  /\ result = Resolving
  /\ End(fs, EvalSymlinks(fs, current)) = "missing"
  /\ current' = Front(current)
  /\ remainder' = Append(remainder, Last(current))
  /\ UNCHANGED <<fs, input, again, result>>

(* ... or finds nothing: on to the parent.  The root is always there.       *)
Climb ==
  /\ result = Resolving
  /\ End(fs, EvalSymlinks(fs, current)) = "missing"
  /\ current' = Front(current)
  /\ remainder' = <<Last(current)>> \o remainder
  /\ UNCHANGED <<fs, input, again, result>>

(* Behind its slash, the root is an empty name. *)
Spelled(names) == IF names = << >> THEN <<"">> ELSE names

(* The caller gives the result to Path again. *)
Repeat ==
  /\ ~again /\ result.kind = "path"
  /\ again' = TRUE
  /\ input' = [form |-> "path", text |-> <<"">> \o Spelled(result.path)]
  /\ result' = Idle
  /\ UNCHANGED <<fs, current, remainder>>

-----------------------------------------------------------------------------
(* URL *)

DefaultPort == [https |-> "443", http |-> "80"]
Default(scheme, port) == scheme \in DOMAIN DefaultPort /\ port = DefaultPort[scheme]

\* Faulty variant of AuthorityOf: the scheme is compared as it was spelled.
AuthorityOfSpelled(u) ==
  LET a == Lower[u.authority] IN
  IF Default(u.scheme, Split[a].port) THEN Split[a].host ELSE a

(* The scheme's own port is dropped: what is left is Hostname.              *)
AuthorityOf(u) ==
  LET a == Lower[u.authority] IN
  IF Default(Lower[u.scheme], Split[a].port) THEN Split[a].host ELSE a

(* path.Clean on the decoded path, "/" for none; String writes the path as  *)
(* it was spelled as long as Clean left it alone (RawPath).                 *)
PathOf(u) ==
  LET text == Spelled(Clean(Decode(u.text))) IN
  IF text = Decode(u.text) THEN u.text ELSE text

(* url.Parse accepts it, with a scheme and an authority, if only ":80".     *)
Parses(u) == u.authority \in DOMAIN Split /\ u.scheme # "" /\ u.authority # ""

URL(u) ==
  IF ~Parses(u) \/ HasTraversal(Decode(u.text)) THEN Error
  ELSE [kind |-> "url",
        url |-> [form |-> "url", scheme |-> Lower[u.scheme], authority |-> AuthorityOf(u),
                 text |-> PathOf(u)]]

CanonicalizeURL ==
  /\ input.form = "url" /\ result = Idle
  /\ result' = URL(input)
  /\ UNCHANGED <<fs, input, again, current, remainder>>

Next ==
  Reject \/ Enter \/ Resolve \/ Unresolvable \/ Climb \/ Repeat \/ CanonicalizeURL

Spec == Init /\ [][Next]_vars

-----------------------------------------------------------------------------
(* The place the kernel takes a path to, whether or not something is there. *)
Place(f, text) ==
  LET w == EvalSymlinks(f, text) IN
  IF End(f, w) = "error" THEN Error ELSE Path(w.at \o Kept(w.todo))

(* A link to nothing: EvalSymlinks reports it as it reports an absent file, *)
(* and resolveSymlinks keeps its name.                                      *)
Dangles(f) ==
  \E p \in DOMAIN f : f[p].kind = "link" /\ End(f, EvalSymlinks(f, p)) = "missing"

(* What is compared is what is opened.  The canonical path takes the kernel *)
(* where the text takes it, through repeated slashes, dots, links and links *)
(* to links, for a file yet to be created as for one that is there; and     *)
(* without dangling links it is that place itself.  ("Clean cannot disagree *)
(* with the kernel", "resolving the existing prefix catches the case that   *)
(* matters".)  A text the kernel itself refuses is left aside: "/file/".    *)
PathMeans ==
  result.kind = "path" /\ Place(fs, PathText(input)) # Error =>
    /\ Place(fs, result.path) = Place(fs, PathText(input))
    /\ ~Dangles(fs) => result = Place(fs, PathText(input))

(* Canonicalising twice is canonicalising once, and never an error ("if     *)
(* that changed the result, prefix comparisons would be unstable").  Only   *)
(* a link to a name that is no valid text leads to a path that is refused.  *)
CanonIdempotent ==
  again /\ result \notin {Idle, Resolving} /\ ToSet(input.text) \cap Broken = {}
    => result = Path(Clean(input.text))

(* An authority that is a host and perhaps a port, the host one that stands *)
(* for itself: not an IPv6 literal, not empty, and no "host:".              *)
Ordinary(authority) ==
  LET parts == Split[authority] IN
  /\ ~parts.bracketed /\ parts.host \in DOMAIN Split \ {""}
  /\ Split[parts.host] = [host |-> parts.host, port |-> "", bracketed |-> FALSE]
  /\ parts.port = "" => authority = parts.host

Plain(u) == \A i \in DOMAIN u.text : Decoded[u.text[i]] = <<u.text[i]>>
(* One scheme, one host, and one port, be it the default one left out.      *)
SameOrigin(u, v) ==
  LET s == Lower[u.scheme]
      a == Split[Lower[u.authority]]
      b == Split[Lower[v.authority]] IN
  /\ s = Lower[v.scheme] /\ a.host = b.host
  /\ \/ a.port = b.port
     \/ s \in DOMAIN DefaultPort /\ {a.port, b.port} \subseteq {"", DefaultPort[s]}

(* The canonical form of a URL is its own, and URLs that differ in the case *)
(* of scheme and host, in naming the default port, and in redundant slashes *)
(* and dots have one canonical form.  Texts with redundant percent-escapes  *)
(* promise no more than the former, see PathOf, nor do authorities that are *)
(* not ordinary, and these only as long as they keep their port.            *)
UrlsAgree ==
  result.kind = "url" =>
    /\ Ordinary(Lower[input.authority]) \/ result.url.authority = Lower[input.authority]
         => URL(result.url) = result
    /\ \A u \in Inputs :
         /\ u.form = "url" /\ Parses(u) /\ SameOrigin(u, input)
         /\ Ordinary(Lower[u.authority]) /\ Ordinary(Lower[input.authority])
         /\ Plain(u) /\ Plain(input) /\ Clean(u.text) = Clean(input.text)
         /\ ~HasTraversal(u.text)
         => URL(u) = result
=============================================================================
