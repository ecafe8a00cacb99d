------------------------------ MODULE MCMatcher ------------------------------
(* Instances of Matcher for TLC: every text of up to MaxText characters,    *)
(* every glob of up to three segments, and every matcher of a root over two *)
(* leaves from a stock of both.                                             *)
EXTENDS Matcher

CONSTANT MaxText     \* bound: characters of a text

Letters == {"a", "b"}
TextsUpTo(n) == UNION {[1 .. k -> Letters] : k \in 0 .. n}
True == <<"t", "r", "u", "e">>
MCChars == Letters \cup ToSet(True)
MCTexts == TextsUpTo(MaxText) \cup {True}

(* Values are pairs of a type and what is in them. *)
MCValues ==
  {<<"string", x>> : x \in TextsUpTo(MaxText)}
  \cup {<<"number", << >> >>, <<"number", <<"9">> >>, <<"bool", True>>, <<"array", << >> >>,
        <<"null", << >> >>}
MCTypeOf == [v \in MCValues |-> v[1]]
MCText == [v \in {w \in MCValues : w[1] \in {"string", "bool"}} |-> v[2]]

(* A test that compares, one that looks inside, and cidr: "bb" is no IP.    *)
MCTests == {"equals", "contains", "cidr"}
MCPasses ==
  [tx \in MCTests \X MCTexts |->
     CASE tx[1] = "equals" -> YesIf(tx[2] = <<"a">>)
       [] tx[1] = "contains" -> YesIf("b" \in ToSet(tx[2]))
       [] OTHER -> IF tx[2] = <<"b", "b">> THEN "error" ELSE YesIf(Len(tx[2]) < 2)]

(* "path" merges doubled characters at the front and rejects what starts    *)
(* with a b; "url" rejects the empty text.                                  *)
MCCanonical ==
  [fx \in Forms \X MCTexts |->
     CASE fx[1] = "path" /\ Len(fx[2]) > 0 ->
            IF fx[2][1] = "b" THEN Invalid
            ELSE IF Len(fx[2]) > 1 /\ fx[2][2] = fx[2][1] THEN Tail(fx[2]) ELSE fx[2]
       [] fx[1] # "none" /\ fx[2] = << >> -> Invalid
       [] OTHER -> fx[2]]

MCPatterns ==
  UNION {[1 .. k -> TextsUpTo(2)] : k \in 1 .. 3} \cup [1 .. 4 -> TextsUpTo(1)]
MCComparisons == {"gt"}
MCCompares == {<<"gt", <<"number", <<"9">> >> >>}

Blank == [type |-> "any", canonicalize |-> "none", absent |-> {}, exists |-> {},
          all |-> << >>, any |-> << >>, not |-> {}, tests |-> {}, in |-> {}, notIn |-> {},
          comparisons |-> {}]

Leaves ==
  {[Blank EXCEPT !.tests = {"equals"}],
   [Blank EXCEPT !.tests = {"contains", "cidr"}],
   [Blank EXCEPT !.tests = {"equals"}, !.canonicalize = "path"],
   [Blank EXCEPT !.tests = {"contains"}, !.type = "bool"],
   [Blank EXCEPT !.comparisons = {"gt"}],
   [Blank EXCEPT !.in = {<<<<"a">>, << >>>>}, !.notIn = {<<<<"a">>, <<"b">>>>}],
   [Blank EXCEPT !.absent = {TRUE}],
   [Blank EXCEPT !.exists = {TRUE}],
   [Blank EXCEPT !.exists = {FALSE}]}

Roots ==
  {[Blank EXCEPT !.all = <<1, 2>>],
   [Blank EXCEPT !.any = <<1, 2>>],
   [Blank EXCEPT !.any = <<1, 2>>, !.tests = {"contains"}],
   [Blank EXCEPT !.all = <<1>>, !.not = {2}],
   [Blank EXCEPT !.any = <<1>>, !.not = {2}, !.type = "string"],
   [Blank EXCEPT !.not = {1}, !.comparisons = {"gt"}],
   [Blank EXCEPT !.not = {2}, !.notIn = {<<<<"b">>, << >>>>}, !.canonicalize = "url"]}

MCMatchers ==
  {<<[Blank EXCEPT !.in = {p}]>> : p \in MCPatterns}
  \cup {<<l, m, r>> : l \in Leaves, m \in Leaves, r \in Roots}
=============================================================================
