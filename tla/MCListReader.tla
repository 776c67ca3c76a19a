------------------------------ MODULE MCListReader ------------------------------
(* Instances of ListReader for TLC.                                           *)
EXTENDS ListReader

W(rank, width, lower) == [width |-> width, lower |-> lower, numeric |-> FALSE,
                          hyphenEdge |-> FALSE, rank |-> rank]

SomeWords ==
  ("127" :> [W(1, 3, "127") EXCEPT !.numeric = TRUE])
  @@ ("-ad" :> [W(2, 3, "-ad") EXCEPT !.hyphenEdge = TRUE])
  @@ ("ads" :> W(3, 3, "ads")) @@ ("ADS" :> W(0, 3, "ads"))
  @@ ("com" :> W(4, 3, "com")) @@ ("example" :> W(5, 7, "example"))
  @@ ("net" :> W(6, 3, "net"))
  @@ ("l61" :> W(7, 61, "l61")) @@ ("l62" :> W(8, 62, "l62"))
  @@ ("l63" :> W(9, 63, "l63")) @@ ("l64" :> W(10, 64, "l64"))
  @@ ("script" :> W(11, 6, "script")) @@ ("image" :> W(12, 5, "image"))
  @@ ("document" :> W(13, 8, "document")) @@ ("genericblock" :> W(14, 12, "genericblock"))
  @@ ("third-party" :> W(15, 11, "third-party")) @@ ("match-case" :> W(16, 10, "match-case"))
  @@ ("domain" :> W(17, 6, "domain")) @@ ("popup" :> W(18, 5, "popup"))

Hosts == {<<"ads", ".", "com">>, <<"ADS", ".", "com">>, <<"com">>, <<"127", ".", "127">>,
          <<"127", ".", "com">>, <<"-ad", ".", "com">>, <<"ads", ".", ".", "com">>,
          <<"ads", ".", "com", ".">>, <<"l63", ".", "com">>, <<"l64", ".", "com">>,
          <<"l63", ".", "l63", ".", "l63", ".", "l61">>,
          <<"l63", ".", "l63", ".", "l63", ".", "l62">>}

Rests == {<<>>, <<"^">>, <<"|">>, <<"^", "|">>, <<"|", "|">>, <<"|", "^">>, <<"/", "ADS">>,
          <<"/", "%41", "|">>, <<"/", "%zz">>, <<"?", "ads", "=", "@@">>, <<"#", "ads">>,
          <<"/", "##">>, <<"/", "e-acute">>, <<"/", " ", "ads">>, <<"^", "$", "popup">>,
          <<"/", "BOM">>, <<"/", "\\xff">>, <<"/", "\\">>}

Anchors == {<<"|", "|">>, <<"|", "https://">>, <<"|", "http://">>, <<"|">>, <<>>}
Exceptions == {<<>>, <<"@@">>}

Options == {<<>>, <<"script">>, <<"~", "script">>, <<"image">>, <<"image", "=", "ads">>,
            <<"document">>, <<"~", "document">>, <<"genericblock">>, <<"third-party">>,
            <<"~", "third-party">>, <<"match-case">>, <<"~", "match-case">>, <<"popup">>,
            <<"domain">>, <<"domain", "=">>, <<"~">>,
            <<"domain", "=", "ads", ".", "com", "|", "~", "net">>,
            <<"domain", "=", "com", ".", "net", "|", "~", "ADS", ".", "com",
              "|", "example", ".", "com">>,
            <<"domain", "=", "ads", ".", "com", "|", "~", "ADS", ".", "com">>}

\* All pairs of options, and triples of those that interact.
FewOptions == {<<"script">>, <<"~", "script">>, <<"image">>, <<"document">>, <<"third-party">>,
               <<"domain", "=", "com", ".", "net", "|", "~", "ADS", ".", "com",
                 "|", "example", ".", "com">>}
OptionLists == [1..1 -> Options] \cup [1..2 -> Options] \cup [1..3 -> FewOptions]

GoodHosts == {<<"ads", ".", "com">>, <<"ADS", ".", "com">>}
PatternLines ==
  {x \o a \o h \o r : x \in Exceptions, a \in Anchors, h \in GoodHosts, r \in Rests}
  \cup {x \o a \o h \o r : x \in Exceptions, a \in Anchors, h \in Hosts,
                           r \in {<<>>, <<"^">>, <<"/", "ADS">>, <<"^", "$", "third-party">>}}
OptionLines == {x \o <<"|", "|", "ads", ".", "com", "^", "$">> \o Joined(os, ",")
                  : x \in Exceptions, os \in OptionLists}
HostsLines == {x \o <<p>> \o h : x \in Exceptions, p \in HostsPrefixes,
                                 h \in Hosts \cup {<<>>, <<"ads", ".", "com", " ", "com">>}}
OtherLines == {<<"[Adblock", " ", "popup">>, <<"/", "ads", "/">>, <<"/">>, <<"@@">>,
               <<"@@", "/", "ads", "/">>, <<"##", "ads">>, <<"!", "ads">>, <<>>, <<" ">>,
               <<" ", "!", "ads">>, <<"\\xff">>, <<"@@", "@@", "|", "|", "ads", ".", "com", "^">>}

\* A few lines that spell others differently, or are wrong but as a first line.
LaterLines == {<<>>, <<"[Adblock">>, <<"BOM", "|", "|", "ads", ".", "com", "^">>,
               <<"::1 ", "ADS", ".", "com">>,
               <<"|", "|", "ADS", ".", "com", "^", "$", "image", ",", "script", ",",
                 "domain", "=", "~", "ADS", ".", "com", "|", "example", ".", "com",
                 "|", "com", ".", "net">>,
               <<"@@", "|", "|", "ADS", ".", "com", "^", "$", "third-party", ",", "document">>}

FirstLines == PatternLines \cup OptionLines \cup LaterLines
              \cup {b \o l : b \in {<<>>, <<"BOM">>}, l \in HostsLines \cup OtherLines}

TwoLines == <<FirstLines, LaterLines>>
===============================================================================
