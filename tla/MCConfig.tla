------------------------------ MODULE MCConfig ------------------------------
(* Files of one block with every pair of directives, right and wrong, every *)
(* run of three in a location, every file that ends too early, and files of *)
(* three blocks.                                                            *)
EXTENDS Config

SomeNumbers == [n \in {"0", "80", "301", "404", "70000", "-1"} |->
  CASE n = "0" -> 0 [] n = "80" -> 80 [] n = "301" -> 301 [] n = "404" -> 404
    [] n = "70000" -> 70000 [] n = "-1" -> -1]
Powers == [k |-> 1024, m |-> 1048576, g |-> 1073741824, K |-> 1, M |-> 1, G |-> 1]

\* One piece to each word, or several: "80" "k" is written 80k.
Line(words) == [i \in DOMAIN words |-> <<words[i]>>]
Glued(words) == <<words>>

ServerLines ==
  {Line(<<"listen", "80", ";">>), Line(<<"listen", "70000", ";">>), Line(<<"listen", "a:80", ";">>),
   Line(<<"server_name", "a", "b", ";">>), Line(<<"server_name", ";">>),
   Line(<<"server_name">>) \o Glued(<<"a1", "m", "b">>) \o Line(<<";">>),
   Line(<<"error_page", "404", "301", "p", ";">>), Line(<<"error_page", "404", "q", ";">>),
   Line(<<"error_page", "70000", "p", ";">>), Line(<<"error_page", "p", ";">>), Line(<<"root", "r", ";">>),
   Line(<<"client_max_body_size">>) \o Glued(<<"80", "k">>) \o Line(<<";">>),
   Line(<<"client_max_body_size", "80", ";">>), Line(<<"client_max_body_size", "80", "M", ";">>),
   Line(<<"client_max_body_size", "\n">>) \o Glued(<<"80", "m", ";", "}">>),
   Line(<<"client_max_body_size">>) \o Glued(<<"80", "k", "#">>) \o Glued(<<"a1", "g">>)
     \o Line(<<"\n", ";">>),
   Line(<<"listen", "-1", ";">>),
   Line(<<"#">>) \o Glued(<<"a1", "g">>) \o Line(<<"}", "\n">>),
   Line(<<"location", "/", "{", "}">>), Line(<<"location", "/", "{", "root", "r", ";", "}">>), <<>>}

LocationLines ==
  {Line(<<"root", "r", ";">>), Line(<<"root", "s", ";">>), Line(<<"index", "i", ";">>),
   Line(<<"autoindex", "on", ";">>), Line(<<"autoindex", "yes", ";">>),
   Line(<<"allowed_methods", ";">>), Line(<<"allowed_methods", "GET", "PUT", ";">>),
   Line(<<"redirect", "301", "u", ";">>), Line(<<"redirect", "u", ";">>),
   Line(<<"return", "404", "m1", "m2", ";">>), Line(<<"return", "80", "m3", ";">>),
   Line(<<"return", "m1", ";">>), Line(<<"error_page", "404", "p", ";">>),
   Line(<<"cgi", "on", ";">>), Line(<<"cgi", "off", ";">>), Line(<<"cgi", "maybe", ";">>),
   Line(<<"cgi_path", "c", ";">>), Line(<<"upload_store", "u", ";">>),
   Line(<<"root", "index", ";">>), Line(<<"root", "M", ";">>), Line(<<"listen", "80", ";">>),
   Line(<<"root">>) \o Glued(<<"v2", "k">>) \o Line(<<";">>), <<>>}

Block(lines) == Line(<<"server", "{">>) \o lines \o Line(<<"}">>)
InLoc(lines) == Block(Line(<<"location", "/", "{">>) \o lines \o Line(<<"}">>))
Whole == InLoc(Line(<<"cgi", "on", ";", "cgi_path", "c", ";", "return", "80", "m1", ";">>))
Listening(port) == Block(Line(<<"listen", port, ";">>))

SomeFiles ==
  {Block(a \o b) : a, b \in ServerLines}
    \cup {InLoc(a \o b) : a, b \in LocationLines}
    \cup {InLoc(a \o b \o c) : a, b, c \in {l \in LocationLines : l # <<>> /\ l[1][1] \in {"cgi", "cgi_path", "root"}}}
    \cup {SubSeq(Whole, 1, n) : n \in 0..Len(Whole)}
    \cup {Block(Line(<<"client_max_body_size">>) \o Glued(<<"80", "k", "M", ";">>))}
    \cup {Listening(p) \o Listening(q) \o Listening(r) : p, q, r \in {"0", "80", "70000"}}
=============================================================================
