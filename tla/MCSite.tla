------------------------------- MODULE MCSite -------------------------------
(* A small site for TLC: two blocks, nested and overlapping locations, a    *)
(* directory with an index, an empty one, a listed one, an upload directory.*)
EXTENDS Site

AnyMethod == {"GET", "POST", "DELETE"}
Loc(location, root) ==
  [location |-> location, root |-> root, index |-> <<"i">>, autoindex |-> FALSE,
   allowedMethods |-> AnyMethod, isRedirect |-> FALSE, isRedirectPermanent |-> FALSE,
   redirectUrl |-> <<>>, has_return |-> FALSE, return_code |-> 0, return_message |-> <<>>,
   useCgi |-> FALSE, cgiPath |-> <<>>, uploadStore |-> <<"w", "/", "e">>]

SomeServers ==
  << [serverNames |-> {"a", "b"}, errorPages |-> [s \in {404} |-> <<"w", "/", "x">>],
      locations |->
        << [Loc(<<"/">>, <<"w">>) EXCEPT !.autoindex = TRUE],
           [Loc(<<"/", "/", "d", "/">>, <<"w">>) EXCEPT !.index = <<"i", ".", "p">>,
              !.useCgi = TRUE, !.cgiPath = <<"python">>, !.allowedMethods = {"GET", "DELETE"}],
           [Loc(<<"/", "d">>, <<"w">>) EXCEPT !.allowedMethods = {"GET"}],
           [Loc(<<"/", "o">>, <<"w">>) EXCEPT !.isRedirect = TRUE, !.redirectUrl = <<"/", "x">>],
           [Loc(<<"/", "r">>, <<>>) EXCEPT !.has_return = TRUE, !.return_code = 999] >>],
     [serverNames |-> {"b"}, errorPages |-> [s \in {} |-> <<>>],
      locations |->
        << Loc(<<"/">>, <<>>), [Loc(<<"/", "w">>, <<>>) EXCEPT !.uploadStore = <<"n">>] >>],
     [serverNames |-> {"c"}, errorPages |-> [s \in {} |-> <<>>],
      locations |-> << Loc(<<"/", "c", "/">>, <<"w">>) >>] >>

Dir == [File(<<>>) EXCEPT !.type = "dir"]
SomeTree ==
  [p \in {<<>>, <<"w">>, <<"w", "/", "x">>, <<"w", "/", "d">>, <<"w", "/", "e">>,
          <<"w", "/", "d", "/", "i", ".", "p">>, <<"w", "/", "e", "/", "i">>} |->
     IF p \in {<<>>, <<"w">>, <<"w", "/", "d">>, <<"w", "/", "e">>} THEN Dir ELSE File(<<"old", "old">>)]

Ask(method, uri) ==
  [method |-> method, host |-> "a", uri |-> uri, kind |-> "raw", error |-> 0, matched |-> TRUE,
   body |-> <<>>, parts |-> <<>>]
Form(uri, ps) == [Ask("POST", uri) EXCEPT !.kind = "multipart", !.parts = ps]
Part(name, form, data) == [name |-> <<name>>, form |-> form, data |-> <<data>>]
Root == <<"/">>
SomeRequests ==
  {Ask("GET", uri) : uri \in {Root, <<"/", "x">>, <<"/", "d">>, <<"/", "d", "/">>,
                              <<"/", "e", "/">>, <<"/", "o">>, <<"/", "r">>,
                              <<"/", "d", "/", "i", ".", "p">>}}
    \cup {Ask("DELETE", uri) : uri \in {<<"/", "x">>, <<"/", "e">>, <<"/", "e", "/">>, <<"/", "d">>}}
    \cup {[Ask("GET", Root) EXCEPT !.host = "b"], [Ask("GET", <<"/", "w", "/">>) EXCEPT !.host = "b"],
           [Ask("GET", <<"/", "n", ".", "p">>) EXCEPT !.host = "c"]}
    \cup {[Ask("POST", Root) EXCEPT !.body = <<"new">>],
          [Ask("POST", <<"/", "x">>) EXCEPT !.error = 400],
          [Ask("POST", <<"/", "o">>) EXCEPT !.error = 400, !.matched = FALSE],
          Ask("POST", <<"/", "d", "/">>),
          [Ask("POST", Root) EXCEPT !.kind = "no boundary"],
          [Ask("POST", <<"/", "w">>) EXCEPT !.host = "b"],
          Form(Root, <<Part("f", "good", "one"), Part("f", "good", "two")>>),
          Form(<<"/", "o">>, <<Part("f", "bad name", "one"), Part("g", "good", "two"), Part("h", "cut", "x")>>),
          Form(Root, <<Part("f", "no filename", "one")>>)}

SomeOutputs ==
  {[status |-> <<404, 99>>, headers |-> Set(NoHeaders, "Content-Length", 7), body |-> <<>>],
   [status |-> <<299>>, body |-> <<"out">>,
    headers |-> Set(Set(NoHeaders, "Content-Length", 7), "Transfer-Encoding", "chunked")]}
SomeScriptFiles ==
  {<<"w", "/", "x">>, <<"w", "/", "e">>, <<"w", "/", "e", "/", "i">>}
Seconds == <<"s1", "s2">>
=============================================================================
