--------------------------- MODULE MCRequestHead ---------------------------
(* Three families of heads: all short URIs before one Host line, all short  *)
(* lists of header lines after a plain URI, and the other request lines.    *)
EXTENDS RequestHead

UpTo(n, S) == UNION {[1..k -> S] : k \in 1..n}

MCUris ==
  UpTo(5, {"/", ".", "x", "?", "%2e"})
    \cup UpTo(3, {"/", ".", "x", "?", "#", "%", "^"} \cup Wide)
    \cup {<<"/", "x", "%3f", ".", "." , "/", "x">>, <<"/", "x", "/", "x", "/", ".", ".", "/", ".", ".">>,
         <<"/", "x", "/", "%2e", ".", "%2f", "%2e", "%2e">>}

OfKey(key, values) == {[key |-> key, value |-> v] : v \in values}
HostLine == [key |-> "host", value |-> "h"]
MCLines ==
  {HostLine} \cup OfKey("content-length", {"1", "2", "text"})
    \cup OfKey("transfer-encoding", {"chunked", "identity"})
    \cup OfKey("expect", {"100-continue", "other"})
    \cup OfKey("connection", {"keep-alive"}) \cup OfKey("large", {""})

MCHead(line, method, uri, version, lines) ==
  [line |-> line, method |-> method, uri |-> uri, version |-> version, lines |-> lines]

MCHeads ==
  {MCHead("whole", "GET", uri, "HTTP/1.1", <<HostLine>>) : uri \in MCUris}
    \cup {MCHead("whole", method, <<"/">>, "HTTP/1.1", lines) :
             method \in {"GET", "POST"}, lines \in UpTo(4, MCLines) \cup {<<>>}}
    \cup {MCHead(line, method, <<"/", "?", "x">>, version, <<HostLine>>) :
             line \in {"whole", "long", "parts"}, method \in {"GET", "DELETE", "PUT", "get"},
             version \in {"HTTP/1.1", "HTTP/1.0", "HTTP/2"}}
=============================================================================
