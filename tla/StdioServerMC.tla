---------------------------- MODULE StdioServerMC ----------------------------
(* Small instances of StdioServer for TLC: see the README.                 *)
EXTENDS StdioServer

Short == << "byte" >>
Long  == << "byte", "byte", "byte", "lead", "trail", "byte", "byte" >>
Wide  == << "lead", "trail" >>

Text(id, method) ==
    [json |-> "object", version |-> TRUE, id |-> id, method |-> method, valid |-> TRUE]

Bad   == [Text({}, "other") EXCEPT !.json = "bad"]
Blank == [Bad EXCEPT !.json = "blank"]

(* A line that is cut anywhere else is no JSON. *)
Msg(text, cells) ==
    [cells |-> cells, reads |-> [p \in DOMAIN cells |-> IF p = 1 THEN text ELSE Bad]]

(* The one begins with blanks, the other ends in a request and blanks. *)
TooLong ==
    [cells |-> Long, reads |-> [p \in DOMAIN Long |-> IF p <= 3 THEN Text({"b"}, "other") ELSE Bad]]
NoJson ==
    [cells |-> Long,
     reads |-> << Bad, Text({"z"}, "tools/call"), Blank, Blank, Blank, Blank, Blank >>]

MCMessages ==
    { Msg(Text({"a"}, "tools/call"), Wide),
      TooLong,
      Msg(Text({}, "tools/call"), Short),
      Msg(Text({"c"}, "tools/list"), Short),
      Msg([Text({"d"}, "other") EXCEPT !.version = FALSE], Short) }

MCRest ==
    { NoJson,
      Msg(Text({}, "notifications/initialized"), Short),
      Msg(Text({"a"}, "initialize"), Wide),
      Msg([Text({"e"}, "tools/call") EXCEPT !.valid = FALSE], Short),
      Msg(Bad, Short),
      Msg(Blank, Short),
      Msg([Bad EXCEPT !.json = "null"], Short),
      Msg([Text({}, "other") EXCEPT !.version = FALSE], Short),
      Msg(Bad, << >>) }

MCAllMessages == MCMessages \cup MCRest

MCStreams ==
    {<< l, m, n >> : l \in MCMessages, m \in MCMessages, n \in MCMessages}
    \cup {<< TooLong, m, TooLong, n >> : m \in MCMessages, n \in MCMessages}
    \cup {<< m, n >> : m \in MCMessages \cup MCRest, n \in MCRest}
=============================================================================
