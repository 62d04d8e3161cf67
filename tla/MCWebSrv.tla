----------------------------- MODULE MCWebSrv -----------------------------
(* WebSrv with two small images.                                           *)
EXTENDS WebSrv

File(name, parts, parsed, zipped) ==
  [name |-> name, parts |-> parts, parsed |-> parsed, zipped |-> zipped]
T(x)   == Part("text", x)
Inc(x) == Part("inc", x)

(* v1: a default page with includes four deep, a variable that needs       *)
(* several calls, a doubled mark, and an include that is zipped; a static  *)
(* file; a page for error 404.                                             *)
(* v2: a default page with includes five deep, the last of them the file   *)
(* the uploader asks for too, and no page for the error.                   *)
MCDirectory == [v \in {"v1", "v2"} |->
  IF v = "v1" THEN <<
    File("index.htm", <<Inc("gz"), Inc("two"), Part("call", "list"), Part("tilde", "~")>>, TRUE, FALSE),
    File("two",     <<T("c"), Inc("three")>>, TRUE, FALSE),
    File("three",   <<Inc("four")>>, TRUE, FALSE),
    File("four",    <<T("e")>>, FALSE, FALSE),
    File("gz",      <<T("g"), T("h"), T("k")>>, FALSE, TRUE),
    File("404.htm", <<T("m")>>, FALSE, FALSE)>>
  ELSE <<
    File("index.htm", <<Inc("one"), T("p")>>, TRUE, FALSE),
    File("one",       <<Inc("two")>>, TRUE, FALSE),
    File("two",       <<Inc("three")>>, TRUE, FALSE),
    File("three",     <<Inc("gz")>>, TRUE, FALSE),
    File("gz",        <<T("q")>>, FALSE, FALSE)>>]

(* One connection asks for pages, one uploads and asks for pages.          *)
MCAsks == [c \in {"p1", "up"} |-> IF c = "p1" THEN {"/", "missing"}
                                  ELSE {"gz"}]

MCOutput == [n \in {"list"} |-> <<T("l1"), T("l2"), T("l3")>>]
=============================================================================
