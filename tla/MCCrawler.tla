----------------------------- MODULE MCCrawler -----------------------------
EXTENDS Crawler

CONSTANTS s, a, b, c, d, e

MCPages == {s, a, b, c, d, e}

Links(ofStart, ofA) ==
  (s :> ofStart) @@ (a :> ofA) @@ (b :> <<c, d, c>>) @@ (c :> <<s, d>>) @@ (d :> <<a, e>>) @@ (e :> << >>)

EndsAt(url, final) == [page \in MCPages |-> IF page = url THEN final ELSE page]

\* Cycles and repeats among the links, sitemaps that list the start page and
\* a page twice, a redirect to another page and one out of scope, and from none
\* to all of the listed pages without a posting that is kept.
MCSites ==
  [links : {Links(<<a, a, b>>, <<s, c>>), Links(<<a>>, <<b>>)},
   sitemap : {<< >>, <<b, d>>, <<d, a, s, d, c, e, b>>},
   wanted : {MCPages, MCPages \ {b}},
   posting : {{}, {d}, {b, d}, {a, b, c, d, e}},
   final : {EndsAt(s, s), EndsAt(a, Outside), EndsAt(d, c)},
   kept : {MCPages, {b}}]
=============================================================================
