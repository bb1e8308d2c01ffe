------------------------------ MODULE Crawler ------------------------------
(***************************************************************************)
(* The crawl of one career site, scrape cycle after scrape cycle           *)
(* (crawler/crawler.go, crawler/sitemap.go, crawler/robots.go): the pages  *)
(* of its sitemaps first, then the pages its start page leads to, under a  *)
(* budget, leaving out what is stored already.                             *)
(*                                                                         *)
(* Sites are crawled by goroutines of their own that share the request     *)
(* rate of a host and nothing else.  What one crawl finds is stored after  *)
(* every crawl of the cycle has ended, so the stored URLs stand still      *)
(* while it runs.                                                          *)
(***************************************************************************)
EXTENDS Integers, Sequences, SequencesExt

CONSTANTS
  Pages,       \* URLs
  Start,       \* the seed's URL
  Outside,     \* wherever a redirect out of the seed's scope ends
  Sites,       \* what the career site may look like
  MaxDepth,    \* maxDepth
  MaxPages,    \* MaxPagesPerSeed
  MaxFaults    \* bound: failed requests and lookups, lost crawls, pruned postings

\* links: what the page a request brings links to.  sitemap: what the sitemaps
\* list, newest first.  wanted: pages in scope that match Include and that
\* robots.txt allows.  posting: pages with a posting in them, whose links are not
\* followed.  final: where the request for a page ends up.  kept: postings that
\* toJob takes and the rest of the scrape stores.
ASSUME SiteAssumption ==
  /\ Start \in Pages /\ Outside \notin Pages
  /\ Sites \subseteq [links : [Pages -> Seq(Pages)], sitemap : Seq(Pages), wanted : SUBSET Pages,
                      posting : SUBSET Pages,
                      final : [Pages -> Pages \cup {Outside}], kept : SUBSET Pages]
ASSUME CrawlAssumption == MaxDepth \in Nat /\ MaxPages \in Nat \ {0} /\ MaxFaults \in Nat

VARIABLES
  site,
  stored,      \* the site's URLs in table jobs
  crawling,
  queued,      \* seedCrawl.queued
  frontier,    \* targets: records of url and depth
  pages,       \* pages spent of the budget
  found,       \* URLs of the jobs found
  faults

\* History variables: they record what happened and no action reads them.
VARIABLES
  fetched,     \* the pages this crawl has fetched, in order
  damaged      \* a request or a lookup of this crawl has failed

crawlVars == <<queued, frontier, pages, found>>
histVars == <<fetched, damaged>>
vars == <<site, stored, crawling, crawlVars, faults, histVars>>

Init ==
  /\ site \in Sites
  /\ stored = {}
  /\ crawling = FALSE
  /\ queued = {Start}
  /\ frontier = << >>
  /\ pages = 0
  /\ found = {}
  /\ faults = 0
  /\ fetched = << >>
  /\ damaged = FALSE

-----------------------------------------------------------------------------
Fault == faults < MaxFaults /\ faults' = faults + 1

\* A fault: a URL is queued as often as it is listed.
FreshRepeating(urls) == {i \in DOMAIN urls : urls[i] \in site.wanted \ queued}

\* Where in a list the wanted URLs stand that were not queued before: each once.
Fresh(urls) ==
  {i \in DOMAIN urls : /\ urls[i] \in site.wanted \ queued
                       /\ \A j \in 1..i - 1 : urls[j] # urls[i]}

\* A fault: what is stored is looked up and kept.
UnknownKeepingAll(urls, places) == places

\* unknown: the URLs that are not stored.
Unknown(urls, places) == {i \in places : urls[i] \notin stored}

\* The URLs at these places, in the order of the list.
Targets(urls, places, depth) ==
  LET Nth(n) == CHOOSE i \in places : Cardinality({j \in places : j <= i}) = n
  IN  [n \in 1..Cardinality(places) |-> [url |-> urls[Nth(n)], depth |-> depth]]

Queue(urls, places) == queued' = queued \cup {urls[i] : i \in places}

-----------------------------------------------------------------------------
\* The listed pages are leaves, and go before the start page.
Open(listed, looked) ==
  /\ ~crawling
  /\ crawling' = TRUE
  /\ Queue(site.sitemap, listed)
  /\ frontier' = Append(Targets(site.sitemap, looked, MaxDepth), [url |-> Start, depth |-> 0])
  /\ pages' = 0
  /\ found' = {}
  /\ fetched' = << >>
  /\ UNCHANGED <<site, stored>>

\* robots.txt is read, then the sitemaps, and the listed pages are looked up.
Begin ==
  /\ LET listed == Fresh(site.sitemap) IN Open(listed, Unknown(site.sitemap, listed))
  /\ damaged' = FALSE
  /\ UNCHANGED faults

\* A sitemap that fails is left out; a lookup that fails leaves every page in.
BeginDamaged ==
  /\ Fault
  /\ LET listed == Fresh(site.sitemap)
     IN  \/ \E lost \in SUBSET Pages \ {{}} :
              LET left == {i \in listed : site.sitemap[i] \notin lost}
              IN  Open(left, Unknown(site.sitemap, left))
         \/ Open(listed, listed)
  /\ damaged' = TRUE

\* robots.txt cannot be reached: there is no crawl in this cycle.
BeginRefused ==
  /\ ~crawling
  /\ Fault
  /\ UNCHANGED <<site, stored, crawling, crawlVars, histVars>>

\* The crawl goes on while there is a page to fetch and a budget for it.
Current == Head(frontier)

Fetch ==
  /\ crawling
  /\ frontier # << >> /\ pages < MaxPages
  /\ pages' = pages + 1
  /\ fetched' = Append(fetched, Current.url)
  /\ UNCHANGED <<site, stored, crawling>>

\* The request fails, or ends outside the seed's scope.
PageFails ==
  /\ Fetch
  /\ frontier' = Tail(frontier)
  /\ \/ site.final[Current.url] = Outside /\ UNCHANGED <<faults, damaged>>
     \/ Fault /\ damaged' = TRUE
  /\ UNCHANGED <<queued, found>>

InScope == site.final[Current.url] # Outside

\* A posting is found under the URL the request ended at.
PageTaken ==
  /\ Fetch /\ InScope
  /\ Current.url \in site.posting
  /\ found' = found \cup {site.final[Current.url]}
  /\ frontier' = Tail(frontier)
  /\ UNCHANGED <<queued, faults, damaged>>

Follows(depth) == depth < MaxDepth

\* A page with no posting leads on, unless it is as deep as the crawl goes.
PageFollowed ==
  /\ Fetch /\ InScope
  /\ Current.url \notin site.posting
  /\ LET urls == site.links[Current.url]
         links == IF Follows(Current.depth) THEN Fresh(urls) ELSE {}
         Keep(places) == frontier' = Tail(frontier) \o Targets(urls, places, Current.depth + 1)
     IN  /\ Queue(urls, links)
         /\ \/ Keep(Unknown(urls, links)) /\ UNCHANGED <<faults, damaged>>
            \/ links # {} /\ Fault /\ damaged' = TRUE /\ Keep(links)
  /\ UNCHANGED found

\* The crawl ends, and the cycle stores what it found and the rest keeps.
Leave(jobs) ==
  /\ crawling
  /\ crawling' = FALSE
  /\ stored' = stored \cup (jobs \cap site.kept)
  /\ queued' = {Start}
  /\ frontier' = << >>
  /\ pages' = 0
  /\ found' = {}
  /\ fetched' = << >>
  /\ damaged' = FALSE
  /\ UNCHANGED site

Finish ==
  /\ frontier = << >> \/ pages = MaxPages
  /\ Leave(found)
  /\ UNCHANGED faults

\* The time is up: what was found by then is returned.
Timeout == Fault /\ Leave(found)

\* A panic in the crawl, or a cycle that stores nothing.
Lost == Fault /\ Leave({})

\* A posting is deleted from the table, between two crawls.
Forget(url) ==
  /\ ~crawling
  /\ Fault
  /\ url \in stored
  /\ stored' = stored \ {url}
  /\ UNCHANGED <<site, crawling, crawlVars, histVars>>

-----------------------------------------------------------------------------
Page == PageFails \/ PageTaken \/ PageFollowed
Crawl == Begin \/ Page \/ Finish
Faults == BeginDamaged \/ BeginRefused \/ Timeout \/ Lost \/ \E url \in Pages : Forget(url)

Next == Crawl \/ Faults

Spec == Init /\ [][Next]_vars

\* The cycles go on: the scraper's goroutine crawls again and again.
FairSpec == Spec /\ WF_vars(Crawl)

-----------------------------------------------------------------------------
(* Properties.                                                             *)

\* The wanted pages of the sitemaps, the start page apart.
Listed == (ToSet(site.sitemap) \cap site.wanted) \ {Start}

\* What a crawl should see, level by level: the start page, and the new wanted
\* pages that a page of the level before links to, unless it holds a posting,
\* ends out of scope, or is in a sitemap.
Reached[level \in 0..MaxDepth] ==
  IF level = 0 THEN {Start}
  ELSE LET before == Reached[level - 1]
           leads == {url \in before : site.final[url] # Outside /\ url \notin site.posting \cup Listed}
           linked == UNION {ToSet(site.links[url]) : url \in leads}
       IN  before \cup ((linked \cap site.wanted) \ stored)

\* A crawl misses nothing and repeats nothing: it never fetches a page twice,
\* however often pages and sitemaps list it, and one that ends before its budget,
\* with no failure, has fetched the new pages of the sitemaps and every page
\* within maxDepth links of the start page.  (crawlSeed's queued map, the
\* order of its frontier and its depths.)
CrawlComplete ==
  /\ IsInjective(fetched)
  /\ crawling /\ frontier = << >> /\ ~damaged =>
       ToSet(fetched) = Reached[MaxDepth] \cup (Listed \ stored)

\* The pages of the sitemaps that no crawl turns into a stored posting of theirs.
Hopeless ==
  {url \in Listed : site.final[url] # url \/ url \notin site.posting \cap site.kept}

\* crawler.go: KnownFunc reports what is stored, "so the page budget goes to new
\* postings".  When fewer than MaxPagesPerSeed pages of the sitemaps can never be
\* stored, the others all come to be stored for good, over as many crawls
\* as it takes and whichever of them fail.
SitemapDrains ==
  \A url \in Pages :
    Cardinality(Hopeless) < MaxPages /\ url \in Listed \ Hopeless => <>[](url \in stored)

=============================================================================
