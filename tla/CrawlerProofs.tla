---------------------------- MODULE CrawlerProofs ----------------------------
(***************************************************************************)
(* Proofs about Crawler: a crawl that nothing disturbs fetches every page  *)
(* it should and none twice, for every site, depth and budget.             *)
(*                                                                         *)
(* Once: what was fetched or waits is in the queued map, each page in one  *)
(* place.  Breadth: the pages that wait lie in the order of their depths,  *)
(* and a page that was fetched has its new links seen, waiting no deeper   *)
(* than one below it.  When nothing waits any more, all that is reached    *)
(* within a depth has been seen, by induction over that depth; the         *)
(* induction is a least number at which the claim would fail.              *)
(***************************************************************************)
EXTENDS Crawler, FiniteSetTheorems, SequenceTheorems, TLAPS

-----------------------------------------------------------------------------
(* Numbers and sets of them.                                               *)

\* A set of natural numbers that is not empty has a least member.
LEMMA LeastOf ==
  ASSUME NEW S, S \subseteq Nat, S # {}
  PROVE  \E n \in S : \A m \in S : n <= m
<1> DEFINE less == {pair \in Nat \X Nat : pair[1] < pair[2]}
<1>1. PICK n \in S : \A m \in S : ~ <<m, n>> \in less
  <2>1. IsWellFoundedOn(less, Nat)
    BY NatLessThanWellFounded, Zenon DEF OpToRel
  <2> HIDE DEF less
  <2> QED BY <2>1, WFMin
<1>2. \A m \in S : m < n => <<m, n>> \in less
  OBVIOUS
<1> HIDE DEF less
<1>3. \A m \in S : ~ (m < n)
  BY <1>1, <1>2
<1> QED BY <1>3

\* The members of a finite set of numbers are counted off one by one.
LEMMA CountedOff ==
  ASSUME NEW S \in SUBSET Int, IsFiniteSet(S)
  PROVE  /\ \A i \in S : Cardinality({j \in S : j <= i}) \in 1..Cardinality(S)
         /\ \A k \in 1..Cardinality(S) : \E i \in S : Cardinality({j \in S : j <= i}) = k
         /\ \A i, j \in S :
              Cardinality({x \in S : x <= i}) = Cardinality({x \in S : x <= j}) => i = j
<1> DEFINE n == Cardinality(S)
           upTo(i) == {j \in S : j <= i}
           rank == [i \in S |-> Cardinality(upTo(i))]
           T == 1..n
<1>1. n \in Nat
  BY FS_CardinalityType
<1>2. ASSUME NEW i \in S PROVE IsFiniteSet(upTo(i)) /\ Cardinality(upTo(i)) \in T
  <2>1. upTo(i) \in SUBSET S /\ i \in upTo(i)
    OBVIOUS
  <2>2. /\ IsFiniteSet(upTo(i)) /\ Cardinality(upTo(i)) <= n
        /\ Cardinality(upTo(i)) \in Nat
    BY <2>1, FS_Subset, FS_CardinalityType
  <2>3. Cardinality(upTo(i)) # 0
    BY <2>1, <2>2, FS_EmptySet
  <2> QED BY <1>1, <2>2, <2>3
<1>3. ASSUME NEW i \in S, NEW j \in S, i < j
      PROVE  Cardinality(upTo(i)) # Cardinality(upTo(j))
  <2>0. \A x \in S : x \in Int
    OBVIOUS
  <2>1. /\ \A x \in S : x <= i => x <= j
        /\ j <= j /\ ~(j <= i)
    BY <1>3, <2>0
  <2>3. upTo(i) \in SUBSET upTo(j) /\ j \in upTo(j) /\ j \notin upTo(i)
    BY <2>1
  <2>2. upTo(i) # upTo(j)
    BY <2>3
  <2> QED BY <1>2, <2>3, <2>2, FS_Subset
<1>4. rank \in Injection(S, T)
  <2>1. rank \in [S -> T]
    BY <1>2
  <2>2. \A i, j \in S : rank[i] = rank[j] => i = j
    BY <1>3
  <2> QED BY <2>1, <2>2 DEF Injection, IsInjective
<1>5. IsFiniteSet(T) /\ Cardinality(T) = n
  <2>1. IsFiniteSet(1..n) /\ Cardinality(1..n) = IF 1 > n THEN 0 ELSE n - 1 + 1
    BY <1>1, FS_Interval
  <2> QED BY <1>1, <2>1
<1>6. rank \in Surjection(S, T)
  BY <1>4, <1>5, FS_Injection
<1>7. \A k \in T : \E i \in S : rank[i] = k
  BY <1>6 DEF Surjection
<1>8. \A i, j \in S : rank[i] = rank[j] => i = j
  BY <1>4 DEF Injection, IsInjective
<1> QED BY <1>2, <1>7, <1>8

-----------------------------------------------------------------------------
(* The pages to reach, level by level.                                     *)

Leads(before) == {url \in before : site.final[url] # Outside /\ url \notin site.posting \cup Listed}
After(before) ==
  LET linked == UNION {ToSet(site.links[url]) : url \in Leads(before)}
  IN  before \cup ((linked \cap site.wanted) \ stored)

Levels(f, n) == f = [k \in 0..n |-> IF k = 0 THEN {Start} ELSE After(f[k - 1])]

LEMMA LevelsExist == \A n \in Nat : \E f : Levels(f, n)
<1> DEFINE bad == {n \in Nat : ~ \E f : Levels(f, n)}
<1> SUFFICES ASSUME bad # {} PROVE FALSE
  OBVIOUS
<1>1. PICK n \in bad : \A m \in bad : n <= m
  BY LeastOf
<1>2. n # 0
  <2>1. Levels([k \in 0..0 |-> {Start}], 0)
    BY DEF Levels
  <2> QED BY <2>1
<1>3. n - 1 \in Nat /\ n - 1 \notin bad
  BY <1>1, <1>2
<1>4. PICK f : Levels(f, n - 1)
  BY <1>3
<1> DEFINE g == [k \in 0..n |-> IF k = n THEN After(f[n - 1]) ELSE f[k]]
<1>5. \A k \in 0..n : g[k] = IF k = 0 THEN {Start} ELSE After(g[k - 1])
  <2> TAKE k \in 0..n
  <2>1. CASE k = n
    BY <2>1, <1>2, <1>3
  <2>2. CASE k # n
    <3>1. k \in 0..n - 1 /\ n \in Nat
      BY <2>2
    <3>2. f[k] = IF k = 0 THEN {Start} ELSE After(f[k - 1])
      BY <3>1, <1>4, Zenon DEF Levels
    <3>3. k # 0 => k - 1 \in 0..n /\ k - 1 # n
      BY <3>1
    <3> QED BY <2>2, <3>2, <3>3
  <2> QED BY <2>1, <2>2
<1>6. Levels(g, n)
  BY <1>5, Zenon DEF Levels
<1> QED BY <1>1, <1>6

LEMMA ReachedLevels ==
  /\ Reached[0] = {Start}
  /\ \A k \in 1..MaxDepth : Reached[k] = After(Reached[k - 1])
<1>1. \E f : Levels(f, MaxDepth)
  BY LevelsExist, CrawlAssumption
<1>2. Levels(Reached, MaxDepth)
  BY <1>1, Zenon DEF Reached, Levels, After, Leads
<1>3. \A k \in 0..MaxDepth : Reached[k] = IF k = 0 THEN {Start} ELSE After(Reached[k - 1])
  BY <1>2, Zenon DEF Levels
<1> QED BY <1>3, CrawlAssumption


LEMMA ReachedGrows == \A k \in 0..MaxDepth : Reached[k] \subseteq Reached[MaxDepth]
<1> DEFINE bad == {n \in Nat : n <= MaxDepth /\ ~ (Reached[MaxDepth - n] \subseteq Reached[MaxDepth])}
<1>1. bad = {}
  <2> SUFFICES ASSUME bad # {} PROVE FALSE
    OBVIOUS
  <2>1. PICK n \in bad : \A m \in bad : n <= m
    BY LeastOf
  <2>2. n # 0
    BY <2>1, CrawlAssumption
  <2>3. n - 1 \in Nat /\ n - 1 <= MaxDepth /\ n - 1 \notin bad
    <3>1. n \in Nat /\ n <= MaxDepth
      BY <2>1
    <3> HIDE DEF bad
    <3> QED BY <2>1, <2>2, <3>1, CrawlAssumption
  <2>4. Reached[MaxDepth - (n - 1)] \subseteq Reached[MaxDepth]
    BY <2>3
  <2>5. PICK k \in 1..MaxDepth : k = MaxDepth - (n - 1) /\ k - 1 = MaxDepth - n
    BY <2>1, <2>3, CrawlAssumption
  <2>6. Reached[k - 1] \subseteq Reached[k]
    BY ReachedLevels DEF After
  <2>7. Reached[MaxDepth - n] \subseteq Reached[MaxDepth]
    BY <2>4, <2>5, <2>6
  <2> QED BY <2>1, <2>7
<1> SUFFICES ASSUME NEW k \in 0..MaxDepth PROVE Reached[k] \subseteq Reached[MaxDepth]
  OBVIOUS
<1>2. PICK n \in Nat : n = MaxDepth - k /\ k = MaxDepth - n /\ n <= MaxDepth
  BY CrawlAssumption
<1> QED BY <1>1, <1>2

-----------------------------------------------------------------------------
(* Lists of targets.                                                       *)

Entry == [url : Pages, depth : 0..MaxDepth]

\* The sequence t holds the URLs of a set, each once, at one depth.
Listing(t, set, depth) ==
  /\ t \in Seq(Entry)
  /\ \A n \in DOMAIN t : t[n].url \in set /\ t[n].depth = depth
  /\ \A url \in set : \E n \in DOMAIN t : t[n].url = url
  /\ \A m, n \in DOMAIN t : t[m].url = t[n].url => m = n

LEMMA TargetsList ==
  ASSUME NEW urls \in Seq(Pages), NEW places \in SUBSET (DOMAIN urls), NEW depth,
         places # {} => depth \in 0..MaxDepth,
         \A i, j \in places : urls[i] = urls[j] => i = j
  PROVE  Listing(Targets(urls, places, depth), {urls[i] : i \in places}, depth)
<1> DEFINE rank(i) == Cardinality({j \in places : j <= i})
           Nth(n) == CHOOSE i \in places : rank(i) = n
           N == Cardinality(places)
           t == Targets(urls, places, depth)
<1>1. places \in SUBSET Int /\ IsFiniteSet(places) /\ N \in Nat
  <2>1. DOMAIN urls = 1..Len(urls) /\ Len(urls) \in Nat
    BY LenProperties
  <2>2. IsFiniteSet(1..Len(urls))
    <3>1. PICK n \in Nat : n = Len(urls)
      BY <2>1
    <3>2. IsFiniteSet(1..n)
      BY FS_Interval
    <3> QED BY <3>1, <3>2
  <2>3. IsFiniteSet(places)
    BY <2>1, <2>2, FS_Subset
  <2> QED BY <2>1, <2>3, FS_CardinalityType
<1>2. /\ \A i \in places : rank(i) \in 1..N
      /\ \A k \in 1..N : \E i \in places : rank(i) = k
      /\ \A i, j \in places : rank(i) = rank(j) => i = j
  BY <1>1, CountedOff
<1>3. t = [n \in 1..N |-> [url |-> urls[Nth(n)], depth |-> depth]]
  BY DEF Targets
<1> HIDE DEF rank, N, t
<1>4. \A n \in 1..N : Nth(n) \in places /\ rank(Nth(n)) = n
  BY <1>2
<1>5. \A i \in places : Nth(rank(i)) = i
  BY <1>2, <1>4
<1> HIDE DEF Nth
<1>6. \A i \in places : urls[i] \in Pages
  BY ElementOfSeq, LenProperties
<1>7. \A n \in 1..N : t[n] \in Entry
  <2> SUFFICES ASSUME NEW n \in 1..N PROVE t[n] \in Entry
    OBVIOUS
  <2>1. t[n] = [url |-> urls[Nth(n)], depth |-> depth] /\ Nth(n) \in places
    BY <1>3, <1>4
  <2> QED BY <2>1, <1>6 DEF Entry
<1>8. t \in Seq(Entry) /\ DOMAIN t = 1..N
  BY <1>1, <1>3, <1>7, SeqDef
<1>9. \A n \in DOMAIN t : t[n].url = urls[Nth(n)] /\ t[n].depth = depth
  BY <1>3, <1>8
<1>10. \A m, n \in DOMAIN t : t[m].url = t[n].url => m = n
  BY <1>4, <1>8, <1>9
<1>11. \A i \in places : rank(i) \in DOMAIN t /\ t[rank(i)].url = urls[i]
  BY <1>2, <1>5, <1>8, <1>9
<1> QED BY <1>4, <1>8, <1>9, <1>10, <1>11 DEF Listing, t

LEMMA FreshIs ==
  ASSUME NEW urls \in Seq(Pages)
  PROVE  /\ Fresh(urls) \in SUBSET (DOMAIN urls)
         /\ \A i, j \in Fresh(urls) : urls[i] = urls[j] => i = j
         /\ {urls[i] : i \in Fresh(urls)} = (ToSet(urls) \cap site.wanted) \ queued
<1>1. DOMAIN urls = 1..Len(urls) /\ Len(urls) \in Nat
  BY LenProperties
<1>2. Fresh(urls) \in SUBSET (DOMAIN urls)
  BY DEF Fresh
<1>3. ASSUME NEW i \in Fresh(urls), NEW j \in Fresh(urls), urls[i] = urls[j] PROVE i = j
  BY <1>1, <1>2, <1>3 DEF Fresh
<1>4. ASSUME NEW url \in (ToSet(urls) \cap site.wanted) \ queued
      PROVE  \E i \in Fresh(urls) : urls[i] = url
  <2> DEFINE at == {i \in DOMAIN urls : urls[i] = url}
  <2>1. at # {} /\ at \subseteq Nat
    BY <1>1 DEF ToSet
  <2>2. PICK i \in at : \A j \in at : i <= j
    BY <2>1, LeastOf
  <2>3. \A j \in 1..i - 1 : urls[j] # urls[i]
    BY <1>1, <2>2
  <2> QED BY <2>2, <2>3 DEF Fresh
<1>5. \A i \in Fresh(urls) : urls[i] \in (ToSet(urls) \cap site.wanted) \ queued
  BY DEF Fresh, ToSet
<1> QED BY <1>2, <1>3, <1>4, <1>5


-----------------------------------------------------------------------------
(* The invariant.                                                          *)

Places == DOMAIN frontier
Waiting == {frontier[i].url : i \in Places}
Seen == ToSet(fetched) \cup Waiting

Shape ==
  /\ site \in Sites
  /\ stored \subseteq Pages /\ queued \subseteq Pages /\ found \subseteq Pages
  /\ frontier \in Seq(Entry)
  /\ fetched \in Seq(Pages)
  /\ crawling \in BOOLEAN /\ damaged \in BOOLEAN
  /\ ~crawling => queued = {Start} /\ frontier = << >> /\ fetched = << >> /\ ~damaged

\* No page is fetched or waits twice, failures or not: what was fetched or waits
\* is in the queued map.
Once ==
  /\ IsInjective(fetched)
  /\ \A i, j \in Places : frontier[i].url = frontier[j].url => i = j
  /\ Waiting \cap ToSet(fetched) = {}
  /\ Seen \subseteq queued

\* The listed pages wait first, as deep as the crawl goes; the others by depth,
\* of which there are two at most.
Leaf(i) == frontier[i].url \in Listed

Ordered ==
  /\ \A i \in Places : Leaf(i) => frontier[i].depth = MaxDepth
  /\ \A i, j \in Places : i < j =>
       \/ Leaf(i)
       \/ ~Leaf(j) /\ frontier[j].depth \in {frontier[i].depth, frontier[i].depth + 1}

\* What was queued is stored, or has been seen.
NewAreSeen ==
  /\ queued \subseteq Seen \cup stored /\ Listed \subseteq queued
  /\ Start \in Seen
  /\ \A i \in Places : frontier[i].url = Start => frontier[i].depth = 0

\* Nothing is fetched or waits that should not be.
OnlyReached ==
  /\ \A i \in Places : IF Leaf(i) THEN frontier[i].url \notin stored
                       ELSE frontier[i].url \in Reached[frontier[i].depth]
  /\ ToSet(fetched) \subseteq Reached[MaxDepth] \cup (Listed \ stored)

\* The links of a page that was fetched have been seen, and wait no deeper than
\* one below the least depth at which the page is reached.
New(url) == (ToSet(site.links[url]) \cap site.wanted) \ stored

Followed ==
  \A url \in Leads(ToSet(fetched)) : \A k \in 0..MaxDepth - 1 :
    url \in Reached[k] =>
      \A new \in New(url) :
        /\ new \in Seen
        /\ \A i \in Places : frontier[i].url = new /\ ~Leaf(i) => frontier[i].depth <= k + 1

Breadth ==
  crawling /\ ~damaged => Ordered /\ NewAreSeen /\ OnlyReached /\ Followed

CrawlInv == Shape /\ Once /\ Breadth

-----------------------------------------------------------------------------
(* What the steps do.                                                      *)

LEMMA SiteIs ==
  ASSUME Shape
  PROVE  /\ site.sitemap \in Seq(Pages)
         /\ \A url \in Pages : site.links[url] \in Seq(Pages)
         /\ \A url \in Pages : site.final[url] \in Pages \cup {Outside}
         /\ site.wanted \subseteq Pages /\ Listed \subseteq Pages
         /\ site.kept \subseteq Pages
         /\ Start \in Pages /\ Outside \notin Pages
  BY SiteAssumption DEF Shape, Listed

Leading(url) == site.final[url] # Outside /\ url \notin site.posting

\* The crawl begins: fresh are the pages its sitemaps list, kept those to fetch.
Opened(t, fresh, kept) ==
  /\ UNCHANGED <<site, stored>> /\ crawling' = TRUE
  /\ fetched' = << >> /\ found' = {}
  /\ queued' = queued \cup fresh
  /\ frontier' = Append(t, [url |-> Start, depth |-> 0])
  /\ fresh \in SUBSET Pages /\ fresh \cap queued = {} /\ kept \subseteq fresh
  /\ Listing(t, kept, MaxDepth)
  /\ damaged' \in BOOLEAN
  /\ ~damaged' => fresh = Listed \ queued /\ kept = fresh \ stored

LEMMA OpenIs ==
  ASSUME NEW listed \in SUBSET Fresh(site.sitemap), NEW looked \in SUBSET listed, Shape,
         Open(listed, looked), damaged' \in BOOLEAN,
         ~damaged' => listed = Fresh(site.sitemap) /\ looked = Unknown(site.sitemap, listed)
  PROVE  \E t, fresh, kept : Opened(t, fresh, kept)
<1> DEFINE urls == site.sitemap
           fresh == {urls[i] : i \in listed}
           kept == {urls[i] : i \in looked}
           t == Targets(urls, looked, MaxDepth)
<1>1. urls \in Seq(Pages)
  BY SiteIs
<1>2. /\ Fresh(urls) \in SUBSET (DOMAIN urls)
      /\ \A i, j \in Fresh(urls) : urls[i] = urls[j] => i = j
      /\ {urls[i] : i \in Fresh(urls)} = (ToSet(urls) \cap site.wanted) \ queued
  BY <1>1, FreshIs
<1>3. Listing(t, kept, MaxDepth)
  <2>1. MaxDepth \in 0..MaxDepth
    BY CrawlAssumption
  <2>2. looked \in SUBSET (DOMAIN urls) /\ \A i, j \in looked : urls[i] = urls[j] => i = j
    BY <1>2
  <2> QED BY <1>1, <2>1, <2>2, TargetsList
<1>4. fresh \in SUBSET ((ToSet(urls) \cap site.wanted) \ queued) /\ kept \subseteq fresh
  BY <1>2
<1>5. fresh \in SUBSET Pages /\ fresh \cap queued = {}
  BY <1>4, SiteIs
<1>6. ~damaged' => fresh = Listed \ queued /\ kept = fresh \ stored
  <2> SUFFICES ASSUME ~damaged' PROVE fresh = Listed \ queued /\ kept = fresh \ stored
    OBVIOUS
  <2>1. Start \in queued
    BY DEF Open, Shape
  <2>2. fresh = Listed \ queued
    BY <1>2, <2>1 DEF Listed
  <2>3. looked = {i \in listed : urls[i] \notin stored}
    BY DEF Unknown
  <2> QED BY <2>2, <2>3
<1>7. /\ UNCHANGED <<site, stored>> /\ crawling' = TRUE /\ fetched' = << >> /\ found' = {}
      /\ queued' = queued \cup fresh
      /\ frontier' = Append(t, [url |-> Start, depth |-> 0])
  BY DEF Open, Queue
<1> HIDE DEF t, fresh, kept
<1>8. Opened(t, fresh, kept)
  BY <1>3, <1>4, <1>5, <1>6, <1>7 DEF Opened
<1> QED BY <1>8

LEMMA Opens ==
  ASSUME Shape, Begin \/ BeginDamaged
  PROVE  ~crawling /\ \E t, fresh, kept : Opened(t, fresh, kept)
<1> DEFINE listed == Fresh(site.sitemap)
<1>0. ~crawling
  BY DEF Begin, BeginDamaged, Open
<1>1. CASE Begin
  <2>1. Open(listed, Unknown(site.sitemap, listed)) /\ ~damaged' /\ damaged' \in BOOLEAN
    BY <1>1 DEF Begin
  <2>2. Unknown(site.sitemap, listed) \in SUBSET listed
    BY DEF Unknown
  <2> QED BY <1>0, <2>1, <2>2, OpenIs
<1>2. CASE BeginDamaged
  <2> DEFINE Left(lost) == {i \in listed : site.sitemap[i] \notin lost}
             Loses(lost) == Open(Left(lost), Unknown(site.sitemap, Left(lost)))
             goal == \E left \in SUBSET listed : \E looked \in SUBSET left : Open(left, looked)
  <2>1. goal
    <3>1. Open(listed, listed) \/ \E lost \in SUBSET Pages : Loses(lost)
      BY <1>2, Zenon DEF BeginDamaged
    <3>2. Open(listed, listed) => goal
      OBVIOUS
    <3>3. ASSUME NEW lost \in SUBSET Pages, Loses(lost) PROVE goal
      <4>1. Left(lost) \in SUBSET listed /\ Unknown(site.sitemap, Left(lost)) \in SUBSET Left(lost)
        BY DEF Unknown
      <4>2. PICK left \in SUBSET listed : left = Left(lost)
        BY <4>1
      <4>3. PICK looked \in SUBSET left : looked = Unknown(site.sitemap, Left(lost))
        BY <4>1, <4>2
      <4>4. Open(left, looked)
        BY <3>3, <4>2, <4>3
      <4> HIDE DEF listed
      <4> QED BY <4>4
    <3> HIDE DEF goal, Loses
    <3> QED BY <3>1, <3>2, <3>3
  <2>3. PICK left \in SUBSET listed : \E looked \in SUBSET left : Open(left, looked)
    BY <2>1
  <2>4. PICK looked \in SUBSET left : Open(left, looked)
    BY <2>3
  <2>2. damaged' = TRUE
    BY <1>2 DEF BeginDamaged
  <2> HIDE DEF listed
  <2> QED BY <1>0, <2>2, <2>4, OpenIs DEF listed
<1> QED BY <1>1, <1>2

\* A page is fetched: fresh are the links it leads to, kept those to fetch.
Walked(t, fresh, kept) ==
  /\ crawling /\ frontier # << >>
  /\ UNCHANGED <<site, stored, crawling>> /\ found' \subseteq Pages
  /\ fetched' = Append(fetched, Current.url)
  /\ queued' = queued \cup fresh
  /\ frontier' = Tail(frontier) \o t
  /\ fresh \in SUBSET Pages /\ fresh \cap queued = {} /\ kept \subseteq fresh
  /\ Listing(t, kept, Current.depth + 1)
  /\ damaged' \in BOOLEAN
  /\ ~damaged' =>
       /\ ~damaged
       /\ kept = fresh \ stored
       /\ fresh = IF Leading(Current.url) /\ Current.depth < MaxDepth
                    THEN (ToSet(site.links[Current.url]) \cap site.wanted) \ queued ELSE {}

LEMMA HeadIs ==
  ASSUME Shape, Fetch
  PROVE  /\ 1 \in Places /\ Current = frontier[1] /\ Current \in Entry
         /\ Current.url \in Pages /\ Current.depth \in 0..MaxDepth
         /\ Tail(frontier) \in Seq(Entry) /\ Len(Tail(frontier)) = Len(frontier) - 1
         /\ Len(frontier) \in Nat \ {0}
         /\ \A i \in 1..(Len(frontier) - 1) : Tail(frontier)[i] = frontier[i + 1]
<1>1. frontier \in Seq(Entry) /\ frontier # << >>
  BY DEF Shape, Fetch
<1>2. Current \in Entry /\ Tail(frontier) \in Seq(Entry) /\ Len(Tail(frontier)) = Len(frontier) - 1
      /\ \A i \in 1..Len(Tail(frontier)) : Tail(frontier)[i] = frontier[i + 1]
  BY <1>1, HeadTailProperties DEF Current
<1>3. Len(frontier) \in Nat \ {0} /\ Places = 1..Len(frontier)
  BY <1>1, EmptySeq, LenProperties DEF Places
<1>4. Current = frontier[1]
  BY <1>1 DEF Current
<1> QED BY <1>2, <1>3, <1>4 DEF Entry

LEMMA NoneListed == Listing(<< >>, {}, Current.depth + 1)
  BY EmptySeq DEF Listing

LEMMA WalkIs ==
  ASSUME Shape, Page
  PROVE  \E t, fresh, kept : Walked(t, fresh, kept)
<1>0. Fetch
  BY DEF Page, PageFails, PageTaken, PageFollowed
<1>1. /\ crawling /\ frontier # << >> /\ UNCHANGED <<site, stored, crawling>>
      /\ fetched' = Append(fetched, Current.url)
  BY <1>0 DEF Fetch
<1>2. Tail(frontier) \o << >> = Tail(frontier)
  BY <1>0, HeadIs, ConcatEmptySeq
<1>3. CASE PageFails \/ PageTaken
  <2>1. /\ frontier' = Tail(frontier) /\ queued' = queued
        /\ damaged' \in BOOLEAN /\ (~damaged' => ~damaged /\ ~Leading(Current.url))
    BY <1>3 DEF PageFails, PageTaken, Leading, InScope, Shape
  <2>2. found' \subseteq Pages
    BY <1>0, <1>3, HeadIs, SiteIs DEF PageFails, PageTaken, InScope, Shape
  <2>3. Walked(<< >>, {}, {})
    BY <1>1, <1>2, <2>1, <2>2, NoneListed DEF Walked
  <2> QED BY <2>3
<1>4. CASE PageFollowed
  <2> DEFINE urls == site.links[Current.url]
             links == IF Follows(Current.depth) THEN Fresh(urls) ELSE {}
             fresh == {urls[i] : i \in links}
             Keep(places) == frontier' = Tail(frontier) \o Targets(urls, places, Current.depth + 1)
  <2>1. urls \in Seq(Pages)
    BY <1>0, HeadIs, SiteIs
  <2>2. /\ Fresh(urls) \in SUBSET (DOMAIN urls)
        /\ \A i, j \in Fresh(urls) : urls[i] = urls[j] => i = j
        /\ {urls[i] : i \in Fresh(urls)} = (ToSet(urls) \cap site.wanted) \ queued
    BY <2>1, FreshIs
  <2>3. fresh = IF Follows(Current.depth) THEN (ToSet(urls) \cap site.wanted) \ queued ELSE {}
    BY <2>2
  <2>4. ASSUME NEW places \in SUBSET links
        PROVE  Listing(Targets(urls, places, Current.depth + 1), {urls[i] : i \in places}, Current.depth + 1)
    <3>1. places # {} => Current.depth + 1 \in 0..MaxDepth
      BY <1>0, HeadIs, CrawlAssumption DEF Follows
    <3>2. places \in SUBSET (DOMAIN urls) /\ \A i, j \in places : urls[i] = urls[j] => i = j
      BY <2>2
    <3> HIDE DEF urls, links
    <3> QED BY <2>1, <3>1, <3>2, TargetsList
  <2>5. \E places \in SUBSET links :
          /\ Keep(places) /\ damaged' \in BOOLEAN
          /\ ~damaged' => ~damaged /\ places = {i \in links : urls[i] \notin stored}
    <3>1. /\ \/ Keep(Unknown(urls, links)) /\ UNCHANGED <<faults, damaged>>
             \/ links # {} /\ Fault /\ damaged' = TRUE /\ Keep(links)
      BY <1>4 DEF PageFollowed
    <3>2. Unknown(urls, links) = {i \in links : urls[i] \notin stored}
      BY DEF Unknown
    <3>3. damaged \in BOOLEAN
      BY DEF Shape
    <3>4. Unknown(urls, links) \in SUBSET links /\ links \in SUBSET links
      BY <3>2
    <3> HIDE DEF Keep, links, urls
    <3>5. CASE Keep(Unknown(urls, links)) /\ UNCHANGED <<faults, damaged>>
      BY <3>2, <3>3, <3>4, <3>5
    <3>6. CASE links # {} /\ Fault /\ damaged' = TRUE /\ Keep(links)
      BY <3>4, <3>6
    <3> QED BY <3>1, <3>5, <3>6
  <2>6. PICK places \in SUBSET links :
          /\ Keep(places) /\ damaged' \in BOOLEAN
          /\ ~damaged' => ~damaged /\ places = {i \in links : urls[i] \notin stored}
    BY <2>5
  <2> DEFINE kept == {urls[i] : i \in places}
             t == Targets(urls, places, Current.depth + 1)
  <2>7. queued' = queued \cup fresh /\ found' = found /\ found \subseteq Pages
    BY <1>4 DEF PageFollowed, Queue, Shape
  <2>8. fresh \in SUBSET Pages /\ fresh \cap queued = {} /\ kept \subseteq fresh
    BY <2>3, <2>6, SiteIs
  <2>9. Leading(Current.url) /\ (Follows(Current.depth) <=> Current.depth < MaxDepth)
    BY <1>4 DEF PageFollowed, InScope, Leading, Follows
  <2>10. ~damaged' => ~damaged /\ kept = fresh \ stored
    BY <2>6
  <2>11. Listing(t, kept, Current.depth + 1) /\ frontier' = Tail(frontier) \o t
    BY <2>4, <2>6
  <2> HIDE DEF t, kept, fresh, links
  <2>12. Walked(t, fresh, kept)
    BY <1>1, <2>3, <2>6, <2>7, <2>8, <2>9, <2>10, <2>11 DEF Walked
  <2> QED BY <2>12
<1> QED BY <1>3, <1>4 DEF Page

-----------------------------------------------------------------------------
(* Type correctness.                                                       *)

LEMMA StartEntry == Shape => [url |-> Start, depth |-> 0] \in Entry
  BY SiteIs, CrawlAssumption DEF Entry

\* Where each target comes from, and where each goes.
LEMMA OpenedPlaces ==
  ASSUME Shape, NEW t, NEW fresh, NEW kept, Opened(t, fresh, kept)
  PROVE  /\ frontier' \in Seq(Entry)
         /\ \A i \in Places' :
              \/ i \in DOMAIN t /\ frontier'[i] = t[i]
              \/ i = Len(t) + 1 /\ frontier'[i] = [url |-> Start, depth |-> 0]
         /\ \A i \in DOMAIN t : i \in Places' /\ frontier'[i] = t[i] /\ i < Len(t) + 1
         /\ Len(t) + 1 \in Places' /\ frontier'[Len(t) + 1] = [url |-> Start, depth |-> 0]
         /\ Places' \subseteq Nat
<1>1. t \in Seq(Entry) /\ frontier' = Append(t, [url |-> Start, depth |-> 0])
  BY DEF Opened, Listing
<1>2. PICK e \in Entry : e = [url |-> Start, depth |-> 0]
  BY StartEntry
<1>3. /\ Append(t, e) \in Seq(Entry) /\ Len(Append(t, e)) = Len(t) + 1
      /\ \A i \in 1..Len(t) : Append(t, e)[i] = t[i]
      /\ Append(t, e)[Len(t) + 1] = e
  BY <1>1, AppendProperties
<1>4. frontier' = Append(t, e)
  BY <1>1, <1>2
<1>5. /\ Len(t) \in Nat /\ DOMAIN t = 1..Len(t)
      /\ Places' = 1..(Len(t) + 1)
  BY <1>1, <1>3, <1>4, LenProperties DEF Places
<1> QED BY <1>2, <1>3, <1>4, <1>5

LEMMA WalkedPlaces ==
  ASSUME Shape, NEW t, NEW fresh, NEW kept, Walked(t, fresh, kept)
  PROVE  /\ frontier' \in Seq(Entry)
         /\ 1 \in Places /\ Current = frontier[1] /\ Current \in Entry
         /\ Places \subseteq Nat \ {0} /\ Places' \subseteq Nat \ {0}
         /\ \E L \in Nat :
              /\ \A i \in Places' : i <= L => i + 1 \in Places /\ frontier'[i] = frontier[i + 1]
              /\ \A i \in Places' : i > L => i - L \in DOMAIN t /\ frontier'[i] = t[i - L]
              /\ \A i \in Places : i # 1 => i - 1 \in Places' /\ frontier'[i - 1] = frontier[i]
              /\ \A n \in DOMAIN t : L + n \in Places' /\ frontier'[L + n] = t[n]
<1>1. frontier \in Seq(Entry) /\ frontier # << >> /\ t \in Seq(Entry) /\ frontier' = Tail(frontier) \o t
  BY DEF Shape, Walked, Listing
<1>2. /\ Head(frontier) \in Entry /\ Tail(frontier) \in Seq(Entry)
      /\ Len(Tail(frontier)) = Len(frontier) - 1
      /\ \A i \in 1..Len(Tail(frontier)) : Tail(frontier)[i] = frontier[i + 1]
  BY <1>1, HeadTailProperties
<1>3. PICK L \in Nat : L = Len(Tail(frontier)) /\ Len(frontier) = L + 1
  <2>1. Len(frontier) \in Nat \ {0}
    BY <1>1, EmptySeq, LenProperties
  <2>2. PICK n \in Nat : n = Len(frontier) - 1 /\ Len(frontier) = n + 1
    BY <2>1
  <2> QED BY <1>2, <2>2
<1>4. /\ frontier' \in Seq(Entry) /\ Len(frontier') = L + Len(t)
      /\ \A i \in 1..(L + Len(t)) :
           frontier'[i] = IF i <= L THEN Tail(frontier)[i] ELSE t[i - L]
  BY <1>1, <1>2, <1>3, ConcatProperties
<1>5. /\ Len(t) \in Nat /\ DOMAIN t = 1..Len(t)
      /\ Places = 1..(L + 1) /\ Places' = 1..(L + Len(t))
  BY <1>1, <1>3, <1>4, LenProperties DEF Places
<1>6. Current = frontier[1]
  BY <1>1 DEF Current
<1>7. ASSUME NEW i \in Places'
      PROVE  /\ i <= L => i + 1 \in Places /\ frontier'[i] = frontier[i + 1]
             /\ i > L => i - L \in DOMAIN t /\ frontier'[i] = t[i - L]
  BY <1>2, <1>3, <1>4, <1>5
<1>8. ASSUME NEW i \in Places, i # 1 PROVE i - 1 \in Places' /\ frontier'[i - 1] = frontier[i]
  <2>1. PICK j \in 1..L : i = j + 1 /\ i - 1 = j
    BY <1>5, <1>8
  <2>2. frontier'[j] = Tail(frontier)[j] /\ Tail(frontier)[j] = frontier[j + 1] /\ j \in Places'
    BY <1>2, <1>3, <1>4, <1>5
  <2> QED BY <2>1, <2>2
<1>9. ASSUME NEW n \in DOMAIN t PROVE L + n \in Places' /\ frontier'[L + n] = t[n]
  <2>1. PICK m \in 1..(L + Len(t)) : m = L + n /\ m - L = n /\ ~ (m <= L)
    BY <1>5
  <2> QED BY <1>4, <1>5, <2>1
<1>10. Places \subseteq Nat \ {0} /\ Places' \subseteq Nat \ {0} /\ 1 \in Places
  BY <1>5
<1>11. Current \in Entry
  BY <1>1, <1>2 DEF Current
<1> QED BY <1>4, <1>6, <1>7, <1>8, <1>9, <1>10, <1>11

\* The pages fetched after one more is.
LEMMA FetchedGrows ==
  ASSUME Shape, NEW url \in Pages, fetched' = Append(fetched, url)
  PROVE  /\ fetched' \in Seq(Pages)
         /\ ToSet(fetched') = ToSet(fetched) \cup {url}
         /\ IsInjective(fetched) /\ url \notin ToSet(fetched) => IsInjective(fetched')
<1>1. fetched \in Seq(Pages)
  BY DEF Shape
<1>2. /\ fetched' \in Seq(Pages) /\ Len(fetched') = Len(fetched) + 1
      /\ \A i \in 1..Len(fetched) : fetched'[i] = fetched[i]
      /\ fetched'[Len(fetched) + 1] = url
  BY <1>1, AppendProperties
<1>3. PICK n \in Nat : n = Len(fetched) /\ DOMAIN fetched = 1..n /\ DOMAIN fetched' = 1..(n + 1)
  BY <1>1, <1>2, LenProperties
<1>4. ToSet(fetched') = ToSet(fetched) \cup {url}
  <2>1. \A i \in 1..(n + 1) : i \in 1..n \/ i = n + 1
    OBVIOUS
  <2>2. \A i \in 1..n : i \in 1..(n + 1)
    OBVIOUS
  <2>3. n + 1 \in 1..(n + 1)
    OBVIOUS
  <2> QED BY <1>2, <1>3, <2>1, <2>2, <2>3 DEF ToSet
<1>5. ASSUME IsInjective(fetched), url \notin ToSet(fetched) PROVE IsInjective(fetched')
  <2>1. \A i, j \in 1..n : fetched[i] = fetched[j] => i = j
    BY <1>3, <1>5 DEF IsInjective
  <2>2. \A i \in 1..n : fetched[i] # url
    BY <1>3, <1>5 DEF ToSet
  <2>3. \A i, j \in 1..(n + 1) : fetched'[i] = fetched'[j] => i = j
    BY <1>2, <1>3, <2>1, <2>2
  <2> QED BY <1>3, <2>3 DEF IsInjective
<1> QED BY <1>2, <1>4, <1>5

LEMMA ShapeStep == Shape /\ [Next]_vars => Shape'
<1> SUFFICES ASSUME Shape, [Next]_vars PROVE Shape'
  OBVIOUS
<1>1. CASE Begin \/ BeginDamaged
  <2>1. PICK t, fresh, kept : Opened(t, fresh, kept)
    BY <1>1, Opens
  <2>2. frontier' \in Seq(Entry)
    BY <2>1, OpenedPlaces
  <2>3. << >> \in Seq(Pages)
    BY EmptySeq
  <2> QED BY <2>1, <2>2, <2>3 DEF Opened, Shape
<1>2. CASE Page
  <2>1. PICK t, fresh, kept : Walked(t, fresh, kept)
    BY <1>2, WalkIs
  <2>2. frontier' \in Seq(Entry) /\ Current.url \in Pages
    BY <2>1, WalkedPlaces DEF Entry
  <2>3. fetched' \in Seq(Pages)
    BY <2>1, <2>2, FetchedGrows DEF Walked
  <2> QED BY <2>1, <2>2, <2>3 DEF Walked, Shape
<1>3. ASSUME NEW jobs \in SUBSET Pages, Leave(jobs) PROVE Shape'
  <2>1. << >> \in Seq(Pages) /\ << >> \in Seq(Entry)
    BY EmptySeq
  <2>2. {Start} \subseteq Pages /\ stored \cup (jobs \cap site.kept) \subseteq Pages
    BY SiteIs DEF Shape
  <2> QED BY <1>3, <2>1, <2>2 DEF Leave, Shape
<1>4. CASE Finish \/ Timeout \/ Lost
  <2>1. found \in SUBSET Pages /\ {} \in SUBSET Pages
    BY DEF Shape
  <2> QED BY <1>3, <1>4, <2>1 DEF Finish, Timeout, Lost
<1>5. CASE BeginRefused \/ (\E url \in Pages : Forget(url)) \/ UNCHANGED vars
  BY <1>5 DEF BeginRefused, Forget, crawlVars, histVars, vars, Shape
<1> QED BY <1>1, <1>2, <1>4, <1>5 DEF Next, Crawl, Faults

-----------------------------------------------------------------------------
(* No page is fetched twice.                                               *)

LEMMA OnceStep ==
  ASSUME Shape, Once, [Next]_vars
  PROVE  Once'
<1>1. CASE Begin \/ BeginDamaged
  <2>1. PICK t, fresh, kept : Opened(t, fresh, kept)
    BY <1>1, Opens
  <2>2. ~crawling /\ queued = {Start}
    BY <1>1, Opens DEF Shape
  <2>3. fetched' = << >> /\ ToSet(fetched') = {} /\ IsInjective(fetched')
    BY <2>1 DEF Opened, ToSet, IsInjective
  <2>4. \A n \in DOMAIN t : t[n].url \in fresh /\ t[n].url # Start
    BY <2>1, <2>2 DEF Opened, Listing
  <2>5. \A m, n \in DOMAIN t : t[m].url = t[n].url => m = n
    BY <2>1 DEF Opened, Listing
  <2>6. \A i \in Places' :
          \/ i \in DOMAIN t /\ frontier'[i] = t[i]
          \/ i = Len(t) + 1 /\ frontier'[i] = [url |-> Start, depth |-> 0]
    BY <2>1, OpenedPlaces
  <2>7. ASSUME NEW i \in Places', NEW j \in Places', frontier'[i].url = frontier'[j].url
        PROVE  i = j
    BY <2>4, <2>5, <2>6, <2>7
  <2>8. Waiting' \subseteq {Start} \cup fresh
    BY <2>4, <2>6 DEF Waiting
  <2>9. queued' = {Start} \cup fresh
    BY <2>1, <2>2 DEF Opened
  <2> QED BY <2>3, <2>7, <2>8, <2>9 DEF Once, Seen
<1>2. CASE Page
  <2>1. PICK t, fresh, kept : Walked(t, fresh, kept)
    BY <1>2, WalkIs
  <2>2. /\ 1 \in Places /\ Current = frontier[1] /\ Current.url \in Pages
        /\ Places \subseteq Nat \ {0} /\ Places' \subseteq Nat \ {0}
    BY <2>1, WalkedPlaces DEF Entry
  <2>3. PICK L \in Nat :
          /\ \A i \in Places' : i <= L => i + 1 \in Places /\ frontier'[i] = frontier[i + 1]
          /\ \A i \in Places' : i > L => i - L \in DOMAIN t /\ frontier'[i] = t[i - L]
    BY <2>1, WalkedPlaces
  <2>4. \A n \in DOMAIN t : t[n].url \in fresh /\ t[n].url \notin queued
    BY <2>1 DEF Walked, Listing
  <2>5. \A m, n \in DOMAIN t : t[m].url = t[n].url => m = n
    BY <2>1 DEF Walked, Listing
  <2>6. \A i \in Places : frontier[i].url \in queued /\ frontier[i].url \notin ToSet(fetched)
    BY DEF Once, Seen, Waiting
  <2>7. ASSUME NEW i \in Places', NEW j \in Places', frontier'[i].url = frontier'[j].url
        PROVE  i = j
    <3>1. CASE i <= L /\ j <= L
      <4>1. i + 1 = j + 1
        BY <2>3, <2>7, <3>1 DEF Once
      <4> QED BY <2>2, <4>1
    <3>2. CASE i > L /\ j > L
      <4>1. i - L = j - L
        BY <2>3, <2>5, <2>7, <3>2
      <4> QED BY <2>2, <4>1
    <3>3. CASE i <= L /\ j > L
      BY <2>3, <2>4, <2>6, <2>7, <3>3
    <3>4. CASE i > L /\ j <= L
      BY <2>3, <2>4, <2>6, <2>7, <3>4
    <3> QED BY <2>2, <3>1, <3>2, <3>3, <3>4
  <2>8. /\ ToSet(fetched') = ToSet(fetched) \cup {Current.url}
        /\ IsInjective(fetched')
    <3>1. Current.url \notin ToSet(fetched)
      BY <2>2, <2>6
    <3> QED BY <2>1, <2>2, <3>1, FetchedGrows DEF Walked, Once
  <2>9. ASSUME NEW i \in Places'
        PROVE  frontier'[i].url \in queued' /\ frontier'[i].url \notin ToSet(fetched')
    <3>1. CASE i <= L
      <4>1. i + 1 \in Places /\ frontier'[i] = frontier[i + 1] /\ i + 1 # 1
        BY <2>2, <2>3, <3>1
      <4>2. frontier[i + 1].url # Current.url
        BY <2>2, <4>1 DEF Once
      <4> QED BY <2>1, <2>6, <2>8, <4>1, <4>2 DEF Walked
    <3>2. CASE i > L
      <4>1. frontier'[i].url \in fresh /\ frontier'[i].url \notin queued
        BY <2>3, <2>4, <3>2
      <4>2. ToSet(fetched') \subseteq queued
        BY <2>2, <2>6, <2>8 DEF Once, Seen
      <4> QED BY <2>1, <4>1, <4>2 DEF Walked
    <3> QED BY <2>2, <3>1, <3>2
  <2>10. ToSet(fetched') \subseteq queued'
    BY <2>1, <2>2, <2>6, <2>8 DEF Once, Seen, Walked
  <2> QED BY <2>7, <2>8, <2>9, <2>10 DEF Once, Seen, Waiting
<1>3. CASE Finish \/ Timeout \/ Lost
  <2>1. fetched' = << >> /\ frontier' = << >>
    BY <1>3 DEF Finish, Timeout, Lost, Leave
  <2> QED BY <2>1 DEF Once, Seen, Waiting, Places, ToSet, IsInjective
<1>4. CASE BeginRefused \/ (\E url \in Pages : Forget(url)) \/ UNCHANGED vars
  BY <1>4 DEF BeginRefused, Forget, crawlVars, histVars, vars, Once, Seen, Waiting, Places
<1> QED BY <1>1, <1>2, <1>3, <1>4 DEF Next, Crawl, Faults

-----------------------------------------------------------------------------
(* Every page is reached.                                                  *)

LEMMA EntriesAre ==
  ASSUME Shape
  PROVE  \A i \in Places : frontier[i].url \in Pages /\ frontier[i].depth \in 0..MaxDepth
<1>1. frontier \in Seq(Entry) /\ Places = 1..Len(frontier)
  BY LenProperties DEF Shape, Places
<1>2. \A i \in Places : frontier[i] \in Entry
  BY <1>1, ElementOfSeq
<1> QED BY <1>2 DEF Entry

LEMMA AfterIs ==
  ASSUME NEW before, NEW url
  PROVE  url \in After(before) <=> url \in before \/ \E v \in Leads(before) : url \in New(v)
<1> DEFINE linked == UNION {ToSet(site.links[v]) : v \in Leads(before)}
<1>1. url \in linked <=> \E v \in Leads(before) : url \in ToSet(site.links[v])
  OBVIOUS
<1>2. After(before) = before \cup ((linked \cap site.wanted) \ stored)
  BY DEF After
<1> HIDE DEF linked
<1> QED BY <1>1, <1>2 DEF New

ReachedOf(mySite, myStored, myListed) ==
  CHOOSE f : f = [k \in 0..MaxDepth |->
    IF k = 0 THEN {Start}
    ELSE LET before == f[k - 1]
             leads == {url \in before : mySite.final[url] # Outside /\ url \notin mySite.posting \cup myListed}
             linked == UNION {ToSet(mySite.links[url]) : url \in leads}
         IN  before \cup ((linked \cap mySite.wanted) \ myStored)]

\* The pages to reach stay the same while the site and the stored URLs do.
LEMMA ReachedStays ==
  ASSUME UNCHANGED <<site, stored>>
  PROVE  Reached' = Reached /\ Listed' = Listed
<1>1. Listed' = Listed
  BY DEF Listed
<1>2. Reached = ReachedOf(site, stored, Listed)
  BY Zenon DEF Reached, ReachedOf
<1>3. Reached' = ReachedOf(site', stored', Listed')
  BY Zenon DEF Reached, ReachedOf
<1> QED BY <1>1, <1>2, <1>3

\* When no page waits at less than a depth, the pages to reach within that depth
\* have been seen, and those that wait do so no deeper.
LEMMA SeenByLevel ==
  ASSUME CrawlInv, crawling, ~damaged, NEW d \in 0..MaxDepth,
         \A i \in Places : ~Leaf(i) => frontier[i].depth >= d
  PROVE  \A url \in Reached[d] :
           url \in Seen /\ \A i \in Places : frontier[i].url = url /\ ~Leaf(i) => frontier[i].depth <= d
<1> DEFINE Fine(k) == \A url \in Reached[k] :
             url \in Seen /\ \A i \in Places : frontier[i].url = url /\ ~Leaf(i) => frontier[i].depth <= k
           bad == {k \in 0..d : ~Fine(k)}
<1>0. MaxDepth \in Nat /\ d \in Nat /\ d <= MaxDepth
  BY CrawlAssumption
<1>1. \A i \in Places : frontier[i].depth \in 0..MaxDepth
  BY EntriesAre DEF CrawlInv
<1>2. NewAreSeen /\ Followed
  BY DEF CrawlInv, Breadth
<1>3. bad = {}
  <2> SUFFICES ASSUME bad # {} PROVE FALSE
    OBVIOUS
  <2>1. PICK n \in bad : \A m \in bad : n <= m
    <3>1. bad \subseteq Nat
      OBVIOUS
    <3> HIDE DEF bad
    <3> QED BY <3>1, LeastOf
  <2>2. n \in Nat /\ n <= d /\ ~Fine(n)
    BY <2>1
  <2>3. n # 0
    <3>1. Fine(0)
      BY <1>0, <1>2, ReachedLevels DEF NewAreSeen
    <3> QED BY <2>2, <3>1
  <2>4. Fine(n - 1)
    <3>1. n - 1 \in 0..d /\ ~ (n <= n - 1)
      BY <1>0, <2>2, <2>3
    <3>2. n - 1 \notin bad
      <4> HIDE DEF bad
      <4> QED BY <2>1, <3>1
    <3> HIDE DEF Fine
    <3> QED BY <3>1, <3>2
  <2>5. ASSUME NEW url \in Reached[n]
        PROVE  url \in Seen /\ \A i \in Places : frontier[i].url = url /\ ~Leaf(i) => frontier[i].depth <= n
    <3>1. Reached[n] = After(Reached[n - 1]) /\ n \in 1..MaxDepth /\ n - 1 \in 0..MaxDepth - 1
      BY <1>0, <2>2, <2>3, ReachedLevels
    <3>2. CASE url \in Reached[n - 1]
      <4>1. /\ url \in Seen
            /\ \A i \in Places : frontier[i].url = url /\ ~Leaf(i) => frontier[i].depth <= n - 1
        BY <2>4, <3>2
      <4> QED BY <1>1, <2>2, <4>1
    <3>3. CASE url \notin Reached[n - 1]
      <4>1. PICK v \in Leads(Reached[n - 1]) : url \in New(v)
        BY <3>1, <3>3, AfterIs
      <4>2. v \in Reached[n - 1] /\ v \notin Listed
        BY <4>1 DEF Leads
      <4>3. v \in Seen /\ \A i \in Places : frontier[i].url = v /\ ~Leaf(i) => frontier[i].depth <= n - 1
        BY <2>4, <4>2
      <4>4. v \notin Waiting
        <5> SUFFICES ASSUME NEW i \in Places, frontier[i].url = v PROVE FALSE
          BY DEF Waiting
        <5>1. ~Leaf(i)
          BY <4>2 DEF Leaf
        <5>2. frontier[i].depth <= n - 1 /\ frontier[i].depth >= d
          BY <4>3, <5>1
        <5> QED BY <1>0, <1>1, <2>2, <5>2
      <4>5. v \in Leads(ToSet(fetched))
        BY <4>1, <4>3, <4>4 DEF Seen, Leads
      <4>6. /\ url \in Seen
            /\ \A i \in Places : frontier[i].url = url /\ ~Leaf(i) => frontier[i].depth <= (n - 1) + 1
        BY <1>2, <3>1, <4>1, <4>2, <4>5 DEF Followed
      <4> QED BY <2>2, <4>6
    <3> QED BY <3>2, <3>3
  <2> QED BY <2>2, <2>5
<1>4. Fine(d)
  <2> HIDE DEF Fine
  <2> QED BY <1>0, <1>3
<1> QED BY <1>4

LEMMA BreadthOpens ==
  ASSUME Shape, ~crawling, NEW t, NEW fresh, NEW kept, Opened(t, fresh, kept), ~damaged'
  PROVE  Breadth'
<1>1. queued = {Start} /\ Start \notin Listed
  BY DEF Shape, Listed
<1>2. /\ fresh = Listed /\ kept = Listed \ stored /\ queued' = {Start} \cup Listed
      /\ fetched' = << >> /\ UNCHANGED <<site, stored>> /\ Listing(t, kept, MaxDepth)
  BY <1>1 DEF Opened
<1>3. Reached' = Reached /\ Listed' = Listed
  BY <1>2, ReachedStays
<1>4. /\ \A i \in Places' :
            \/ i \in DOMAIN t /\ frontier'[i] = t[i]
            \/ i = Len(t) + 1 /\ frontier'[i] = [url |-> Start, depth |-> 0]
      /\ \A i \in DOMAIN t : i \in Places' /\ frontier'[i] = t[i] /\ i < Len(t) + 1
      /\ Len(t) + 1 \in Places' /\ frontier'[Len(t) + 1] = [url |-> Start, depth |-> 0]
      /\ Places' \subseteq Nat
  BY OpenedPlaces
<1>5. /\ \A n \in DOMAIN t : t[n].url \in Listed \ stored /\ t[n].depth = MaxDepth
      /\ \A url \in Listed \ stored : \E n \in DOMAIN t : t[n].url = url
  BY <1>2 DEF Listing
<1>6. ToSet(fetched') = {}
  BY <1>2 DEF ToSet
<1>7. Len(t) \in Nat /\ DOMAIN t = 1..Len(t)
  BY <1>2, LenProperties DEF Listing
<1>8. Ordered'
  <2>1. \A i \in Places' : frontier'[i].url \in Listed => frontier'[i].depth = MaxDepth
    <3> SUFFICES ASSUME NEW i \in Places', frontier'[i].url \in Listed
                 PROVE  frontier'[i].depth = MaxDepth
      OBVIOUS
    <3>1. i \in DOMAIN t /\ frontier'[i] = t[i]
      <4>1. [url |-> Start, depth |-> 0].url = Start
        OBVIOUS
      <4> QED BY <1>1, <1>4, <4>1
    <3> QED BY <1>5, <3>1
  <2>2. ASSUME NEW i \in Places', NEW j \in Places', i < j PROVE frontier'[i].url \in Listed
    <3>1. i # Len(t) + 1
      BY <1>4, <1>7, <2>2
    <3> QED BY <1>4, <1>5, <3>1
  <2> QED BY <1>3, <2>1, <2>2 DEF Ordered, Leaf
<1>9. NewAreSeen'
  <2>1. \A url \in Listed \ stored : url \in Waiting'
    BY <1>4, <1>5 DEF Waiting
  <2>2. Start \in Waiting'
    <3>1. frontier'[Len(t) + 1].url = Start
      BY <1>4
    <3> QED BY <1>4, <3>1 DEF Waiting
  <2>3. \A i \in Places' : frontier'[i].url = Start => frontier'[i].depth = 0
    BY <1>1, <1>4, <1>5
  <2> QED BY <1>2, <1>3, <2>1, <2>2, <2>3 DEF NewAreSeen, Seen
<1>10. OnlyReached'
  <2>1. Start \in Reached[0]
    BY ReachedLevels
  <2>2. \A i \in Places' : IF frontier'[i].url \in Listed THEN frontier'[i].url \notin stored
                           ELSE frontier'[i].url \in Reached[frontier'[i].depth]
    BY <1>1, <1>4, <1>5, <2>1
  <2> QED BY <1>2, <1>3, <1>6, <2>2 DEF OnlyReached, Leaf
<1>11. Followed'
  BY <1>6 DEF Followed, Leads
<1> QED BY <1>8, <1>9, <1>10, <1>11 DEF Breadth

LEMMA BreadthWalks ==
  ASSUME CrawlInv, NEW t, NEW fresh, NEW kept, Walked(t, fresh, kept), ~damaged'
  PROVE  Breadth'
<1> DEFINE head == frontier[1]
<1>1. /\ Shape /\ Once /\ crawling /\ ~damaged
      /\ Ordered /\ NewAreSeen /\ OnlyReached /\ Followed
  BY DEF CrawlInv, Breadth, Walked
<1>2. Reached' = Reached /\ Listed' = Listed /\ UNCHANGED <<site, stored>>
  BY ReachedStays DEF Walked
<1>3. /\ 1 \in Places /\ Current = head
      /\ Places \subseteq Nat \ {0} /\ Places' \subseteq Nat \ {0}
  BY <1>1, WalkedPlaces
<1>4. PICK L \in Nat :
        /\ \A i \in Places' : i <= L => i + 1 \in Places /\ frontier'[i] = frontier[i + 1]
        /\ \A i \in Places' : i > L => i - L \in DOMAIN t /\ frontier'[i] = t[i - L]
        /\ \A i \in Places : i # 1 => i - 1 \in Places' /\ frontier'[i - 1] = frontier[i]
        /\ \A n \in DOMAIN t : L + n \in Places' /\ frontier'[L + n] = t[n]
  BY <1>1, WalkedPlaces
<1>5. \A i \in Places : frontier[i].url \in Pages /\ frontier[i].depth \in 0..MaxDepth
  BY <1>1, EntriesAre
<1>6. PICK e \in 0..MaxDepth : e = head.depth
  BY <1>3, <1>5
<1>7. /\ kept = fresh \ stored /\ fresh \cap queued = {} /\ queued' = queued \cup fresh
      /\ fresh = IF Leading(head.url) /\ e < MaxDepth
                   THEN (ToSet(site.links[head.url]) \cap site.wanted) \ queued ELSE {}
      /\ Listing(t, kept, e + 1)
  BY <1>3, <1>6 DEF Walked
<1>8. /\ \A n \in DOMAIN t : t[n].url \in kept /\ t[n].depth = e + 1
      /\ \A url \in kept : \E n \in DOMAIN t : t[n].url = url
  BY <1>7 DEF Listing
<1> HIDE DEF head
<1>9. MaxDepth \in Nat
  BY CrawlAssumption
\* A page that is queued now is not in the sitemaps, and was led to by one that is not.
<1>10. ASSUME NEW url \in kept
       PROVE  /\ url \notin queued /\ url \notin stored /\ url \notin Listed
              /\ ~Leaf(1) /\ Leading(head.url) /\ e < MaxDepth /\ url \in New(head.url)
  <2>1. Leading(head.url) /\ e < MaxDepth /\ url \notin queued /\ url \notin stored
        /\ url \in New(head.url)
    BY <1>7 DEF New
  <2>2. ~Leaf(1)
    BY <1>1, <1>3, <1>6, <1>9, <2>1 DEF Ordered, head
  <2> QED BY <1>1, <2>1, <2>2 DEF NewAreSeen
<1>11. ASSUME NEW i \in Places' \* an old place, or a new one
       PROVE  \/ /\ i <= L /\ i + 1 \in Places /\ frontier'[i] = frontier[i + 1]
                 /\ frontier'[i].url \in queued /\ 1 < i + 1
              \/ /\ i > L /\ frontier'[i].url \in kept /\ frontier'[i].depth = e + 1
  <2>1. CASE i <= L
    <3>1. i + 1 \in Places /\ frontier'[i] = frontier[i + 1] /\ 1 < i + 1
      BY <1>3, <1>4, <2>1
    <3> QED BY <1>1, <2>1, <3>1 DEF Once, Seen, Waiting
  <2>2. CASE i > L
    BY <1>4, <1>8, <2>2
  <2> QED BY <1>3, <2>1, <2>2
<1>12. ToSet(fetched') = ToSet(fetched) \cup {head.url}
  BY <1>1, <1>3, <1>5, FetchedGrows DEF Walked, head
<1>13. Seen' = Seen \cup kept
  <2>1. ASSUME NEW url \in Waiting PROVE url \in Seen'
    <3>1. PICK i \in Places : frontier[i].url = url
      BY <2>1 DEF Waiting
    <3>2. CASE i = 1
      BY <1>12, <3>1, <3>2 DEF Seen, head
    <3>3. CASE i # 1
      BY <1>4, <3>1, <3>3 DEF Seen, Waiting
    <3> QED BY <3>2, <3>3
  <2>2. ASSUME NEW url \in kept PROVE url \in Seen'
    BY <1>4, <1>8 DEF Seen, Waiting
  <2>3. ASSUME NEW url \in Waiting' PROVE url \in Seen \cup kept
    BY <1>11 DEF Seen, Waiting
  <2>4. head.url \in Seen
    BY <1>3 DEF Seen, Waiting, head
  <2> QED BY <1>12, <2>1, <2>2, <2>3, <2>4 DEF Seen
<1>14. Ordered'
  <2>1. ASSUME NEW i \in Places', frontier'[i].url \in Listed PROVE frontier'[i].depth = MaxDepth
    BY <1>1, <1>10, <1>11, <2>1 DEF Ordered, Leaf
  <2>2. ASSUME NEW i \in Places', NEW j \in Places', i < j
        PROVE  \/ frontier'[i].url \in Listed
               \/ /\ frontier'[j].url \notin Listed
                  /\ frontier'[j].depth \in {frontier'[i].depth, frontier'[i].depth + 1}
    <3>1. CASE j <= L
      <4>1. i <= L /\ i + 1 < j + 1
        BY <1>3, <2>2, <3>1
      <4>2. /\ i + 1 \in Places /\ frontier'[i] = frontier[i + 1]
            /\ j + 1 \in Places /\ frontier'[j] = frontier[j + 1]
        BY <1>4, <3>1, <4>1
      <4> QED BY <1>1, <4>1, <4>2 DEF Ordered, Leaf
    <3>2. CASE i <= L /\ j > L
      <4>1. frontier'[j].url \in kept /\ frontier'[j].depth = e + 1
        BY <1>4, <1>8, <3>2
      <4>2. i + 1 \in Places /\ frontier'[i] = frontier[i + 1] /\ 1 < i + 1
        BY <1>3, <1>4, <3>2
      <4>3. ~Leaf(1) /\ frontier'[j].url \notin Listed
        BY <1>10, <4>1
      <4>4. frontier[i + 1].depth \in {e, e + 1}
        BY <1>1, <1>3, <1>6, <4>2, <4>3 DEF Ordered, head
      <4> QED BY <1>9, <4>1, <4>2, <4>3, <4>4
    <3>3. CASE i > L
      <4>1. j > L
        BY <1>3, <2>2, <3>3
      <4>2. /\ frontier'[i].depth = e + 1
            /\ frontier'[j].url \in kept /\ frontier'[j].depth = e + 1
        BY <1>4, <1>8, <3>3, <4>1
      <4> QED BY <1>10, <4>2
    <3> QED BY <1>3, <3>1, <3>2, <3>3
  <2> QED BY <1>2, <2>1, <2>2 DEF Ordered, Leaf
<1>15. NewAreSeen'
  <2>1. queued' \subseteq Seen' \cup stored /\ Listed \subseteq queued' /\ Start \in Seen'
    BY <1>1, <1>7, <1>13 DEF NewAreSeen
  <2>2. Start \in queued
    BY <1>1 DEF NewAreSeen, Once
  <2>3. \A i \in Places' : frontier'[i].url = Start => frontier'[i].depth = 0
    BY <1>1, <1>10, <1>11, <2>2 DEF NewAreSeen
  <2> QED BY <1>2, <2>1, <2>3 DEF NewAreSeen
<1>16. OnlyReached'
  <2>1. ASSUME ~Leaf(1) PROVE head.url \in Reached[e]
    BY <1>1, <1>3, <1>6, <2>1 DEF OnlyReached, head
  <2>2. ASSUME NEW url \in kept PROVE url \in Reached[e + 1]
    <3>1. ~Leaf(1) /\ Leading(head.url) /\ e < MaxDepth /\ url \in New(head.url)
      BY <1>10
    <3>2. head.url \in Leads(Reached[e])
      BY <2>1, <3>1 DEF Leads, Leading, Leaf, head
    <3>3. e + 1 \in 1..MaxDepth /\ (e + 1) - 1 = e
      BY <1>9, <3>1
    <3>4. Reached[e + 1] = After(Reached[e])
      BY <3>3, ReachedLevels
    <3> QED BY <3>1, <3>2, <3>4, AfterIs
  <2>3. \A i \in Places' : IF frontier'[i].url \in Listed THEN frontier'[i].url \notin stored
                           ELSE frontier'[i].url \in Reached[frontier'[i].depth]
    BY <1>1, <1>10, <1>11, <2>2 DEF OnlyReached, Leaf
  <2>4. head.url \in Reached[MaxDepth] \cup (Listed \ stored)
    BY <1>1, <1>3, <2>1, ReachedGrows DEF OnlyReached, Leaf, head
  <2> QED BY <1>1, <1>2, <1>12, <2>3, <2>4 DEF OnlyReached, Leaf
<1>17. Followed'
  <2>1. ASSUME NEW url \in Leads(ToSet(fetched')), NEW k \in 0..MaxDepth - 1, url \in Reached[k],
               NEW new \in New(url)
        PROVE  /\ new \in Seen'
               /\ \A i \in Places' : frontier'[i].url = new /\ frontier'[i].url \notin Listed
                                        => frontier'[i].depth <= k + 1
    <3>1. CASE url \in ToSet(fetched)
      <4>1. url \in Leads(ToSet(fetched))
        BY <3>1 DEF Leads
      <4>2. /\ new \in Seen
            /\ \A i \in Places : frontier[i].url = new /\ ~Leaf(i) => frontier[i].depth <= k + 1
        BY <1>1, <2>1, <4>1 DEF Followed
      <4>3. new \in queued
        BY <1>1, <4>2 DEF Once
      <4> QED BY <1>10, <1>11, <1>13, <4>2, <4>3 DEF Leaf
    <3>2. CASE url = head.url
      <4>1. ~Leaf(1) /\ Leading(head.url)
        BY <1>3, <3>2 DEF Leads, Leading, Leaf, head
      <4>2. \A i \in Places : i # 1 => ~Leaf(i) /\ frontier[i].depth \in {e, e + 1}
        BY <1>1, <1>3, <1>6, <4>1 DEF Ordered, head
      <4>3. e <= k
        <5> SUFFICES ASSUME k < e PROVE FALSE
          BY <1>9
        <5>1. \A i \in Places : ~Leaf(i) => frontier[i].depth >= k
          BY <1>6, <1>9, <4>2 DEF head
        <5>2. k \in 0..MaxDepth
          BY <1>9
        <5>3. frontier[1].depth <= k
          BY <1>1, <1>3, <2>1, <3>2, <4>1, <5>1, <5>2, SeenByLevel DEF head
        <5> QED BY <1>6, <1>9, <5>3 DEF head
      <4>4. fresh = (ToSet(site.links[url]) \cap site.wanted) \ queued
        BY <1>7, <1>9, <3>2, <4>1, <4>3
      <4>5. new \in kept \/ new \in Seen
        BY <1>1, <1>7, <4>4 DEF New, NewAreSeen
      <4>6. ASSUME NEW i \in Places' PROVE frontier'[i].depth <= k + 1
        <5>1. frontier'[i].depth \in {e, e + 1}
          BY <1>3, <1>11, <4>2
        <5> QED BY <1>9, <4>3, <5>1
      <4> QED BY <1>13, <4>5, <4>6
    <3> QED BY <1>12, <3>1, <3>2 DEF Leads
  <2> QED BY <1>2, <2>1 DEF Followed, Leads, New, Leaf
<1> QED BY <1>14, <1>15, <1>16, <1>17 DEF Breadth

LEMMA BreadthStep ==
  ASSUME CrawlInv, [Next]_vars
  PROVE  Breadth'
<1>0. Shape /\ Once /\ Breadth
  BY DEF CrawlInv
<1>1. CASE Begin \/ BeginDamaged
  <2>1. PICK t, fresh, kept : Opened(t, fresh, kept)
    BY <1>0, <1>1, Opens
  <2>2. ~damaged' => Breadth'
    BY <1>0, <1>1, <2>1, Opens, BreadthOpens
  <2> QED BY <2>2 DEF Breadth
<1>2. CASE Page
  <2>1. PICK t, fresh, kept : Walked(t, fresh, kept)
    BY <1>0, <1>2, WalkIs
  <2>2. ~damaged' => Breadth'
    BY <2>1, BreadthWalks
  <2> QED BY <2>2 DEF Breadth
<1>3. CASE Finish \/ Timeout \/ Lost
  BY <1>3 DEF Finish, Timeout, Lost, Leave, Breadth
<1>4. CASE BeginRefused \/ (\E url \in Pages : Forget(url))
  BY <1>4 DEF BeginRefused, Forget, Breadth
<1>5. CASE UNCHANGED vars
  <2>1. UNCHANGED <<site, stored, crawling, queued, frontier, fetched, damaged>>
    BY <1>5 DEF vars, crawlVars, histVars
  <2>2. Reached' = Reached /\ Listed' = Listed
    BY <2>1, ReachedStays
  <2>3. Places' = Places /\ Waiting' = Waiting /\ Seen' = Seen
    BY <2>1 DEF Places, Waiting, Seen
  <2>4. Ordered' = Ordered /\ NewAreSeen' = NewAreSeen /\ OnlyReached' = OnlyReached
    BY <2>1, <2>2, <2>3 DEF Ordered, NewAreSeen, OnlyReached, Leaf
  <2>5. Followed => Followed'
    BY <2>1, <2>2, <2>3 DEF Followed, Leads, New, Leaf
  <2> QED BY <1>0, <2>1, <2>4, <2>5 DEF Breadth
<1> QED BY <1>1, <1>2, <1>3, <1>4, <1>5 DEF Next, Crawl, Faults

LEMMA CrawlInvHolds == Spec => []CrawlInv
<1>1. Init => CrawlInv
  <2> SUFFICES ASSUME Init PROVE CrawlInv
    OBVIOUS
  <2>1. << >> \in Seq(Pages) /\ << >> \in Seq(Entry)
    BY EmptySeq
  <2>2. Start \in Pages
    BY SiteAssumption
  <2>3. Shape
    BY <2>1, <2>2 DEF Init, Shape
  <2>4. Once
    BY DEF Init, Once, Seen, Waiting, Places, ToSet, IsInjective
  <2> QED BY <2>3, <2>4 DEF Init, CrawlInv, Breadth
<1>2. CrawlInv /\ [Next]_vars => CrawlInv'
  <2> SUFFICES ASSUME CrawlInv, [Next]_vars PROVE CrawlInv'
    OBVIOUS
  <2>1. Shape' /\ Once'
    BY ShapeStep, OnceStep DEF CrawlInv
  <2> QED BY <2>1, BreadthStep DEF CrawlInv
<1> QED BY <1>1, <1>2, PTL DEF Spec

\* A crawl never fetches a page twice, and one that ends before its budget with no
\* failure has fetched the new pages of the sitemaps and every page within
\* maxDepth links of the start page, for every site, depth and budget
\* (crawlSeed).
THEOREM CrawlIsComplete == Spec => []CrawlComplete
<1>1. CrawlInv => CrawlComplete
  <2> SUFFICES ASSUME CrawlInv PROVE CrawlComplete
    OBVIOUS
  <2>1. IsInjective(fetched)
    BY DEF CrawlInv, Once
  <2>2. ASSUME crawling, frontier = << >>, ~damaged
        PROVE  ToSet(fetched) = Reached[MaxDepth] \cup (Listed \ stored)
    <3>1. Places = {} /\ Seen = ToSet(fetched)
      BY <2>2 DEF Places, Waiting, Seen
    <3>2. NewAreSeen /\ OnlyReached /\ Once
      BY <2>2 DEF CrawlInv, Breadth
    <3>3. MaxDepth \in 0..MaxDepth
      BY CrawlAssumption
    <3>4. Reached[MaxDepth] \subseteq Seen
      BY <2>2, <3>1, <3>3, SeenByLevel
    <3>5. Listed \ stored \subseteq Seen
      BY <3>2 DEF NewAreSeen
    <3> QED BY <3>1, <3>2, <3>4, <3>5 DEF OnlyReached
  <2> QED BY <2>1, <2>2 DEF CrawlComplete
<1> QED BY <1>1, CrawlInvHolds, PTL

=============================================================================
