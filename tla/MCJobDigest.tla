---------------------------- MODULE MCJobDigest ----------------------------
(* A small instance of JobDigest for TLC: one profile, two postings.       *)
EXTENDS JobDigest

\* The digest's clock is behind the database's, or ahead.
MCDrifts == {-1, 0, 1}

\* The two go alike.
MCNoDrift == {0}

MCPostings ==
  { [url |-> "a", posted |-> Undated, tags |-> {"intern"}],
    [url |-> "b", posted |-> 1, tags |-> {}] }

\* The resume fits "a" far better than "b": below two fifths of the best.
MCScore == [pair \in Profiles \X Urls |-> IF pair[2] = "a" THEN 3 ELSE 1]

\* Every posting fits equally well.
MCEven == [pair \in Profiles \X Urls |-> 1]

MCContent ==
  [url \in Urls |->
     IF url = "a" THEN [workplace |-> "remote", kinds |-> {"part_time"},
                        salaryMin |-> 1, salaryMax |-> 2]
     ELSE [workplace |-> "hybrid", kinds |-> {"part_time"},
           salaryMin |-> Null, salaryMax |-> Null]]

MCTextRank ==
  [q \in {"go", "rust"} |-> IF q = "go" THEN [url \in Urls |-> 2] ELSE [url \in {"b"} |-> 2]]

MCTurn == [url \in Urls |-> IF url = "a" THEN 1 ELSE 2]
MCLookbacks == [label \in {"24h"} |-> 0]

\* Nobody signed in, and a profile with and without an embedding.
MCCallers ==
  {[profile |-> Null, resume |-> Null, by |-> "nothing"]} \cup
  {[profile |-> profile, resume |-> profile, by |-> by] :
     profile \in Profiles, by \in {"embedding", "words"}}

Everything ==
  [q |-> Null, workplace |-> Null, jobType |-> Null, minSalary |-> Null, maxSalary |-> Null,
   datePosted |-> Null, tags |-> <<>>, sort |-> Null, limit |-> Null, offset |-> Null]

\* Each filter and each order, with limits below, at and above those allowed.
MCSearches ==
  { Everything,
    [Everything EXCEPT !.q = "go", !.jobType = "part_time", !.limit = 2],
    [Everything EXCEPT !.q = "rust", !.datePosted = "24h", !.minSalary = 0],
    [Everything EXCEPT !.workplace = "hybrid", !.limit = 0],
    [Everything EXCEPT !.sort = "date", !.limit = 3],
    [Everything EXCEPT !.tags = <<"intern">>, !.minSalary = 2, !.maxSalary = 3,
                       !.sort = "relevance"] }

=============================================================================
