-------------------------- MODULE MCProfileRecords --------------------------
(* A small instance of ProfileRecords for TLC.                             *)
EXTENDS ProfileRecords, TLC

Named(name) == [name |-> name]
Dated(name, start, end) == [name |-> name, start |-> start, end |-> end]
Entry(name, start, end, texts) == [name |-> name, start |-> start, end |-> end, bullets |-> texts]

MCNames == {<<"dev", 1>>}
MCDates == {NoDate, 1}

Symmetry == Permutations(Panels)

Nothing == << >>

\* An empty profile; one with an undated job and a skill spelled otherwise; and
\* one with two stays at one company, which is not merged like the others.
MCProfiles ==
  { [basic |-> [name |-> Empty, wanted |-> FALSE], skills |-> Nothing, education |-> Nothing,
     work |-> Nothing, bullets |-> Nothing, nextId |-> 1],
    [basic |-> [name |-> "n", wanted |-> TRUE],
     skills |-> (1 :> Named(<<"go", 2>>)),
     education |-> (2 :> Dated(<<"bs", 1>>, NoDate, 1)),
     work |-> (3 :> Dated(<<"dev", 2>>, NoDate, NoDate)),
     bullets |-> (4 :> [work |-> 3, text |-> "x"]) @@ (5 :> [work |-> 3, text |-> "y"]),
     nextId |-> 6],
    [basic |-> [name |-> Empty, wanted |-> TRUE],
     skills |-> Nothing,
     education |-> Nothing,
     work |-> (1 :> Dated(<<"dev", 1>>, 1, 2)) @@ (2 :> Dated(<<"dev", 1>>, 3, NoDate)),
     bullets |-> (3 :> [work |-> 1, text |-> "x"]),
     nextId |-> 4] }

\* A full extraction; one that names a job twice; and one with a bad date.
MCExtractions ==
  { [name |-> "m", skills |-> << <<"go", 1>>, <<"sql", 1>>, <<"sql", 2>> >>,
     education |-> <<Dated(<<"bs", 1>>, 1, NoDate)>>,
     work |-> <<Entry(<<"dev", 1>>, NoDate, 2, {"y", "z"}), Entry(<<"ops", 1>>, NoDate, NoDate, {"x"})>>],
    [name |-> Empty, skills |-> << >>, education |-> << >>,
     work |-> <<Entry(<<"dev", 1>>, 1, NoDate, {"x"}), Entry(<<"dev", 1>>, 3, NoDate, {"y"})>>],
    [name |-> Empty, skills |-> << <<"go", 1>> >>, education |-> << >>,
     work |-> <<Entry(<<"dev", 1>>, BadDate, NoDate, {"x"})>>] }

=============================================================================
