-------------------------------- MODULE Trivia --------------------------------
(***************************************************************************)
(* The trivia quizzes of one profile: how a model's reply becomes a quiz   *)
(* (llm/trivia.go), the table trivia_quizzes (database/trivia.go) behind   *)
(* server/trivia.go, and the pages that play quizzes: each answer is sent  *)
(* with all before it, and nothing waits for the answer to be saved        *)
(* (quiz-player.tsx, use-trivia.ts).                                       *)
(*                                                                         *)
(* A page is a browser tab with its own cache.  Its cache is fresh for     *)
(* 30 s, so a quiz that is opened from it may or may not be fetched again. *)
(*                                                                         *)
(* Positions count from 1.                                                 *)
(***************************************************************************)
EXTENDS Integers, FiniteSets, Sequences, SequencesExt

CONSTANTS
  Pages,
  Nobody,       \* who reads the reply of a request its page has given up
  Replies,      \* what the language model may reply: sequences of questions, trimmed
  Counts,       \* triviaCounts
  OptionCount,  \* triviaOptionCount
  Orders,       \* the orders rand.Shuffle may leave the options in
  EmptyOption,  \* what an option of blanks is trimmed to
  MaxQuizzes,   \* bound: rows ever inserted
  MaxInFlight,  \* bound: requests at a time
  MaxVisits,    \* bound: quizzes asked for, opened, retaken or deleted
  MaxSaves,     \* bound: answers chosen
  MaxFaults     \* bound: requests that fail or are given up

\* An option: what is compared ignoring case, and how it is spelled.
Option == STRING \X STRING
Question == [text : STRING, options : Seq(Option), correct : Int]

ASSUME ReplyAssumption == Replies \subseteq Seq(Question)
ASSUME CountAssumption == Counts \subseteq Nat
ASSUME OptionAssumption == OptionCount \in Nat
ASSUME OrderAssumption == Orders \subseteq Bijection(1..OptionCount, 1..OptionCount)

VARIABLES
  quizzes,      \* table trivia_quizzes: id -> questions, answers, score, completed
  nextId,       \* its identity sequence
  cache,        \* page -> the quizzes it has cached, by id
  player,       \* page -> the quiz shown, its length (0: not loaded), the answers
  requests,     \* the requests in flight, by number
  visits, saves, faults \* how many there have been

\* History variables: they record what happened and no action reads them.
VARIABLES
  last,         \* quiz -> the answers chosen last, on any page
  forked,       \* quizzes answered on a page that did not show the last answers
  raced         \* quizzes with two saves in flight at once, or one that failed

client == <<cache, player>>
table == <<quizzes, nextId>>
counts == <<visits, saves, faults>>
history == <<last, forked, raced>>
vars == <<table, client, requests, counts, history>>

Away == [at |-> 0, total |-> 0, answers |-> << >>]

Init ==
  /\ quizzes = << >>
  /\ nextId = 1
  /\ cache = [p \in Pages |-> << >>]
  /\ player = [p \in Pages |-> Away]
  /\ requests = << >>
  /\ visits = 0
  /\ saves = 0
  /\ faults = 0
  /\ last = << >>
  /\ forked = {}
  /\ raced = {}

Put(f, k, v) == [x \in DOMAIN f \cup {k} |-> IF x = k THEN v ELSE f[x]]
Drop(f, k) == [x \in DOMAIN f \ {k} |-> f[x]]

-----------------------------------------------------------------------------
(* From the model's reply to a quiz.                                       *)

\* distinctOptions: none blank, no two the same but for case.
DistinctOptions(options) ==
  /\ EmptyOption \notin Range(options)
  /\ \A i, j \in DOMAIN options : i # j => options[i][1] # options[j][1]

WellFormed(q) ==
  /\ q.text # ""
  /\ Len(q.options) = OptionCount
  /\ q.correct \in 1..OptionCount
  /\ DistinctOptions(q.options)

\* sanitizeTrivia: malformed questions are dropped, and those beyond count.
SanitizeTrivia(raw, count) ==
  LET valid == {i \in DOMAIN raw : WellFormed(raw[i])}
      nth(k) == CHOOSE i \in valid : Cardinality({j \in valid : j <= i}) = k
  IN [k \in {n \in 1..count : n <= Cardinality(valid)} |-> raw[nth(k)]]

\* A fault: the options move and the index stays.
ShuffleOptionsOnly(q, order) ==
  [q EXCEPT !.options = [i \in DOMAIN q.options |-> q.options[order[i]]]]

\* shuffleOptions: the correct option is looked for again in the new order.
ShuffleOptions(q, order) ==
  LET options == [i \in DOMAIN q.options |-> q.options[order[i]]]
      correct == CHOOSE i \in DOMAIN options :
                   /\ options[i] = q.options[q.correct]
                   /\ \A j \in 1..(i - 1) : options[j] # options[i]
  IN [q EXCEPT !.options = options, !.correct = correct]

\* GenerateTrivia: the quizzes a reply may become; none of no valid question.
GenerateTrivia(raw, count) ==
  LET questions == SanitizeTrivia(raw, count)
  IN IF Len(questions) = 0 THEN {}
     ELSE {[i \in DOMAIN questions |-> ShuffleOptions(questions[i], orders[i])] :
             orders \in [DOMAIN questions -> Orders]}

-----------------------------------------------------------------------------
(* The table.                                                              *)

Fresh(questions) ==
  [questions |-> questions, answers |-> << >>, score |-> 0, completed |-> FALSE]

\* The INSERT of CreateTriviaQuiz and of RetakeTriviaQuiz.
Insert(questions) ==
  /\ quizzes' = Put(quizzes, nextId, Fresh(questions))
  /\ nextId' = nextId + 1
  /\ last' = Put(last, nextId, << >>)

\* What SaveTriviaAnswers refuses: too many answers, or one out of range.
Acceptable(questions, answers) ==
  /\ Len(answers) <= Len(questions)
  /\ \A i \in DOMAIN answers : answers[i] \in DOMAIN questions[i].options

Score(questions, answers) ==
  Cardinality({i \in DOMAIN answers : answers[i] = questions[i].correct})

Answered(quiz, answers) ==
  [quiz EXCEPT !.answers = answers,
               !.score = Score(quiz.questions, answers),
               !.completed = (Len(answers) = Len(quiz.questions))]

-----------------------------------------------------------------------------
(* What a page asks for.                                                   *)

Blank == [page |-> Nobody, op |-> "get", id |-> 0, count |-> 0,
          answers |-> << >>, stage |-> "arrived", quiz |-> << >>]

Free == {n \in 1..MaxInFlight : n \notin DOMAIN requests}

Send(r) ==
  /\ Free # {}
  /\ requests' = Put(requests, CHOOSE n \in Free : TRUE, r)

\* Whether another row may come, given the requests that will insert one.
Room ==
  nextId + Cardinality({n \in DOMAIN requests :
      requests[n].op \in {"generate", "retake"} /\ requests[n].stage \in {"arrived", "insert"}})
    <= MaxQuizzes

Visit ==
  /\ visits < MaxVisits
  /\ visits' = visits + 1

Playing(id, quiz) ==
  [at |-> id, total |-> Len(quiz.questions), answers |-> quiz.answers]

\* TriviaGenerator's submit; what the quiz is about does not matter here.
Generate(p) ==
  /\ Visit
  /\ Room
  /\ player[p] = Away
  /\ ~ \E n \in DOMAIN requests : requests[n].op = "generate" /\ requests[n].page = p
  /\ \E count \in Counts :
       Send([Blank EXCEPT !.page = p, !.op = "generate", !.count = count])
  /\ UNCHANGED <<table, client, saves, faults, history>>

\* A quiz is opened, from the cache if it is there: useState takes the
\* answers of the first quiz it is given.
Open(p, id) ==
  /\ player[p] = Away
  /\ id < nextId
  /\ Visit
  /\ \/ /\ id \in DOMAIN cache[p]
        /\ player' = [player EXCEPT ![p] = Playing(id, cache[p][id])]
        /\ \/ UNCHANGED requests
           \/ Send([Blank EXCEPT !.page = p, !.id = id])
     \/ /\ id \notin DOMAIN cache[p]
        /\ player' = [player EXCEPT ![p].at = id]
        /\ Send([Blank EXCEPT !.page = p, !.id = id])
  /\ UNCHANGED <<table, cache, saves, faults, history>>

Leave(p) ==
  /\ player[p] # Away
  /\ player' = [player EXCEPT ![p] = Away]
  /\ UNCHANGED <<table, cache, requests, counts, history>>

\* A fault: the answers of the last rendering are sent.
ChooseStale(p) ==
  LET id == player[p].at
      shown == player[p].answers
  IN /\ Len(shown) < player[p].total
     /\ saves < MaxSaves
     /\ \E option \in 1..OptionCount :
          /\ player' = [player EXCEPT ![p].answers = Append(shown, option)]
          /\ last' = [last EXCEPT ![id] = Append(shown, option)]
     /\ Send([Blank EXCEPT !.page = p, !.op = "save", !.id = id, !.answers = shown])
     /\ saves' = saves + 1
     /\ UNCHANGED <<table, cache, visits, faults, forked, raced>>

\* choose: the answers so far and this one are sent; the page shows them
\* whatever becomes of the request.
Choose(p) ==
  LET id == player[p].at
      shown == player[p].answers
  IN /\ Len(shown) < player[p].total
     /\ saves < MaxSaves
     /\ \E option \in 1..OptionCount :
          LET chosen == Append(shown, option)
          IN /\ player' = [player EXCEPT ![p].answers = chosen]
             /\ Send([Blank EXCEPT !.page = p, !.op = "save", !.id = id,
                                   !.answers = chosen])
             /\ last' = [last EXCEPT ![id] = chosen]
     /\ saves' = saves + 1
     /\ forked' = IF shown = last[id] THEN forked ELSE forked \cup {id}
     /\ raced' = IF \E n \in DOMAIN requests :
                      requests[n].op = "save" /\ requests[n].id = id
                 THEN raced \cup {id} ELSE raced
     /\ UNCHANGED <<table, cache, visits, faults>>

\* The button of QuizResults, there when every question is answered.
Retake(p) ==
  /\ Visit
  /\ Room
  /\ player[p].total > 0
  /\ Len(player[p].answers) = player[p].total
  /\ ~ \E n \in DOMAIN requests :
         requests[n].op = "retake" /\ requests[n].page = p /\ requests[n].id = player[p].at
  /\ Send([Blank EXCEPT !.page = p, !.op = "retake", !.id = player[p].at])
  /\ UNCHANGED <<table, client, saves, faults, history>>

\* The button of TriviaHistory's rows.
Delete(p, id) ==
  /\ Visit
  /\ player[p] = Away
  /\ id < nextId
  /\ ~ \E n \in DOMAIN requests :
         requests[n].op = "delete" /\ requests[n].page = p /\ requests[n].id = id
  /\ Send([Blank EXCEPT !.page = p, !.op = "delete", !.id = id])
  /\ UNCHANGED <<table, client, saves, faults, history>>

-----------------------------------------------------------------------------
(* The handlers.  Each step is one statement of the database, or the call  *)
(* of the model.  Refuse answers an error, which changes nothing at the    *)
(* page but what it says.                                                  *)

At(n, op, stage) ==
  n \in DOMAIN requests /\ requests[n].op = op /\ requests[n].stage = stage

Refuse(n) == requests' = Drop(requests, n)
Proceed(n, r) == requests' = [requests EXCEPT ![n] = r]

\* handleGenerateTrivia up to the model's answer, which may be an error.
AskModel(n) ==
  /\ At(n, "generate", "arrived")
  /\ \E raw \in Replies :
       LET made == GenerateTrivia(raw, requests[n].count)
       IN IF made = {} THEN Refuse(n)
          ELSE \E questions \in made :
                 Proceed(n, [requests[n] EXCEPT !.stage = "insert", !.quiz = questions])
  /\ UNCHANGED <<table, client, counts, history>>

CreateTriviaQuiz(n) ==
  /\ At(n, "generate", "insert")
  /\ Insert(requests[n].quiz)
  /\ Proceed(n, [requests[n] EXCEPT !.stage = "answer", !.id = nextId, !.quiz = << >>])
  /\ UNCHANGED <<client, counts, forked, raced>>

\* SaveTriviaAnswers reads the quiz it scores ...
SaveReads(n) ==
  LET r == requests[n]
  IN /\ At(n, "save", "arrived")
     /\ IF r.id \in DOMAIN quizzes /\ Acceptable(quizzes[r.id].questions, r.answers)
        THEN Proceed(n, [r EXCEPT !.stage = "write", !.quiz = Answered(quizzes[r.id], r.answers)])
        ELSE Refuse(n)
     /\ UNCHANGED <<table, client, counts, history>>

\* A fault: a save sets the completion and never takes it back.
SaveWritesKeeping(n) ==
  LET r == requests[n]
  IN /\ At(n, "save", "write")
     /\ quizzes' = IF r.id \in DOMAIN quizzes
                   THEN [quizzes EXCEPT ![r.id] =
                           [@ EXCEPT !.answers = r.answers,
                                     !.score = r.quiz.score,
                                     !.completed = @ \/ r.quiz.completed]]
                   ELSE quizzes
     /\ Proceed(n, [r EXCEPT !.stage = "answer", !.quiz = << >>])
     /\ UNCHANGED <<nextId, client, counts, history>>

\* ... and writes answers, score and completion, if the row is still there.
SaveWrites(n) ==
  LET r == requests[n]
  IN /\ At(n, "save", "write")
     /\ quizzes' = IF r.id \in DOMAIN quizzes
                   THEN [quizzes EXCEPT ![r.id] =
                           [@ EXCEPT !.answers = r.answers,
                                     !.score = r.quiz.score,
                                     !.completed = r.quiz.completed]]
                   ELSE quizzes
     /\ Proceed(n, [r EXCEPT !.stage = "answer", !.quiz = << >>])
     /\ UNCHANGED <<nextId, client, counts, history>>

\* A fault: the quiz itself is begun again.
RetakeTriviaQuizInPlace(n) ==
  LET r == requests[n]
  IN /\ At(n, "retake", "arrived")
     /\ r.id \in DOMAIN quizzes
     /\ quizzes' = [quizzes EXCEPT ![r.id] = Fresh(@.questions)]
     /\ Proceed(n, [r EXCEPT !.stage = "answer"])
     /\ UNCHANGED <<nextId, client, counts, history>>

\* RetakeTriviaQuiz: one INSERT ... SELECT.
RetakeTriviaQuiz(n) ==
  LET r == requests[n]
  IN /\ At(n, "retake", "arrived")
     /\ IF r.id \in DOMAIN quizzes
        THEN /\ Insert(quizzes[r.id].questions)
             /\ Proceed(n, [r EXCEPT !.stage = "answer", !.count = r.id, !.id = nextId])
        ELSE Refuse(n) /\ UNCHANGED <<table, last>>
     /\ UNCHANGED <<client, counts, forked, raced>>

DeleteTriviaQuiz(n) ==
  LET r == requests[n]
  IN /\ At(n, "delete", "arrived")
     /\ IF r.id \in DOMAIN quizzes
        THEN quizzes' = Drop(quizzes, r.id) /\ Proceed(n, [r EXCEPT !.stage = "reply"])
        ELSE Refuse(n) /\ UNCHANGED quizzes
     /\ UNCHANGED <<nextId, client, counts, history>>

\* writeTriviaQuiz, the end of every other handler and all of handleGetTrivia.
WriteTriviaQuiz(n) ==
  LET r == requests[n]
  IN /\ At(n, "get", "arrived") \/ (n \in DOMAIN requests /\ r.stage = "answer")
     /\ IF r.id \in DOMAIN quizzes
        THEN Proceed(n, [r EXCEPT !.stage = "reply", !.quiz = quizzes[r.id]])
        ELSE Refuse(n)
     /\ UNCHANGED <<table, client, counts, history>>

-----------------------------------------------------------------------------
(* The page reads a reply.                                                 *)

\* What is shown when reply r comes: a generated quiz, its retake if the page
\* is still at the results, the quiz that was waited for.
Shown(r) ==
  LET now == player[r.page]
  IN IF \/ r.op = "generate"
        \/ r.op = "retake" /\ now.at = r.count
        \/ r.op = "get" /\ now.at = r.id /\ now.total = 0
     THEN Playing(r.id, r.quiz)
     ELSE now

Receive(n) ==
  /\ n \in DOMAIN requests
  /\ requests[n].stage = "reply"
  /\ LET r == requests[n]
     IN IF r.page = Nobody THEN UNCHANGED client
        ELSE IF r.op = "delete"
        THEN /\ cache' = [cache EXCEPT ![r.page] = Drop(@, r.id)]
             /\ UNCHANGED player
        ELSE /\ cache' = [cache EXCEPT ![r.page] = Put(@, r.id, r.quiz)]
             /\ player' = [player EXCEPT ![r.page] = Shown(r)]
  /\ requests' = Drop(requests, n)
  /\ UNCHANGED <<table, counts, history>>

Hurt(r) == IF r.op = "save" THEN raced \cup {r.id} ELSE raced

\* A statement or the connection fails: the request is over.
Fail(n) ==
  /\ n \in DOMAIN requests
  /\ faults < MaxFaults
  /\ faults' = faults + 1
  /\ raced' = Hurt(requests[n])
  /\ Refuse(n)
  /\ UNCHANGED <<table, client, visits, saves, last, forked>>

\* The page sees an error, and the server does not know yet.
GiveUp(n) ==
  /\ n \in DOMAIN requests
  /\ requests[n].page # Nobody
  /\ faults < MaxFaults
  /\ faults' = faults + 1
  /\ raced' = Hurt(requests[n])
  /\ Proceed(n, [requests[n] EXCEPT !.page = Nobody])
  /\ UNCHANGED <<table, client, visits, saves, last, forked>>

Next ==
  \/ \E p \in Pages : Generate(p) \/ Leave(p) \/ Choose(p) \/ Retake(p)
  \/ \E p \in Pages, id \in 1..MaxQuizzes : Open(p, id) \/ Delete(p, id)
  \/ \E n \in 1..MaxInFlight :
       \/ AskModel(n) \/ CreateTriviaQuiz(n) \/ SaveReads(n) \/ SaveWrites(n)
       \/ RetakeTriviaQuiz(n) \/ DeleteTriviaQuiz(n) \/ WriteTriviaQuiz(n)
       \/ Receive(n) \/ Fail(n) \/ GiveUp(n)

Spec == Init /\ [][Next]_vars

-----------------------------------------------------------------------------
(* Properties.                                                             *)

RawQuestions == UNION {Range(raw) : raw \in Replies}

\* The option a quiz takes for correct is the one the model marked in that
\* question, through the choice of valid questions, their shuffling and every
\* retake; and nothing was lost of the options (shuffleOptions,
\* RetakeTriviaQuiz).  Replies are taken as trimmed already.
RightAnswerKept ==
  \A id \in DOMAIN quizzes : \A i \in DOMAIN quizzes[id].questions :
    LET q == quizzes[id].questions[i]
    IN \E raw \in RawQuestions :
         /\ raw.text = q.text
         /\ q.options[q.correct] = raw.options[raw.correct]
         /\ Range(q.options) = Range(raw.options)

\* A quiz's score is that of the answers stored with it, and it is completed
\* exactly when every question is answered, however saves overlap with each
\* other and with deletions (SaveTriviaAnswers reads, then writes).
ScoreMatchesAnswers ==
  \A id \in DOMAIN quizzes :
    LET q == quizzes[id]
    IN /\ q.score = Score(q.questions, q.answers)
       /\ q.completed = (Len(q.answers) = Len(q.questions))

\* What is stored of a quiz that was only answered on pages that showed the
\* last answers is a part of these, whichever saves overtake each other or
\* fail; and unless two were in flight at once or one failed, it is all of
\* them as soon as no save is in flight (choose, SaveTriviaAnswers).
StoredFollowsPlayer ==
  \A id \in DOMAIN quizzes \ forked :
    /\ IsPrefix(quizzes[id].answers, last[id])
    /\ \/ quizzes[id].answers = last[id]
       \/ id \in raced
       \/ \E n \in DOMAIN requests : requests[n].op = "save" /\ requests[n].id = id

\* A stored quiz is changed by a save of its answers and by nothing else: a
\* retake, a deletion or a new quiz leaves the others, their answers and their
\* scores, as they are ("keeping the old score in history").
HistoryKept ==
  [][\A id \in DOMAIN quizzes \cap DOMAIN quizzes' :
       \/ quizzes'[id] = quizzes[id]
       \/ /\ quizzes'[id].questions = quizzes[id].questions
          /\ \E n \in DOMAIN requests :
               At(n, "save", "write") /\ requests[n].id = id]_vars
=============================================================================
