----------------------------- MODULE TriviaProofs -----------------------------
(***************************************************************************)
(* Proofs about Trivia: a stored quiz has the questions of a reply, with   *)
(* the options the model marked; its score and completion are those of the *)
(* answers stored with it; only a save changes it; and these answers       *)
(* follow the ones chosen on the pages: for any number of pages, quizzes,  *)
(* requests at a time and failures.                                        *)
(*                                                                         *)
(* A save reads the quiz and writes it in two statements.  What holds      *)
(* between them is SavesScored: what the save is about to write is what    *)
(* its answers make of the row as it is now, although another save may     *)
(* have changed that row since it was read.                                *)
(***************************************************************************)
EXTENDS Trivia, FiniteSetTheorems, SequenceTheorems, TLAPS

Rows(Q, A, S, C) == [questions : Q, answers : A, score : S, completed : C]
IsRow(q) == \E Q, A, S, C : q \in Rows(Q, A, S, C)

Forms(P, O, I, N, A, S, Q) ==
  [page : P, op : O, id : I, count : N, answers : A, stage : S, quiz : Q]
IsRequest(r) == \E P, O, I, N, A, S, Q : r \in Forms(P, O, I, N, A, S, Q)

Making(r) == r.op = "generate" /\ r.stage = "insert"
Writing(r) == r.op = "save" /\ r.stage = "write"

\* The answers a question offers are OptionCount, and those of a question of
\* some reply, which marked the same one as correct.
Good(q) ==
  /\ DOMAIN q.options = 1..OptionCount
  /\ \E raw \in RawQuestions :
       /\ raw.text = q.text
       /\ q.options[q.correct] = raw.options[raw.correct]
       /\ Range(q.options) = Range(raw.options)

\* The questions of a quiz.
Made(questions) ==
  /\ Len(questions) \in Nat \ {0} /\ DOMAIN questions = 1..Len(questions)
  /\ \A i \in DOMAIN questions : Good(questions[i])

\* The score and the completion of row w are what answers make of quiz q.
Scored(w, q, answers) ==
  /\ w.score = Score(q.questions, answers)
  /\ w.completed = (Len(answers) = Len(q.questions))

RowsOK ==
  /\ nextId \in Nat
  /\ \A id \in DOMAIN quizzes :
       /\ id \in Nat /\ id < nextId /\ IsRow(quizzes[id])
       /\ Made(quizzes[id].questions)

RequestsOK ==
  \A n \in DOMAIN requests :
    /\ IsRequest(requests[n])
    /\ requests[n].op = "generate" => requests[n].count \in Counts
    /\ Making(requests[n]) => Made(requests[n].quiz)

SavesScored ==
  \A n \in DOMAIN requests : Writing(requests[n]) =>
    /\ requests[n].id \in Nat /\ requests[n].id < nextId
    /\ requests[n].id \in DOMAIN quizzes =>
         Scored(requests[n].quiz, quizzes[requests[n].id], requests[n].answers)

RowsScored ==
  \A id \in DOMAIN quizzes : Scored(quizzes[id], quizzes[id], quizzes[id].answers)

Inv == RowsOK /\ RequestsOK /\ SavesScored /\ RowsScored

-----------------------------------------------------------------------------
(* Rows and requests, field by field.                                      *)

\* Answering a row gives a row with these answers and their score.
LEMMA AnsweredIsScored ==
  ASSUME NEW q, IsRow(q), NEW a
  PROVE  Scored(Answered(q, a), q, a)
<1>1. PICK s : s = Score(q.questions, a)
  OBVIOUS
<1>2. PICK c : c = (Len(a) = Len(q.questions))
  OBVIOUS
<1> DEFINE w == [q EXCEPT !.answers = a, !.score = s, !.completed = c]
<1>3. Answered(q, a) = w
  BY <1>1, <1>2, Zenon DEF Answered
<1>4. w.score = s /\ w.completed = c
  <2>1. PICK Q, A, S, C : q \in Rows(Q, A, S, C)
    BY DEF IsRow
  <2> QED BY <2>1 DEF Rows
<1> HIDE DEF w
<1> QED BY <1>1, <1>2, <1>3, <1>4, Zenon DEF Scored

\* A new quiz has no answers, and their score; a quiz of no question would be
\* completed at once.
LEMMA FreshIsScored ==
  ASSUME NEW questions, Made(questions)
  PROVE  /\ IsRow(Fresh(questions))
         /\ Fresh(questions).questions = questions
         /\ Scored(Fresh(questions), Fresh(questions), Fresh(questions).answers)
<1> DEFINE f == Fresh(questions)
<1>1. f \in Rows({questions}, {<< >>}, {0}, {FALSE})
  BY DEF Fresh, Rows
<1>2. f.questions = questions /\ f.answers = << >> /\ f.score = 0 /\ f.completed = FALSE
  BY DEF Fresh
<1>3. Score(questions, << >>) = 0
  <2>1. {i \in DOMAIN << >> : << >>[i] = questions[i].correct} = {}
    OBVIOUS
  <2> QED BY <2>1, FS_EmptySet, Zenon DEF Score
<1>4. Len(<< >>) = 0
  OBVIOUS
<1>5. IsRow(f)
  BY <1>1, Zenon DEF IsRow
<1> HIDE DEF f
<1>6. Scored(f, f, f.answers)
  <2>1. Len(questions) # 0
    BY DEF Made
  <2> QED BY <1>2, <1>3, <1>4, <2>1, Zenon DEF Scored
<1> QED BY <1>2, <1>5, <1>6 DEF f

\* The members of a finite set of numbers are counted off one by one.
LEMMA CountedOff ==
  ASSUME NEW S \in SUBSET Int, IsFiniteSet(S), NEW k \in 1..Cardinality(S)
  PROVE  \E i \in S : Cardinality({j \in S : j <= i}) = k
<1> DEFINE n == Cardinality(S)
           upTo(i) == {j \in S : j <= i}
           rank == [i \in S |-> Cardinality(upTo(i))]
           T == 1..n
<1>1. n \in Nat
  BY FS_CardinalityType
<1>2. ASSUME NEW i \in S PROVE IsFiniteSet(upTo(i)) /\ Cardinality(upTo(i)) \in T
  <2>1. upTo(i) \in SUBSET S /\ i \in upTo(i)
    OBVIOUS
  <2>2. /\ IsFiniteSet(upTo(i)) /\ Cardinality(upTo(i)) <= n
        /\ Cardinality(upTo(i)) \in Nat
    BY <2>1, FS_Subset, FS_CardinalityType
  <2>3. Cardinality(upTo(i)) # 0
    BY <2>1, <2>2, FS_EmptySet
  <2> QED BY <1>1, <2>2, <2>3
<1>3. ASSUME NEW i \in S, NEW j \in S, i < j
      PROVE  Cardinality(upTo(i)) # Cardinality(upTo(j))
  <2>0. \A x \in S : x \in Int
    OBVIOUS
  <2>1. /\ \A x \in S : x <= i => x <= j
        /\ j <= j /\ ~(j <= i)
    BY <1>3, <2>0
  <2>3. upTo(i) \in SUBSET upTo(j) /\ j \in upTo(j) /\ j \notin upTo(i)
    BY <2>1
  <2>2. upTo(i) # upTo(j)
    BY <2>3
  <2> QED BY <1>2, <2>3, <2>2, FS_Subset
<1>4. rank \in Injection(S, T)
  <2>1. rank \in [S -> T]
    BY <1>2
  <2>2. \A i, j \in S : rank[i] = rank[j] => i = j
    BY <1>3
  <2> QED BY <2>1, <2>2 DEF Injection, IsInjective
<1>5. IsFiniteSet(T) /\ Cardinality(T) = n
  <2>1. IsFiniteSet(1..n) /\ Cardinality(1..n) = IF 1 > n THEN 0 ELSE n - 1 + 1
    BY <1>1, FS_Interval
  <2> QED BY <1>1, <2>1
<1>6. rank \in Surjection(S, T)
  BY <1>4, <1>5, FS_Injection
<1>7. PICK i \in S : rank[i] = k
  BY <1>6 DEF Surjection
<1> QED BY <1>7

\* Shuffling moves the options and finds the correct one again: the options of
\* a well-formed question are distinct, so it is at one place only.
LEMMA ShuffledIsGood ==
  ASSUME NEW q \in RawQuestions, WellFormed(q), NEW order \in Orders
  PROVE  Good(ShuffleOptions(q, order))
<1> DEFINE options == [i \in DOMAIN q.options |-> q.options[order[i]]]
           Found(i) == /\ options[i] = q.options[q.correct]
                       /\ \A j \in 1..(i - 1) : options[j] # options[i]
           correct == CHOOSE i \in DOMAIN options : Found(i)
<1>1. q \in Question
  <2>1. PICK raw \in Replies : q \in Range(raw)
    BY DEF RawQuestions
  <2>2. raw \in Seq(Question)
    BY ReplyAssumption
  <2> QED BY <2>1, <2>2 DEF Range
<1>2. /\ q.options \in Seq(Option) /\ Len(q.options) = OptionCount
      /\ DOMAIN q.options = 1..OptionCount
      /\ q.correct \in 1..OptionCount
  <2>1. q.options \in Seq(Option)
    BY <1>1 DEF Question
  <2>2. Len(q.options) = OptionCount /\ q.correct \in 1..OptionCount
    BY DEF WellFormed
  <2> QED BY <2>1, <2>2, LenProperties
<1>3. \A i, j \in 1..OptionCount : i # j => q.options[i] # q.options[j]
  BY <1>2 DEF WellFormed, DistinctOptions
<1>4. /\ order \in [1..OptionCount -> 1..OptionCount]
      /\ \A i, j \in 1..OptionCount : order[i] = order[j] => i = j
      /\ \A j \in 1..OptionCount : \E i \in 1..OptionCount : order[i] = j
  BY OrderAssumption DEF Bijection, Injection, Surjection, IsInjective
<1>5. DOMAIN options = 1..OptionCount
  BY <1>2
<1>6. \E i \in DOMAIN options : Found(i)
  <2>1. PICK i \in 1..OptionCount : order[i] = q.correct
    BY <1>2, <1>4
  <2>2. options[i] = q.options[q.correct]
    BY <1>2, <2>1
  <2>3. ASSUME NEW j \in 1..(i - 1) PROVE options[j] # options[i]
    <3>1. j \in 1..OptionCount /\ j # i
      BY OptionAssumption
    <3>2. order[j] # order[i] /\ order[j] \in 1..OptionCount /\ order[i] \in 1..OptionCount
      BY <1>4, <3>1
    <3> QED BY <1>2, <1>3, <3>1, <3>2
  <2> QED BY <1>5, <2>2, <2>3
<1>7. correct \in DOMAIN options /\ options[correct] = q.options[q.correct]
  <2> HIDE DEF options
  <2> QED BY <1>6, Zenon
<1>8. Range(options) = Range(q.options)
  <2>1. \A i \in 1..OptionCount : options[i] = q.options[order[i]]
    BY <1>2
  <2>2. Range(options) = {options[i] : i \in 1..OptionCount}
    BY <1>5, Zenon DEF Range
  <2>3. Range(q.options) = {q.options[i] : i \in 1..OptionCount}
    BY <1>2, Zenon DEF Range
  <2> HIDE DEF options
  <2>4. \A i \in 1..OptionCount : order[i] \in 1..OptionCount
    BY <1>4
  <2>5. ASSUME NEW x \in Range(options) PROVE x \in Range(q.options)
    BY <2>1, <2>2, <2>3, <2>4
  <2>6. ASSUME NEW x \in Range(q.options) PROVE x \in Range(options)
    <3>1. PICK j \in 1..OptionCount : x = q.options[j]
      BY <2>3
    <3>2. PICK i \in 1..OptionCount : order[i] = j
      BY <1>4
    <3> QED BY <2>1, <2>2, <3>1, <3>2
  <2> QED BY <2>5, <2>6
<1> HIDE DEF Found, correct
<1> DEFINE s == [q EXCEPT !.options = options, !.correct = correct]
<1>9. s.text = q.text /\ s.options = options /\ s.correct = correct
  BY <1>1 DEF Question
<1>10. ShuffleOptions(q, order) = s
  BY Zenon DEF ShuffleOptions, correct, Found
<1> HIDE DEF s, options
<1>11. Good(s)
  BY <1>5, <1>7, <1>8, <1>9 DEF Good
<1> QED BY <1>10, <1>11

\* What a reply becomes is a sequence of at least one question, each of them
\* one of the reply.
LEMMA GeneratedIsMade ==
  ASSUME NEW raw \in Replies, NEW count \in Counts,
         NEW questions \in GenerateTrivia(raw, count)
  PROVE  Made(questions)
<1> DEFINE valid == {i \in DOMAIN raw : WellFormed(raw[i])}
           many == Cardinality(valid)
           n == IF many < count THEN many ELSE count
           nth(k) == CHOOSE i \in valid : Cardinality({j \in valid : j <= i}) = k
           kept == SanitizeTrivia(raw, count)
<1>1. IsFiniteSet(valid) /\ many \in Nat /\ valid \in SUBSET Int /\ count \in Nat
  <2>1. DOMAIN raw = 1..Len(raw) /\ Len(raw) \in Nat
    BY ReplyAssumption
  <2>2. valid \in SUBSET (1..Len(raw)) /\ IsFiniteSet(1..Len(raw))
    BY <2>1, FS_Interval
  <2> QED BY <2>2, FS_Subset, FS_CardinalityType, CountAssumption
<1>2. \A k \in 1..many : nth(k) \in valid
  <2>1. \A k \in 1..many : \E i \in valid : Cardinality({j \in valid : j <= i}) = k
    BY <1>1, CountedOff
  <2> QED BY <2>1, Zenon
<1>3. \A k \in 1..many : raw[nth(k)] \in RawQuestions /\ WellFormed(raw[nth(k)])
  <2> SUFFICES ASSUME NEW k \in 1..many
               PROVE  raw[nth(k)] \in RawQuestions /\ WellFormed(raw[nth(k)])
    OBVIOUS
  <2>1. nth(k) \in DOMAIN raw /\ WellFormed(raw[nth(k)])
    BY <1>2
  <2> HIDE DEF nth
  <2>2. raw[nth(k)] \in Range(raw)
    BY <2>1 DEF Range
  <2> QED BY <2>1, <2>2, Zenon DEF RawQuestions
<1>4. n \in Nat /\ {k \in 1..count : k <= many} = 1..n /\ 1..n \subseteq 1..many
  BY <1>1
<1>5. kept = [k \in 1..n |-> raw[nth(k)]]
  <2>1. kept = [k \in {m \in 1..count : m <= many} |-> raw[nth(k)]]
    BY Zenon DEF SanitizeTrivia
  <2> QED BY <1>4, <2>1
<1> HIDE DEF n, nth
<1>6. Len(kept) = n /\ DOMAIN kept = 1..n
  BY <1>4, <1>5
<1>7. \A k \in 1..n : kept[k] \in RawQuestions /\ WellFormed(kept[k])
  BY <1>3, <1>4, <1>5
<1> HIDE DEF kept
<1>8. Len(kept) # 0
  BY Zenon DEF GenerateTrivia, kept
<1>9. PICK orders \in [1..n -> Orders] :
        questions = [i \in 1..n |-> ShuffleOptions(kept[i], orders[i])]
  <2>1. PICK orders \in [DOMAIN kept -> Orders] :
          questions = [i \in DOMAIN kept |-> ShuffleOptions(kept[i], orders[i])]
    BY <1>8, Zenon DEF GenerateTrivia, kept
  <2> QED BY <1>6, <2>1
<1>10. \A i \in 1..n : Good(questions[i])
  BY <1>7, <1>9, ShuffledIsGood
<1>11. Len(questions) = n /\ DOMAIN questions = 1..n
  <2> DEFINE e == [i \in 1..n |-> ShuffleOptions(kept[i], orders[i])]
  <2>1. questions = [i \in 1..n |-> e[i]]
    BY <1>9
  <2> HIDE DEF e
  <2> QED BY <1>4, <2>1
<1> QED BY <1>4, <1>6, <1>8, <1>10, <1>11 DEF Made

-----------------------------------------------------------------------------
(* What a step may do to the requests and to the table.                    *)

\* A request of the kinds the handlers and pages make.
Sound(r) ==
  /\ IsRequest(r)
  /\ r.op = "generate" => r.count \in Counts
  /\ Making(r) => Made(r.quiz)
  /\ Writing(r) => /\ r.id \in Nat /\ r.id < nextId
                   /\ r.id \in DOMAIN quizzes =>
                        Scored(r.quiz, quizzes[r.id], r.answers)

\* One request comes, changes or goes.
OneRequest ==
  \/ UNCHANGED requests
  \/ \E k : requests' = Drop(requests, k)
  \/ \E k, r : /\ Sound(r)
               /\ \/ requests' = Put(requests, k, r)
                  \/ k \in DOMAIN requests /\ requests' = [requests EXCEPT ![k] = r]

\* Rows keep their questions, and a new one gets a number no row has had.
TableKeeps ==
  /\ nextId' \in Nat /\ nextId <= nextId'
  /\ \A id \in DOMAIN quizzes' : id < nextId =>
       id \in DOMAIN quizzes /\ quizzes'[id].questions = quizzes[id].questions

LEMMA RequestsKept ==
  ASSUME RowsOK, RequestsOK, SavesScored, TableKeeps, OneRequest
  PROVE  RequestsOK' /\ SavesScored'
<1>1. ASSUME NEW m \in DOMAIN requests' PROVE Sound(requests'[m])
  <2>1. \A n \in DOMAIN requests : Sound(requests[n])
    BY DEF RequestsOK, SavesScored, Sound
  <2>2. CASE UNCHANGED requests
    BY <2>1, <2>2
  <2>3. ASSUME NEW k, requests' = Drop(requests, k) PROVE Sound(requests'[m])
    BY <2>1, <2>3 DEF Drop
  <2>4. ASSUME NEW k, NEW r, Sound(r), requests' = Put(requests, k, r)
        PROVE  Sound(requests'[m])
    BY <2>1, <2>4 DEF Put
  <2>5. ASSUME NEW k \in DOMAIN requests, NEW r, Sound(r),
               requests' = [requests EXCEPT ![k] = r]
        PROVE  Sound(requests'[m])
    BY <2>1, <2>5
  <2> QED BY <2>2, <2>3, <2>4, <2>5 DEF OneRequest
<1>2. RequestsOK'
  BY <1>1 DEF Sound, RequestsOK
<1>3. ASSUME NEW m \in DOMAIN requests', Writing(requests'[m])
      PROVE  LET r == requests'[m]
             IN /\ r.id \in Nat /\ r.id < nextId'
                /\ r.id \in DOMAIN quizzes' => Scored(r.quiz, quizzes'[r.id], r.answers)
  <2> DEFINE r == requests'[m]
  <2>1. Sound(r) /\ Writing(r)
    BY <1>1, <1>3
  <2> HIDE DEF r
  <2>2. r.id \in Nat /\ r.id < nextId
    BY <2>1 DEF Sound
  <2>3. r.id < nextId'
    BY <2>2 DEF TableKeeps, RowsOK
  <2>4. ASSUME r.id \in DOMAIN quizzes' PROVE Scored(r.quiz, quizzes'[r.id], r.answers)
    <3>1. r.id \in DOMAIN quizzes /\ quizzes'[r.id].questions = quizzes[r.id].questions
      BY <2>2, <2>4 DEF TableKeeps
    <3>2. Scored(r.quiz, quizzes[r.id], r.answers)
      BY <2>1, <3>1 DEF Sound
    <3> QED BY <3>1, <3>2, Zenon DEF Scored
  <2> QED BY <2>2, <2>3, <2>4 DEF r
<1>4. SavesScored'
  BY <1>3 DEF SavesScored, Writing
<1> QED BY <1>2, <1>4

\* The table with one quiz inserted.
LEMMA InsertKeeps ==
  ASSUME RowsOK, RowsScored, NEW questions, Made(questions), Insert(questions)
  PROVE  RowsOK' /\ RowsScored' /\ TableKeeps
<1>1. /\ quizzes' = Put(quizzes, nextId, Fresh(questions)) /\ nextId' = nextId + 1
  BY DEF Insert
<1>2. nextId \notin DOMAIN quizzes
  BY DEF RowsOK
<1>3. \A id \in DOMAIN quizzes' : quizzes'[id] = IF id = nextId THEN Fresh(questions)
                                                              ELSE quizzes[id]
  BY <1>1 DEF Put
<1>4. DOMAIN quizzes' = DOMAIN quizzes \cup {nextId}
  BY <1>1 DEF Put
<1>5. RowsOK'
  BY <1>1, <1>3, <1>4, FreshIsScored DEF RowsOK
<1>6. RowsScored'
  BY <1>3, <1>4, FreshIsScored DEF RowsScored
<1>7. TableKeeps
  BY <1>1, <1>3, <1>4 DEF RowsOK, TableKeeps
<1> QED BY <1>5, <1>6, <1>7

LEMMA SameTableKeeps ==
  ASSUME RowsOK, RowsScored, UNCHANGED table
  PROVE  RowsOK' /\ RowsScored' /\ TableKeeps
  BY DEF RowsOK, RowsScored, TableKeeps, table

\* A request that is sent has just arrived.
LEMMA SentIsSound ==
  ASSUME NEW p, NEW i, NEW c, NEW a
  PROVE  /\ c \in Counts => Sound([Blank EXCEPT !.page = p, !.op = "generate", !.count = c])
         /\ Sound([Blank EXCEPT !.page = p, !.id = i])
         /\ Sound([Blank EXCEPT !.page = p, !.op = "save", !.id = i, !.answers = a])
         /\ Sound([Blank EXCEPT !.page = p, !.op = "retake", !.id = i])
         /\ Sound([Blank EXCEPT !.page = p, !.op = "delete", !.id = i])
<1>1. ASSUME c \in Counts
      PROVE  Sound([Blank EXCEPT !.page = p, !.op = "generate", !.count = c])
  <2> DEFINE r == [Blank EXCEPT !.page = p, !.op = "generate", !.count = c]
  <2>1. r \in Forms({p}, {"generate"}, {0}, {c}, {<< >>}, {"arrived"}, {<< >>})
    BY DEF Blank, Forms
  <2>2. r.op = "generate" /\ r.stage = "arrived" /\ r.count \in {c}
    BY DEF Blank
  <2>3. IsRequest(r)
    BY <2>1, Zenon DEF IsRequest
  <2> HIDE DEF r
  <2>4. Sound(r)
    BY <1>1, <2>2, <2>3 DEF Sound, Making, Writing
  <2> QED BY <2>4 DEF r
<1>2. Sound([Blank EXCEPT !.page = p, !.id = i])
  <2> DEFINE r == [Blank EXCEPT !.page = p, !.id = i]
  <2>1. r \in Forms({p}, {"get"}, {i}, {0}, {<< >>}, {"arrived"}, {<< >>})
    BY DEF Blank, Forms
  <2>2. r.op = "get" /\ r.stage = "arrived" /\ r.count \in {0}
    BY DEF Blank
  <2>3. IsRequest(r)
    BY <2>1, Zenon DEF IsRequest
  <2> HIDE DEF r
  <2>4. Sound(r)
    BY <2>2, <2>3 DEF Sound, Making, Writing
  <2> QED BY <2>4 DEF r
<1>3. Sound([Blank EXCEPT !.page = p, !.op = "save", !.id = i, !.answers = a])
  <2> DEFINE r == [Blank EXCEPT !.page = p, !.op = "save", !.id = i, !.answers = a]
  <2>1. r \in Forms({p}, {"save"}, {i}, {0}, {a}, {"arrived"}, {<< >>})
    BY DEF Blank, Forms
  <2>2. r.op = "save" /\ r.stage = "arrived" /\ r.count \in {0}
    BY DEF Blank
  <2>3. IsRequest(r)
    BY <2>1, Zenon DEF IsRequest
  <2> HIDE DEF r
  <2>4. Sound(r)
    BY <2>2, <2>3 DEF Sound, Making, Writing
  <2> QED BY <2>4 DEF r
<1>4. Sound([Blank EXCEPT !.page = p, !.op = "retake", !.id = i])
  <2> DEFINE r == [Blank EXCEPT !.page = p, !.op = "retake", !.id = i]
  <2>1. r \in Forms({p}, {"retake"}, {i}, {0}, {<< >>}, {"arrived"}, {<< >>})
    BY DEF Blank, Forms
  <2>2. r.op = "retake" /\ r.stage = "arrived" /\ r.count \in {0}
    BY DEF Blank
  <2>3. IsRequest(r)
    BY <2>1, Zenon DEF IsRequest
  <2> HIDE DEF r
  <2>4. Sound(r)
    BY <2>2, <2>3 DEF Sound, Making, Writing
  <2> QED BY <2>4 DEF r
<1>5. Sound([Blank EXCEPT !.page = p, !.op = "delete", !.id = i])
  <2> DEFINE r == [Blank EXCEPT !.page = p, !.op = "delete", !.id = i]
  <2>1. r \in Forms({p}, {"delete"}, {i}, {0}, {<< >>}, {"arrived"}, {<< >>})
    BY DEF Blank, Forms
  <2>2. r.op = "delete" /\ r.stage = "arrived" /\ r.count \in {0}
    BY DEF Blank
  <2>3. IsRequest(r)
    BY <2>1, Zenon DEF IsRequest
  <2> HIDE DEF r
  <2>4. Sound(r)
    BY <2>2, <2>3 DEF Sound, Making, Writing
  <2> QED BY <2>4 DEF r
<1> QED BY <1>1, <1>2, <1>3, <1>4, <1>5, Zenon

-----------------------------------------------------------------------------
(* Every step.                                                             *)

\* What a step does to the rows, as HistoryKept says it.
RowsChange ==
  \A id \in DOMAIN quizzes \cap DOMAIN quizzes' :
    \/ quizzes'[id] = quizzes[id]
    \/ /\ quizzes'[id].questions = quizzes[id].questions
       /\ \E n \in DOMAIN requests : At(n, "save", "write") /\ requests[n].id = id

Step == OneRequest /\ TableKeeps /\ RowsOK' /\ RowsScored' /\ RowsChange

\* A step that leaves the table alone and one request other than it was.
LEMMA RequestStep ==
  ASSUME Inv, UNCHANGED table, OneRequest
  PROVE  Step
<1>1. RowsOK' /\ RowsScored' /\ TableKeeps
  BY SameTableKeeps DEF Inv
<1>2. RowsChange
  BY DEF RowsChange, table
<1> QED BY <1>1, <1>2 DEF Step

LEMMA PageStep ==
  ASSUME Inv, NEW p, NEW i,
         Generate(p) \/ Leave(p) \/ Choose(p) \/ Retake(p) \/ Open(p, i) \/ Delete(p, i)
  PROVE  Step
<1>1. UNCHANGED table
  BY DEF Generate, Leave, Choose, Retake, Open, Delete
<1>2. ASSUME NEW r, Send(r), Sound(r) PROVE OneRequest
  BY <1>2, Zenon DEF Send, OneRequest
<1>3. OneRequest
  <2>1. CASE Generate(p)
    <3>1. PICK count \in Counts :
            Send([Blank EXCEPT !.page = p, !.op = "generate", !.count = count])
      BY <2>1, Zenon DEF Generate
    <3>3. Sound([Blank EXCEPT !.page = p, !.op = "generate", !.count = count])
      BY SentIsSound
    <3> QED BY <3>1, <1>2, <3>3, Zenon
  <2>2. CASE Leave(p)
    BY <2>2 DEF Leave, OneRequest
  <2>3. CASE Choose(p)
    <3>1. PICK a : Send([Blank EXCEPT !.page = p, !.op = "save", !.id = player[p].at,
                                      !.answers = a])
      BY <2>3, Zenon DEF Choose
    <3>3. Sound([Blank EXCEPT !.page = p, !.op = "save", !.id = player[p].at, !.answers = a])
      BY SentIsSound
    <3> QED BY <3>1, <1>2, <3>3, Zenon
  <2>4. CASE Retake(p)
    <3>1. Send([Blank EXCEPT !.page = p, !.op = "retake", !.id = player[p].at])
      BY <2>4, Zenon DEF Retake
    <3>3. Sound([Blank EXCEPT !.page = p, !.op = "retake", !.id = player[p].at])
      BY SentIsSound
    <3> QED BY <3>1, <1>2, <3>3, Zenon
  <2>5. CASE Open(p, i)
    <3>1. UNCHANGED requests \/ Send([Blank EXCEPT !.page = p, !.id = i])
      BY <2>5, Zenon DEF Open
    <3>2. CASE UNCHANGED requests
      BY <3>2 DEF OneRequest
    <3>3. Sound([Blank EXCEPT !.page = p, !.id = i])
      BY SentIsSound
    <3> QED BY <3>1, <3>2, <1>2, <3>3, Zenon
  <2>6. CASE Delete(p, i)
    <3>1. Send([Blank EXCEPT !.page = p, !.op = "delete", !.id = i])
      BY <2>6, Zenon DEF Delete
    <3>3. Sound([Blank EXCEPT !.page = p, !.op = "delete", !.id = i])
      BY SentIsSound
    <3> QED BY <3>1, <1>2, <3>3, Zenon
  <2> QED BY <2>1, <2>2, <2>3, <2>4, <2>5, <2>6
<1> QED BY <1>1, <1>3, RequestStep

\* What the invariant says of request n.
LEMMA InFlight ==
  ASSUME Inv, NEW n \in DOMAIN requests
  PROVE  /\ Sound(requests[n])
         /\ \A s : Sound(s) /\ Proceed(n, s) => OneRequest
         /\ Refuse(n) => OneRequest
<1>1. Sound(requests[n])
  BY DEF Inv, RequestsOK, SavesScored, Sound
<1>2. \A s : Sound(s) /\ Proceed(n, s) => OneRequest
  BY Zenon DEF Proceed, OneRequest
<1>3. Refuse(n) => OneRequest
  BY Zenon DEF Refuse, OneRequest
<1> QED BY <1>1, <1>2, <1>3

\* A request past its first stages carries nothing the table depends on.
LEMMA IdleIsSound ==
  ASSUME NEW s, IsRequest(s), s.op = "generate" => s.count \in Counts,
         s.stage \notin {"insert", "write"}
  PROVE  Sound(s)
BY DEF Sound, Making, Writing

LEMMA AskModelStep ==
  ASSUME Inv, NEW n, AskModel(n)
  PROVE  Step
<1> DEFINE r == requests[n]
<1>1. n \in DOMAIN requests /\ r.op = "generate" /\ UNCHANGED table
  BY DEF AskModel, At
<1>2. Sound(r)
  BY <1>1, InFlight
<1>3. r.count \in Counts /\ IsRequest(r)
  BY <1>1, <1>2 DEF Sound
<1>4. PICK raw \in Replies :
        \/ Refuse(n)
        \/ \E questions \in GenerateTrivia(raw, r.count) :
              Proceed(n, [r EXCEPT !.stage = "insert", !.quiz = questions])
  BY Zenon DEF AskModel
<1>5. CASE Refuse(n)
  BY <1>1, <1>5, InFlight, RequestStep
<1>6. ASSUME NEW questions \in GenerateTrivia(raw, r.count),
             Proceed(n, [r EXCEPT !.stage = "insert", !.quiz = questions])
      PROVE  Step
  <2> HIDE DEF r
  <2>0. PICK s : s = [r EXCEPT !.stage = "insert", !.quiz = questions]
    OBVIOUS
  <2>1. Made(questions)
    BY <1>3, <1>6, GeneratedIsMade
  <2>2. /\ IsRequest(s) /\ s.op = r.op /\ s.count = r.count
        /\ s.stage = "insert" /\ s.quiz = questions
    <3>1. PICK P, O, I, N, A, S, Q : r \in Forms(P, O, I, N, A, S, Q)
      BY <1>3 DEF IsRequest
    <3>2. /\ s \in Forms(P, O, I, N, A, {"insert"}, {questions})
          /\ s.op = r.op /\ s.count = r.count /\ s.stage = "insert" /\ s.quiz = questions
      BY <2>0, <3>1 DEF Forms
    <3> QED BY <3>2, Zenon DEF IsRequest
  <2>3. Proceed(n, s)
    BY <1>6, <2>0, Zenon
  <2>4. Sound(s)
    BY <1>1, <1>3, <2>1, <2>2 DEF Sound, Making, Writing
  <2> QED BY <1>1, <2>3, <2>4, InFlight, RequestStep
<1> QED BY <1>4, <1>5, <1>6

LEMMA InsertChanges ==
  ASSUME RowsOK, NEW questions, Insert(questions)
  PROVE  RowsChange
<1>1. quizzes' = Put(quizzes, nextId, Fresh(questions)) /\ nextId \notin DOMAIN quizzes
  BY DEF Insert, RowsOK
<1> QED BY <1>1 DEF Put, RowsChange

LEMMA CreateStep ==
  ASSUME Inv, NEW n, CreateTriviaQuiz(n)
  PROVE  Step
<1> DEFINE r == requests[n]
<1>0. PICK s : s = [r EXCEPT !.stage = "answer", !.id = nextId, !.quiz = << >>]
  OBVIOUS
<1>1. /\ n \in DOMAIN requests /\ r.op = "generate" /\ r.stage = "insert"
      /\ Insert(r.quiz) /\ Proceed(n, s)
  BY <1>0, Zenon DEF CreateTriviaQuiz, At
<1>2. Sound(r)
  BY <1>1, InFlight
<1>3. IsRequest(r) /\ r.count \in Counts /\ Made(r.quiz)
  BY <1>1, <1>2 DEF Sound, Making
<1>4. IsRequest(s) /\ s.op = r.op /\ s.count = r.count /\ s.stage = "answer"
  <2>1. PICK P, O, I, N, A, S, Q : r \in Forms(P, O, I, N, A, S, Q)
    BY <1>3 DEF IsRequest
  <2>2. /\ s \in Forms(P, O, {nextId}, N, A, {"answer"}, {<< >>})
        /\ s.op = r.op /\ s.count = r.count /\ s.stage = "answer"
    BY <1>0, <2>1 DEF Forms
  <2> QED BY <2>2, Zenon DEF IsRequest
<1> HIDE DEF r
<1>5. Sound(s)
  BY <1>3, <1>4, IdleIsSound
<1>6. OneRequest
  BY <1>1, <1>5, InFlight
<1>7. RowsOK' /\ RowsScored' /\ TableKeeps
  BY <1>1, <1>3, InsertKeeps DEF Inv
<1>8. RowsChange
  BY <1>1, InsertChanges DEF Inv
<1> QED BY <1>6, <1>7, <1>8 DEF Step

LEMMA RetakeStep ==
  ASSUME Inv, NEW n, RetakeTriviaQuiz(n)
  PROVE  Step
<1> DEFINE r == requests[n]
<1>0. PICK s : s = [r EXCEPT !.stage = "answer", !.count = r.id, !.id = nextId]
  OBVIOUS
<1>1. n \in DOMAIN requests /\ r.op = "retake"
  BY DEF RetakeTriviaQuiz, At
<1>2. CASE r.id \notin DOMAIN quizzes
  <2>1. Refuse(n) /\ UNCHANGED table
    BY <1>2 DEF RetakeTriviaQuiz
  <2> QED BY <1>1, <2>1, InFlight, RequestStep
<1>3. CASE r.id \in DOMAIN quizzes
  <2>1. Insert(quizzes[r.id].questions) /\ Proceed(n, s)
    BY <1>0, <1>3, Zenon DEF RetakeTriviaQuiz
  <2>2. Made(quizzes[r.id].questions)
    BY <1>3 DEF Inv, RowsOK
  <2>3. IsRequest(r)
    BY <1>1, InFlight DEF Sound
  <2>4. IsRequest(s) /\ s.op = r.op /\ s.stage = "answer"
    <3>1. PICK P, O, I, N, A, S, Q : r \in Forms(P, O, I, N, A, S, Q)
      BY <2>3 DEF IsRequest
    <3>2. /\ s \in Forms(P, O, {nextId}, {r.id}, A, {"answer"}, Q)
          /\ s.op = r.op /\ s.stage = "answer"
      BY <1>0, <3>1 DEF Forms
    <3> QED BY <3>2, Zenon DEF IsRequest
  <2> HIDE DEF r
  <2>5. Sound(s)
    BY <1>1, <2>4, IdleIsSound
  <2>6. OneRequest
    BY <1>1, <2>1, <2>5, InFlight
  <2>7. RowsOK' /\ RowsScored' /\ TableKeeps
    BY <2>1, <2>2, InsertKeeps DEF Inv
  <2>8. RowsChange
    BY <2>1, InsertChanges DEF Inv
  <2> QED BY <2>6, <2>7, <2>8 DEF Step
<1> QED BY <1>2, <1>3

LEMMA SaveReadsStep ==
  ASSUME Inv, NEW n, SaveReads(n)
  PROVE  Step
<1> DEFINE r == requests[n]
<1>1. n \in DOMAIN requests /\ r.op = "save" /\ UNCHANGED table
  BY DEF SaveReads, At
<1>2. CASE Refuse(n)
  BY <1>1, <1>2, InFlight, RequestStep
<1>3. CASE r.id \in DOMAIN quizzes /\
           Proceed(n, [r EXCEPT !.stage = "write", !.quiz = Answered(quizzes[r.id], r.answers)])
  <2> DEFINE w == Answered(quizzes[r.id], r.answers)
  <2>0. PICK s : s = [r EXCEPT !.stage = "write", !.quiz = w]
    OBVIOUS
  <2>1. IsRequest(r)
    BY <1>1, InFlight DEF Sound
  <2>2. r.id \in Nat /\ r.id < nextId /\ IsRow(quizzes[r.id])
    BY <1>3 DEF Inv, RowsOK
  <2>3. Scored(w, quizzes[r.id], r.answers)
    BY <2>2, AnsweredIsScored
  <2> HIDE DEF w
  <2>4. /\ IsRequest(s) /\ s.op = r.op /\ s.id = r.id /\ s.answers = r.answers
        /\ s.stage = "write" /\ s.quiz = w
    <3>1. PICK P, O, I, N, A, S, Q : r \in Forms(P, O, I, N, A, S, Q)
      BY <2>1 DEF IsRequest
    <3>2. /\ s \in Forms(P, O, I, N, A, {"write"}, {w})
          /\ s.op = r.op /\ s.id = r.id /\ s.answers = r.answers /\ s.stage = "write" /\ s.quiz = w
      BY <2>0, <3>1 DEF Forms
    <3> QED BY <3>2, Zenon DEF IsRequest
  <2>5. Proceed(n, s)
    BY <1>3, <2>0, Zenon DEF w
  <2> HIDE DEF r
  <2>6. Sound(s)
    BY <1>1, <2>2, <2>3, <2>4 DEF Sound, Making, Writing
  <2> QED BY <1>1, <2>5, <2>6, InFlight, RequestStep
<1> QED BY <1>2, <1>3 DEF SaveReads

LEMMA SaveWritesStep ==
  ASSUME Inv, NEW n, SaveWrites(n)
  PROVE  Step
<1> DEFINE r == requests[n]
<1>0. PICK s : s = [r EXCEPT !.stage = "answer", !.quiz = << >>]
  OBVIOUS
<1>1. /\ n \in DOMAIN requests /\ r.op = "save" /\ r.stage = "write"
      /\ Proceed(n, s) /\ nextId' = nextId
  BY <1>0, Zenon DEF SaveWrites, At
<1>2. Sound(r) /\ IsRequest(r) /\ Writing(r)
  BY <1>1, InFlight DEF Sound, Writing
<1>3. IsRequest(s) /\ s.op = r.op /\ s.stage = "answer"
  <2>1. PICK P, O, I, N, A, S, Q : r \in Forms(P, O, I, N, A, S, Q)
    BY <1>2 DEF IsRequest
  <2>2. /\ s \in Forms(P, O, I, N, A, {"answer"}, {<< >>})
        /\ s.op = r.op /\ s.stage = "answer"
    BY <1>0, <2>1 DEF Forms
  <2> QED BY <2>2, Zenon DEF IsRequest
<1>4. OneRequest
  <2> HIDE DEF r
  <2>1. Sound(s)
    BY <1>1, <1>3, IdleIsSound
  <2> QED BY <1>1, <2>1, InFlight
<1>5. CASE r.id \notin DOMAIN quizzes
  <2>1. UNCHANGED table
    BY <1>5, <1>1, Zenon DEF SaveWrites, table
  <2> QED BY <1>4, <2>1, RequestStep
<1>6. CASE r.id \in DOMAIN quizzes
  <2> DEFINE q == quizzes[r.id]
             w == [q EXCEPT !.answers = r.answers, !.score = r.quiz.score,
                            !.completed = r.quiz.completed]
  <2>1. quizzes' = [quizzes EXCEPT ![r.id] = w]
    BY <1>6, Zenon DEF SaveWrites
  <2>2. IsRow(q) /\ Made(q.questions)
    BY <1>6 DEF Inv, RowsOK
  <2>3. /\ IsRow(w) /\ w.questions = q.questions /\ w.answers = r.answers
        /\ w.score = r.quiz.score /\ w.completed = r.quiz.completed
    <3>1. PICK Q, A, S, C : q \in Rows(Q, A, S, C)
      BY <2>2 DEF IsRow
    <3>2. w \in Rows(Q, {r.answers}, {r.quiz.score}, {r.quiz.completed})
      BY <3>1 DEF Rows
    <3>3. /\ w.questions = q.questions /\ w.answers = r.answers
          /\ w.score = r.quiz.score /\ w.completed = r.quiz.completed
      BY <3>1 DEF Rows
    <3> QED BY <3>2, <3>3, Zenon DEF IsRow
  <2>4. Scored(r.quiz, q, r.answers)
    BY <1>2, <1>6 DEF Sound
  <2> HIDE DEF w
  <2>5. Scored(w, w, w.answers)
    BY <2>3, <2>4, Zenon DEF Scored
  <2> HIDE DEF q, r
  <2>6. /\ DOMAIN quizzes' = DOMAIN quizzes
        /\ \A id \in DOMAIN quizzes : quizzes'[id] = IF id = r.id THEN w ELSE quizzes[id]
    BY <2>1
  <2>7. w.questions = quizzes[r.id].questions
    BY <2>3 DEF q
  <2>8. RowsOK'
    BY <1>1, <2>2, <2>3, <2>6 DEF Inv, RowsOK
  <2>9. RowsScored'
    BY <2>5, <2>6 DEF Inv, RowsScored
  <2>10. TableKeeps
    BY <1>1, <2>6, <2>7 DEF Inv, RowsOK, TableKeeps
  <2>11. At(n, "save", "write") /\ requests[n].id = r.id
    BY <1>1 DEF At, r
  <2>12. RowsChange
    BY <1>1, <2>6, <2>7, <2>11 DEF RowsChange
  <2> QED BY <1>4, <2>8, <2>9, <2>10, <2>12 DEF Step
<1> QED BY <1>5, <1>6

LEMMA DeleteStep ==
  ASSUME Inv, NEW n, DeleteTriviaQuiz(n)
  PROVE  Step
<1> DEFINE r == requests[n]
<1>0. PICK s : s = [r EXCEPT !.stage = "reply"]
  OBVIOUS
<1>1. n \in DOMAIN requests /\ r.op = "delete" /\ nextId' = nextId
  BY DEF DeleteTriviaQuiz, At
<1>2. IsRequest(r)
  BY <1>1, InFlight DEF Sound
<1>3. IsRequest(s) /\ s.op = r.op /\ s.stage = "reply"
  <2>1. PICK P, O, I, N, A, S, Q : r \in Forms(P, O, I, N, A, S, Q)
    BY <1>2 DEF IsRequest
  <2>2. /\ s \in Forms(P, O, I, N, A, {"reply"}, Q)
        /\ s.op = r.op /\ s.stage = "reply"
    BY <1>0, <2>1 DEF Forms
  <2> QED BY <2>2, Zenon DEF IsRequest
<1>4. CASE r.id \notin DOMAIN quizzes
  <2>1. Refuse(n) /\ UNCHANGED table
    BY <1>4 DEF DeleteTriviaQuiz, table
  <2> QED BY <1>1, <2>1, InFlight, RequestStep
<1>5. CASE r.id \in DOMAIN quizzes
  <2>1. quizzes' = Drop(quizzes, r.id) /\ Proceed(n, s)
    BY <1>0, <1>5, Zenon DEF DeleteTriviaQuiz
  <2> HIDE DEF r
  <2>2. OneRequest
    <3>1. Sound(s)
      BY <1>1, <1>3, IdleIsSound
    <3> QED BY <1>1, <2>1, <3>1, InFlight
  <2>3. /\ DOMAIN quizzes' \subseteq DOMAIN quizzes
        /\ \A id \in DOMAIN quizzes' : quizzes'[id] = quizzes[id]
    BY <2>1 DEF Drop
  <2>4. RowsOK' /\ RowsScored' /\ TableKeeps /\ RowsChange
    BY <1>1, <2>3 DEF Inv, RowsOK, RowsScored, TableKeeps, RowsChange
  <2> QED BY <2>2, <2>4 DEF Step
<1> QED BY <1>4, <1>5

LEMMA WriteStep ==
  ASSUME Inv, NEW n, WriteTriviaQuiz(n)
  PROVE  Step
<1> DEFINE r == requests[n]
<1>0. PICK s : s = [r EXCEPT !.stage = "reply", !.quiz = quizzes[r.id]]
  OBVIOUS
<1>1. n \in DOMAIN requests /\ UNCHANGED table /\ (Refuse(n) \/ Proceed(n, s))
  BY <1>0, Zenon DEF WriteTriviaQuiz, At
<1>2. IsRequest(r) /\ (r.op = "generate" => r.count \in Counts)
  BY <1>1, InFlight DEF Sound
<1>3. IsRequest(s) /\ s.op = r.op /\ s.count = r.count /\ s.stage = "reply"
  <2>1. PICK P, O, I, N, A, S, Q : r \in Forms(P, O, I, N, A, S, Q)
    BY <1>2 DEF IsRequest
  <2>2. /\ s \in Forms(P, O, I, N, A, {"reply"}, {quizzes[r.id]})
        /\ s.op = r.op /\ s.count = r.count /\ s.stage = "reply"
    BY <1>0, <2>1 DEF Forms
  <2> QED BY <2>2, Zenon DEF IsRequest
<1> HIDE DEF r
<1>4. Sound(s)
  BY <1>2, <1>3, IdleIsSound
<1> QED BY <1>1, <1>4, InFlight, RequestStep

LEMMA EndStep ==
  ASSUME Inv, NEW n, Receive(n) \/ Fail(n)
  PROVE  Step
<1>1. n \in DOMAIN requests /\ UNCHANGED table /\ Refuse(n)
  BY Zenon DEF Receive, Fail, Refuse
<1> QED BY <1>1, InFlight, RequestStep

LEMMA GiveUpStep ==
  ASSUME Inv, NEW n, GiveUp(n)
  PROVE  Step
<1> DEFINE r == requests[n]
<1>0. PICK s : s = [r EXCEPT !.page = Nobody]
  OBVIOUS
<1>1. n \in DOMAIN requests /\ UNCHANGED table /\ Proceed(n, s)
  BY <1>0, Zenon DEF GiveUp
<1>2. Sound(r)
  BY <1>1, InFlight
<1>3. /\ IsRequest(s) /\ s.op = r.op /\ s.id = r.id /\ s.count = r.count
      /\ s.answers = r.answers /\ s.stage = r.stage /\ s.quiz = r.quiz
  <2>1. PICK P, O, I, N, A, S, Q : r \in Forms(P, O, I, N, A, S, Q)
    BY <1>2 DEF Sound, IsRequest
  <2>2. /\ s \in Forms({Nobody}, O, I, N, A, S, Q)
        /\ s.op = r.op /\ s.id = r.id /\ s.count = r.count
        /\ s.answers = r.answers /\ s.stage = r.stage /\ s.quiz = r.quiz
    BY <1>0, <2>1 DEF Forms
  <2> QED BY <2>2, Zenon DEF IsRequest
<1> HIDE DEF r
<1>4. Sound(s)
  BY <1>2, <1>3 DEF Sound, Making, Writing
<1> QED BY <1>1, <1>4, InFlight, RequestStep

-----------------------------------------------------------------------------
(* The theorems.                                                           *)

LEMMA EveryStep ==
  ASSUME Inv, Next
  PROVE  Step
<1>1. ASSUME NEW p, NEW i,
             Generate(p) \/ Leave(p) \/ Choose(p) \/ Retake(p) \/ Open(p, i) \/ Delete(p, i)
      PROVE  Step
  BY <1>1, PageStep
<1>2. ASSUME NEW n,
             \/ AskModel(n) \/ CreateTriviaQuiz(n) \/ SaveReads(n) \/ SaveWrites(n)
             \/ RetakeTriviaQuiz(n) \/ DeleteTriviaQuiz(n) \/ WriteTriviaQuiz(n)
             \/ Receive(n) \/ Fail(n) \/ GiveUp(n)
      PROVE  Step
  BY <1>2, AskModelStep, CreateStep, SaveReadsStep, SaveWritesStep, RetakeStep,
     DeleteStep, WriteStep, EndStep, GiveUpStep
<1> QED BY <1>1, <1>2, Zenon DEF Next

LEMMA Invariance == Spec => []Inv
<1>1. Init => Inv
  BY DEF Init, Inv, RowsOK, RequestsOK, SavesScored, RowsScored
<1>2. ASSUME Inv, [Next]_vars PROVE Inv'
  <2>1. CASE Next
    <3>1. Step
      BY <1>2, <2>1, EveryStep
    <3> QED BY <1>2, <3>1, RequestsKept DEF Inv, Step
  <2>2. CASE UNCHANGED vars
    <3>1. UNCHANGED <<quizzes, nextId, requests>>
      BY <2>2 DEF vars, table
    <3> QED BY <1>2, <3>1, Zenon DEF Inv, RowsOK, RequestsOK, SavesScored, RowsScored
  <2> QED BY <1>2, <2>1, <2>2
<1> QED BY <1>1, <1>2, PTL DEF Spec

\* A stored quiz's score and completion are always those of the answers stored
\* with it, however saves overlap with each other and with deletions
\* (SaveTriviaAnswers), for any number of pages, quizzes and requests.
THEOREM ScoresMatch == Spec => []ScoreMatchesAnswers
<1>1. Inv => ScoreMatchesAnswers
  BY Zenon DEF Inv, RowsScored, Scored, ScoreMatchesAnswers
<1> QED BY <1>1, Invariance, PTL

\* The option a stored quiz takes for correct is always the one the model marked
\* in that question, and its options are those of the model (sanitizeTrivia,
\* shuffleOptions, RetakeTriviaQuiz, SaveTriviaAnswers).
THEOREM RightAnswersAreKept == Spec => []RightAnswerKept
<1>1. Inv => RightAnswerKept
  BY Zenon DEF Inv, RowsOK, Made, Good, RightAnswerKept
<1> QED BY <1>1, Invariance, PTL

\* Nothing but a save of its own answers changes a stored quiz, and no save
\* changes its questions (RetakeTriviaQuiz, DeleteTriviaQuiz, CreateTriviaQuiz).
THEOREM HistoryIsKept == Spec => HistoryKept
<1>1. ASSUME Inv, Next PROVE RowsChange
  BY <1>1, EveryStep DEF Step
<1>2. Spec => [][RowsChange]_vars
  BY <1>1, Invariance, PTL DEF Spec
<1> QED BY <1>2, Zenon DEF HistoryKept, RowsChange

-----------------------------------------------------------------------------
(* What is stored follows what was chosen.  The pages know how many        *)
(* questions a quiz has, so the answers they choose are never refused; of  *)
(* a quiz answered where its last answers are shown, every save carries a  *)
(* part of these; and if no two saves of it were in flight at once and     *)
(* none failed, the one in flight carries all of them.                     *)

IsView(v) == \E A, T, W : v \in [at : A, total : T, answers : W]

\* Quiz id was inserted some time, and if it is still there it has so many
\* questions.
Knows(id, total) ==
  /\ id \in DOMAIN last /\ total # 0
  /\ id \in DOMAIN quizzes => total = Len(quizzes[id].questions)

ViewOK(v) ==
  /\ IsView(v)
  /\ (v.total = 0 /\ v.answers = << >>) \/ Knows(v.at, v.total)

ReplyOK(r) == r.stage = "reply" /\ r.op # "delete" => Knows(r.id, Len(r.quiz.questions))

PagesKnow ==
  /\ DOMAIN player = Pages /\ DOMAIN cache = Pages
  /\ \A p \in Pages :
       /\ ViewOK(player[p])
       /\ \A id \in DOMAIN cache[p] : Knows(id, Len(cache[p][id].questions))
  /\ \A n \in DOMAIN requests : ReplyOK(requests[n])

SavesKnown ==
  /\ DOMAIN quizzes \subseteq DOMAIN last
  /\ \A id \in DOMAIN last : id \in Nat /\ id < nextId
  /\ \A n \in DOMAIN requests : requests[n].op = "save" => requests[n].id \in DOMAIN last

IsSave(n, id) == n \in DOMAIN requests /\ requests[n].op = "save" /\ requests[n].id = id
Unwritten(r) == r.stage \in {"arrived", "write"}

Begins(s, t) ==
  /\ s \in Seq(Nat) /\ t \in Seq(Nat) /\ Len(s) <= Len(t)
  /\ \A i \in 1..Len(s) : s[i] = t[i]

Followed(id) ==
  /\ last[id] \in Seq(Nat)
  /\ id \in DOMAIN quizzes => /\ Acceptable(quizzes[id].questions, last[id])
                              /\ Begins(quizzes[id].answers, last[id])
  /\ \A n : IsSave(n, id) => Begins(requests[n].answers, last[id])

Settled(id) ==
  /\ \A n, m : IsSave(n, id) /\ IsSave(m, id) => n = m
  /\ \A n : IsSave(n, id) => requests[n].answers = last[id]
  /\ id \in DOMAIN quizzes /\ (\A n : IsSave(n, id) => ~Unwritten(requests[n]))
       => quizzes[id].answers = last[id]

Following ==
  /\ \A id \in DOMAIN last \ forked : Followed(id)
  /\ \A id \in DOMAIN last \ (forked \cup raced) : Settled(id)

FollowInv == Inv /\ SavesKnown /\ PagesKnow /\ Following

\* A step adds at most one quiz, the next, that nobody answered yet, and
\* changes the questions of none.
Grows ==
  /\ nextId' \in Nat /\ nextId <= nextId'
  /\ DOMAIN last \subseteq DOMAIN last' /\ DOMAIN quizzes' \subseteq DOMAIN last'
  /\ \A id \in DOMAIN last' \ DOMAIN last :
       /\ id = nextId /\ id < nextId' /\ last'[id] = << >>
       /\ id \in DOMAIN quizzes' => quizzes'[id].answers = << >>
  /\ \A id \in DOMAIN quizzes' \cap DOMAIN last :
       id \in DOMAIN quizzes /\ quizzes'[id].questions = quizzes[id].questions

\* ... and stores no answers, and none are chosen.
Keeps ==
  /\ \A id \in DOMAIN last : last'[id] = last[id]
  /\ \A id \in DOMAIN quizzes' \cap DOMAIN last : quizzes'[id].answers = quizzes[id].answers
  /\ forked' = forked /\ raced \subseteq raced'

\* Save n may end: nothing is claimed of its quiz, or it has been written.
Done(n) ==
  \/ requests[n].id \in forked \cup raced' \/ requests[n].id \notin DOMAIN quizzes
  \/ ~Unwritten(requests[n])

\* r goes on as s.
GoesOn(r, s) ==
  /\ s.op = r.op
  /\ r.op = "save" => /\ s.id = r.id /\ s.answers = r.answers
                      /\ Unwritten(s) <=> Unwritten(r)

\* No save is sent, and one that ends may.
SavesGoOn ==
  /\ \A n \in DOMAIN requests' : requests'[n].op = "save" =>
       n \in DOMAIN requests /\ GoesOn(requests[n], requests'[n])
  /\ \A n \in DOMAIN requests : requests[n].op = "save" =>
       \/ n \in DOMAIN requests' /\ GoesOn(requests[n], requests'[n])
       \/ Done(n)

RepliesKnow == \A n \in DOMAIN requests' : ReplyOK(requests'[n])

ClientKnows ==
  /\ DOMAIN player' = Pages /\ DOMAIN cache' = Pages
  /\ \A p \in Pages :
       /\ ViewOK(player'[p])
       /\ \A id \in DOMAIN cache'[p] : Knows(id, Len(cache'[p][id].questions))

\* What is known stays true as the table grows.
LEMMA PagesGoOn ==
  ASSUME FollowInv, Grows, RepliesKnow, ClientKnows
  PROVE  PagesKnow'
<1>1. ASSUME NEW id, NEW total, Knows(id, total)
      PROVE  /\ id \in DOMAIN last' /\ total # 0
             /\ id \in DOMAIN quizzes' => total = Len(quizzes'[id].questions)
  BY <1>1 DEF Knows, Grows
<1>2. ASSUME NEW p \in Pages
      PROVE  /\ IsView(player'[p])
             /\ \/ player'[p].total = 0 /\ player'[p].answers = << >>
                \/ /\ player'[p].at \in DOMAIN last' /\ player'[p].total # 0
                   /\ player'[p].at \in DOMAIN quizzes' =>
                        player'[p].total = Len(quizzes'[player'[p].at].questions)
  BY <1>1, <1>2 DEF ClientKnows, ViewOK
<1>3. ASSUME NEW p \in Pages, NEW id \in DOMAIN cache'[p]
      PROVE  LET total == Len(cache'[p][id].questions)
             IN /\ id \in DOMAIN last' /\ total # 0
                /\ id \in DOMAIN quizzes' => total = Len(quizzes'[id].questions)
  BY <1>1, <1>3 DEF ClientKnows
<1>4. ASSUME NEW n \in DOMAIN requests', requests'[n].stage = "reply", requests'[n].op # "delete"
      PROVE  LET id == requests'[n].id
                 total == Len(requests'[n].quiz.questions)
             IN /\ id \in DOMAIN last' /\ total # 0
                /\ id \in DOMAIN quizzes' => total = Len(quizzes'[id].questions)
  BY <1>1, <1>4 DEF RepliesKnow, ReplyOK
<1>5. DOMAIN player' = Pages /\ DOMAIN cache' = Pages
  BY DEF ClientKnows
<1> QED BY <1>2, <1>3, <1>4, <1>5, Zenon DEF PagesKnow, ViewOK, ReplyOK, Knows, IsView

\* A step that answers nothing, stores no answers and ends no save too early.
LEMMA QuietStep ==
  ASSUME FollowInv, Inv', Grows, Keeps, SavesGoOn
  PROVE  SavesKnown' /\ Following'
<1>1. SavesKnown'
  <2>1. \A id \in DOMAIN last' : id \in Nat /\ id < nextId'
    BY DEF FollowInv, Inv, RowsOK, SavesKnown, Grows
  <2>2. ASSUME NEW n \in DOMAIN requests', requests'[n].op = "save"
        PROVE  requests'[n].id \in DOMAIN last'
    <3>1. /\ n \in DOMAIN requests /\ requests[n].op = "save"
          /\ requests'[n].id = requests[n].id
      BY <2>2 DEF SavesGoOn, GoesOn
    <3> QED BY <3>1 DEF FollowInv, SavesKnown, Grows
  <2> QED BY <2>1, <2>2 DEF SavesKnown, Grows
<1>2. ASSUME NEW n, NEW id, IsSave(n, id)'
      PROVE  /\ IsSave(n, id) /\ requests'[n].answers = requests[n].answers
             /\ Unwritten(requests'[n]) <=> Unwritten(requests[n])
             /\ id \in DOMAIN last
  <2>1. n \in DOMAIN requests' /\ requests'[n].op = "save" /\ requests'[n].id = id
    BY <1>2 DEF IsSave
  <2>2. n \in DOMAIN requests /\ GoesOn(requests[n], requests'[n])
    BY <2>1 DEF SavesGoOn
  <2> QED BY <2>1, <2>2 DEF GoesOn, IsSave, FollowInv, SavesKnown
<1>3. ASSUME NEW id \in DOMAIN last', id \notin forked', id \notin DOMAIN last
      PROVE  Followed(id)' /\ Settled(id)'
  <2>1. last'[id] = << >> /\ (id \in DOMAIN quizzes' => quizzes'[id].answers = << >>)
    BY <1>3 DEF Grows
  <2>2. \A n : ~IsSave(n, id)'
    BY <1>2, <1>3
  <2>3. << >> \in Seq(Nat) /\ Begins(<< >>, << >>)
    BY DEF Begins
  <2>4. ASSUME id \in DOMAIN quizzes' PROVE Acceptable(quizzes'[id].questions, << >>)
    <3>1. Len(quizzes'[id].questions) \in Nat
      BY <2>4 DEF Inv, RowsOK, Made
    <3> QED BY <3>1 DEF Acceptable
  <2> QED BY <2>1, <2>2, <2>3, <2>4 DEF Followed, Settled
<1>4. ASSUME NEW id \in DOMAIN last, id \notin forked'
      PROVE  Followed(id)'
  <2>1. Followed(id)
    BY <1>4 DEF FollowInv, Following, Keeps
  <2>2. last'[id] = last[id]
    BY DEF Keeps
  <2>3. id \in DOMAIN quizzes' =>
          /\ id \in DOMAIN quizzes /\ quizzes'[id].answers = quizzes[id].answers
          /\ quizzes'[id].questions = quizzes[id].questions
    BY DEF Keeps, Grows
  <2>4. id \in DOMAIN quizzes' => /\ Acceptable(quizzes'[id].questions, last'[id])
                                  /\ Begins(quizzes'[id].answers, last'[id])
    BY <2>1, <2>2, <2>3, Zenon DEF Followed
  <2>5. \A n : IsSave(n, id)' => Begins(requests'[n].answers, last'[id])
    BY <1>2, <2>1, <2>2, Zenon DEF Followed
  <2>6. last'[id] \in Seq(Nat)
    BY <2>1, <2>2 DEF Followed
  <2> QED BY <2>4, <2>5, <2>6 DEF Followed
<1>5. ASSUME NEW id \in DOMAIN last, id \notin forked' \cup raced'
      PROVE  Settled(id)'
  <2>1. Settled(id) /\ last'[id] = last[id]
    BY <1>5 DEF FollowInv, Following, Keeps
  <2>2. \A n, m : IsSave(n, id)' /\ IsSave(m, id)' => n = m
    BY <1>2, <2>1, Zenon DEF Settled
  <2>3. \A n : IsSave(n, id)' => requests'[n].answers = last'[id]
    BY <1>2, <2>1, Zenon DEF Settled
  <2>4. ASSUME id \in DOMAIN quizzes', \A n : IsSave(n, id)' => ~Unwritten(requests'[n])
        PROVE  quizzes'[id].answers = last'[id]
    <3>1. id \in DOMAIN quizzes /\ quizzes'[id].answers = quizzes[id].answers
      BY <2>4 DEF Keeps, Grows
    <3>2. ASSUME NEW n, IsSave(n, id) PROVE ~Unwritten(requests[n])
      <4>1. n \in DOMAIN requests /\ requests[n].op = "save" /\ requests[n].id = id
        BY <3>2 DEF IsSave
      <4>2. CASE n \in DOMAIN requests' /\ GoesOn(requests[n], requests'[n])
        <5>1. IsSave(n, id)' /\ (Unwritten(requests'[n]) <=> Unwritten(requests[n]))
          BY <4>1, <4>2 DEF GoesOn, IsSave
        <5> QED BY <2>4, <5>1
      <4>3. CASE Done(n)
        BY <1>5, <3>1, <4>1, <4>3 DEF Done, Keeps
      <4> QED BY <4>1, <4>2, <4>3 DEF SavesGoOn
    <3> QED BY <2>1, <3>1, <3>2 DEF Settled
  <2> QED BY <2>2, <2>3, <2>4 DEF Settled
<1> QED BY <1>1, <1>3, <1>4, <1>5 DEF Following

\* What a step does to the requests: one goes on, one ends, or one that saves
\* nothing is sent.
LEMMA OneGoesOn ==
  ASSUME FollowInv, NEW n \in DOMAIN requests, NEW r, Proceed(n, r),
         GoesOn(requests[n], r), ReplyOK(r)
  PROVE  SavesGoOn /\ RepliesKnow
<1>1. /\ DOMAIN requests' = DOMAIN requests
      /\ \A m \in DOMAIN requests : requests'[m] = IF m = n THEN r ELSE requests[m]
  BY DEF Proceed
<1>2. \A m \in DOMAIN requests : GoesOn(requests[m], requests'[m])
  BY <1>1 DEF GoesOn
<1>3. SavesGoOn
  BY <1>1, <1>2 DEF SavesGoOn, GoesOn
<1>4. RepliesKnow
  BY <1>1 DEF RepliesKnow, FollowInv, PagesKnow
<1> QED BY <1>3, <1>4

LEMMA OneEnds ==
  ASSUME FollowInv, NEW n \in DOMAIN requests, Refuse(n),
         requests[n].op = "save" => Done(n)
  PROVE  SavesGoOn /\ RepliesKnow
<1>1. /\ DOMAIN requests' = DOMAIN requests \ {n}
      /\ \A m \in DOMAIN requests' : requests'[m] = requests[m]
  BY DEF Refuse, Drop
<1>2. \A m \in DOMAIN requests' : GoesOn(requests[m], requests'[m])
  BY <1>1 DEF GoesOn
<1>3. SavesGoOn
  BY <1>1, <1>2 DEF SavesGoOn
<1>4. RepliesKnow
  BY <1>1 DEF RepliesKnow, FollowInv, PagesKnow
<1> QED BY <1>3, <1>4

LEMMA OneIsSent ==
  ASSUME FollowInv, NEW r, Send(r)
  PROVE  \E n : /\ n \notin DOMAIN requests
                /\ DOMAIN requests' = DOMAIN requests \cup {n}
                /\ \A m \in DOMAIN requests' : requests'[m] = IF m = n THEN r ELSE requests[m]
<1> DEFINE n == CHOOSE m \in Free : TRUE
<1>1. n \in Free /\ requests' = Put(requests, n, r)
  BY Zenon DEF Send
<1>2. n \notin DOMAIN requests
  BY <1>1 DEF Free
<1> HIDE DEF n
<1> QED BY <1>1, <1>2 DEF Put

LEMMA NoSaveIsSent ==
  ASSUME FollowInv, NEW r, Send(r), r.op # "save", r.stage = "arrived"
  PROVE  SavesGoOn /\ RepliesKnow
<1>1. PICK n : /\ n \notin DOMAIN requests
               /\ DOMAIN requests' = DOMAIN requests \cup {n}
               /\ \A m \in DOMAIN requests' :
                    requests'[m] = IF m = n THEN r ELSE requests[m]
  BY OneIsSent
<1>2. \A m \in DOMAIN requests' : requests'[m].op = "save" =>
        m \in DOMAIN requests /\ GoesOn(requests[m], requests'[m])
  BY <1>1 DEF GoesOn
<1>3. \A m \in DOMAIN requests : m \in DOMAIN requests' /\ GoesOn(requests[m], requests'[m])
  BY <1>1 DEF GoesOn
<1>4. RepliesKnow
  BY <1>1 DEF RepliesKnow, ReplyOK, FollowInv, PagesKnow
<1> QED BY <1>2, <1>3, <1>4 DEF SavesGoOn

LEMMA RequestsSame ==
  ASSUME FollowInv, UNCHANGED requests
  PROVE  SavesGoOn /\ RepliesKnow
BY DEF SavesGoOn, GoesOn, RepliesKnow, FollowInv, PagesKnow

\* What a step does not touch.
LEMMA TableSame ==
  ASSUME FollowInv, UNCHANGED <<quizzes, nextId, last>>
  PROVE  Grows /\ (forked' = forked /\ raced \subseteq raced' => Keeps)
BY DEF Grows, Keeps, FollowInv, Inv, RowsOK, SavesKnown

LEMMA ClientSame ==
  ASSUME FollowInv, UNCHANGED <<cache, player>>
  PROVE  ClientKnows
BY DEF ClientKnows, FollowInv, PagesKnow

\* What a page shows of a quiz it knows.
LEMMA PlayingKnows ==
  ASSUME NEW id, NEW quiz, Knows(id, Len(quiz.questions))
  PROVE  ViewOK(Playing(id, quiz))
<1> DEFINE v == Playing(id, quiz)
<1>1. /\ v \in [at : {id}, total : {Len(quiz.questions)}, answers : {quiz.answers}]
      /\ v.at = id /\ v.total = Len(quiz.questions)
  BY DEF Playing
<1> HIDE DEF v
<1>2. IsView(v)
  BY <1>1, Zenon DEF IsView
<1>3. Knows(v.at, v.total)
  BY <1>1
<1>4. ViewOK(v)
  BY <1>2, <1>3 DEF ViewOK
<1> QED BY <1>4 DEF v

LEMMA AwayKnows == ViewOK(Away) /\ IsView(Away)
<1>1. /\ Away \in [at : {0}, total : {0}, answers : {<< >>}]
      /\ Away.total = 0 /\ Away.answers = << >>
  BY DEF Away
<1>2. IsView(Away)
  BY <1>1, Zenon DEF IsView
<1> QED BY <1>1, <1>2 DEF ViewOK

\* Page p shows v; the other pages, and what is cached, stay as they are.
LEMMA OneViewChanges ==
  ASSUME FollowInv, NEW p \in Pages, NEW v, ViewOK(v),
         player' = [player EXCEPT ![p] = v], cache' = cache
  PROVE  ClientKnows
<1>1. /\ DOMAIN player' = Pages
      /\ \A q \in Pages : player'[q] = IF q = p THEN v ELSE player[q]
  BY DEF FollowInv, PagesKnow
<1> QED BY <1>1 DEF ClientKnows, FollowInv, PagesKnow

-----------------------------------------------------------------------------
(* The steps that neither choose nor store an answer.                      *)

Quiet == Grows /\ Keeps /\ SavesGoOn /\ RepliesKnow /\ ClientKnows

LEMMA QuietPage ==
  ASSUME FollowInv, NEW p \in Pages, NEW i,
         Generate(p) \/ Leave(p) \/ Retake(p) \/ Open(p, i) \/ Delete(p, i)
  PROVE  Quiet
<1>1. Grows /\ Keeps
  <2>1. UNCHANGED <<quizzes, nextId, last, forked, raced>>
    BY DEF Generate, Leave, Retake, Open, Delete, table, history
  <2> QED BY <2>1, TableSame
<1>2. CASE Generate(p)
  <2>1. PICK count \in Counts :
          Send([Blank EXCEPT !.page = p, !.op = "generate", !.count = count])
    BY <1>2, Zenon DEF Generate
  <2>2. PICK r : r = [Blank EXCEPT !.page = p, !.op = "generate", !.count = count]
    OBVIOUS
  <2>3. r.op = "generate" /\ r.stage = "arrived"
    BY <2>2 DEF Blank
  <2>4. Send(r)
    BY <2>1, <2>2, Zenon
  <2>5. SavesGoOn /\ RepliesKnow
    BY <2>3, <2>4, NoSaveIsSent
  <2>6. ClientKnows
    BY <1>2, ClientSame DEF Generate, client
  <2> QED BY <1>1, <2>5, <2>6 DEF Quiet
<1>3. CASE Leave(p)
  <2>1. ClientKnows
    BY <1>3, AwayKnows, OneViewChanges DEF Leave
  <2>2. SavesGoOn /\ RepliesKnow
    BY <1>3, RequestsSame DEF Leave
  <2> QED BY <1>1, <2>1, <2>2 DEF Quiet
<1>4. CASE Retake(p)
  <2>1. PICK r : r = [Blank EXCEPT !.page = p, !.op = "retake", !.id = player[p].at]
    OBVIOUS
  <2>2. Send(r)
    BY <1>4, <2>1, Zenon DEF Retake
  <2>3. r.op = "retake" /\ r.stage = "arrived"
    BY <2>1 DEF Blank
  <2>4. SavesGoOn /\ RepliesKnow
    BY <2>2, <2>3, NoSaveIsSent
  <2>5. ClientKnows
    BY <1>4, ClientSame DEF Retake, client
  <2> QED BY <1>1, <2>4, <2>5 DEF Quiet
<1>5. CASE Delete(p, i)
  <2>1. PICK r : r = [Blank EXCEPT !.page = p, !.op = "delete", !.id = i]
    OBVIOUS
  <2>2. Send(r)
    BY <1>5, <2>1, Zenon DEF Delete
  <2>3. r.op = "delete" /\ r.stage = "arrived"
    BY <2>1 DEF Blank
  <2>4. SavesGoOn /\ RepliesKnow
    BY <2>2, <2>3, NoSaveIsSent
  <2>5. ClientKnows
    BY <1>5, ClientSame DEF Delete, client
  <2> QED BY <1>1, <2>4, <2>5 DEF Quiet
<1>6. CASE Open(p, i)
  <2>1. PICK r : r = [Blank EXCEPT !.page = p, !.id = i]
    OBVIOUS
  <2>2. r.op = "get" /\ r.stage = "arrived"
    BY <2>1 DEF Blank
  <2>3. UNCHANGED requests \/ Send(r)
    BY <1>6, <2>1, Zenon DEF Open
  <2>4. SavesGoOn /\ RepliesKnow
    BY <2>2, <2>3, NoSaveIsSent, RequestsSame
  <2>5. cache' = cache
    BY <1>6 DEF Open
  <2>6. CASE i \in DOMAIN cache[p]
    <3>1. Knows(i, Len(cache[p][i].questions))
      BY <2>6 DEF FollowInv, PagesKnow
    <3>2. player' = [player EXCEPT ![p] = Playing(i, cache[p][i])]
      BY <1>6, <2>6, Zenon DEF Open
    <3>3. ClientKnows
      BY <2>5, <3>1, <3>2, PlayingKnows, OneViewChanges
    <3> QED BY <1>1, <2>4, <3>3 DEF Quiet
  <2>7. CASE i \notin DOMAIN cache[p]
    <3>1. PICK v : v = [Away EXCEPT !.at = i]
      OBVIOUS
    <3>2. /\ v \in [at : {i}, total : {0}, answers : {<< >>}]
          /\ v.total = 0 /\ v.answers = << >>
      BY <3>1 DEF Away
    <3>3. ViewOK(v)
      <4>1. IsView(v)
        BY <3>2, Zenon DEF IsView
      <4> QED BY <3>2, <4>1 DEF ViewOK
    <3>4. player' = [player EXCEPT ![p].at = i] /\ player[p] = Away
      BY <1>6, <2>7, Zenon DEF Open
    <3>5. player' = [player EXCEPT ![p] = v]
      BY <3>1, <3>4, Zenon
    <3>6. ClientKnows
      BY <2>5, <3>3, <3>5, OneViewChanges
    <3> QED BY <1>1, <2>4, <3>6 DEF Quiet
  <2> QED BY <2>6, <2>7
<1> QED BY <1>2, <1>3, <1>4, <1>5, <1>6

\* A quiz is inserted: nobody answered it yet.
LEMMA InsertGrows ==
  ASSUME FollowInv, NEW questions, Insert(questions), forked' = forked, raced' = raced
  PROVE  Grows /\ Keeps
<1>1. /\ DOMAIN quizzes' = DOMAIN quizzes \cup {nextId}
      /\ \A id \in DOMAIN quizzes' :
           quizzes'[id] = IF id = nextId THEN Fresh(questions) ELSE quizzes[id]
  BY DEF Insert, Put
<1>2. /\ DOMAIN last' = DOMAIN last \cup {nextId}
      /\ \A id \in DOMAIN last' : last'[id] = IF id = nextId THEN << >> ELSE last[id]
  BY DEF Insert, Put
<1>3. nextId \in Nat /\ nextId' = nextId + 1 /\ nextId \notin DOMAIN last
      /\ DOMAIN quizzes \subseteq DOMAIN last
  BY DEF Insert, FollowInv, Inv, RowsOK, SavesKnown
<1>4. Fresh(questions).answers = << >>
  BY DEF Fresh
<1> QED BY <1>1, <1>2, <1>3, <1>4 DEF Grows, Keeps

LEMMA QuietAsk ==
  ASSUME FollowInv, NEW n, AskModel(n)
  PROVE  Quiet
<1> DEFINE r == requests[n]
<1>1. n \in DOMAIN requests /\ r.op = "generate"
  BY DEF AskModel, At
<1>2. Grows /\ Keeps /\ ClientKnows
  BY TableSame, ClientSame DEF AskModel, table, history, client
<1>3. PICK q : Refuse(n) \/ Proceed(n, [r EXCEPT !.stage = "insert", !.quiz = q])
  BY Zenon DEF AskModel
<1>4. PICK s : s = [r EXCEPT !.stage = "insert", !.quiz = q]
  OBVIOUS
<1>5. IsRequest(r)
  BY <1>1, InFlight DEF FollowInv, Sound
<1>6. Refuse(n) \/ Proceed(n, s)
  BY <1>3, <1>4, Zenon
<1> HIDE DEF r
<1>7. s.op = r.op /\ s.stage = "insert"
  <2>1. PICK P, O, I, N, A, S, Q : r \in Forms(P, O, I, N, A, S, Q)
    BY <1>5 DEF IsRequest
  <2> QED BY <1>4, <2>1 DEF Forms
<1>8. GoesOn(r, s) /\ ReplyOK(s)
  BY <1>1, <1>7 DEF GoesOn, ReplyOK
<1>9. SavesGoOn /\ RepliesKnow
  BY <1>1, <1>6, <1>8, OneGoesOn, OneEnds DEF r
<1> QED BY <1>2, <1>9 DEF Quiet

LEMMA QuietInsert ==
  ASSUME FollowInv, NEW n, CreateTriviaQuiz(n) \/ RetakeTriviaQuiz(n)
  PROVE  Quiet
<1> DEFINE r == requests[n]
<1>1. /\ n \in DOMAIN requests /\ r.op # "save"
      /\ forked' = forked /\ raced' = raced /\ UNCHANGED client
  BY Zenon DEF CreateTriviaQuiz, RetakeTriviaQuiz, At
<1>2. ClientKnows
  BY <1>1, ClientSame DEF client
<1>3. IsRequest(r)
  BY <1>1, InFlight DEF FollowInv, Sound
<1>4. ASSUME NEW s, Proceed(n, s), s.op = r.op, s.stage = "answer"
      PROVE  SavesGoOn /\ RepliesKnow
  <2>1. GoesOn(r, s) /\ ReplyOK(s)
    BY <1>1, <1>4 DEF GoesOn, ReplyOK
  <2> QED BY <1>1, <1>4, <2>1, OneGoesOn
<1>5. CASE CreateTriviaQuiz(n)
  <2>1. PICK s : s = [r EXCEPT !.stage = "answer", !.id = nextId, !.quiz = << >>]
    OBVIOUS
  <2>2. Insert(r.quiz) /\ Proceed(n, s)
    BY <1>5, <2>1, Zenon DEF CreateTriviaQuiz
  <2> HIDE DEF r
  <2>3. s.op = r.op /\ s.stage = "answer"
    <3>1. PICK P, O, I, N, A, S, Q : r \in Forms(P, O, I, N, A, S, Q)
      BY <1>3 DEF IsRequest
    <3> QED BY <2>1, <3>1 DEF Forms
  <2>4. SavesGoOn /\ RepliesKnow
    BY <1>4, <2>2, <2>3
  <2>5. Grows /\ Keeps
    BY <1>1, <2>2, InsertGrows
  <2> QED BY <1>2, <2>4, <2>5 DEF Quiet
<1>6. CASE RetakeTriviaQuiz(n) /\ r.id \in DOMAIN quizzes
  <2>1. PICK s : s = [r EXCEPT !.stage = "answer", !.count = r.id, !.id = nextId]
    OBVIOUS
  <2>2. Insert(quizzes[r.id].questions) /\ Proceed(n, s)
    BY <1>6, <2>1, Zenon DEF RetakeTriviaQuiz
  <2> HIDE DEF r
  <2>3. s.op = r.op /\ s.stage = "answer"
    <3>1. PICK P, O, I, N, A, S, Q : r \in Forms(P, O, I, N, A, S, Q)
      BY <1>3 DEF IsRequest
    <3> QED BY <2>1, <3>1 DEF Forms
  <2>4. SavesGoOn /\ RepliesKnow
    BY <1>4, <2>2, <2>3
  <2>5. Grows /\ Keeps
    BY <1>1, <2>2, InsertGrows
  <2> QED BY <1>2, <2>4, <2>5 DEF Quiet
<1>7. CASE RetakeTriviaQuiz(n) /\ r.id \notin DOMAIN quizzes
  <2>1. Refuse(n) /\ UNCHANGED <<quizzes, nextId, last>>
    BY <1>7 DEF RetakeTriviaQuiz, table
  <2>2. SavesGoOn /\ RepliesKnow
    BY <1>1, <2>1, OneEnds
  <2>3. Grows /\ Keeps
    BY <1>1, <2>1, TableSame
  <2> QED BY <1>2, <2>2, <2>3 DEF Quiet
<1> QED BY <1>5, <1>6, <1>7

LEMMA QuietDelete ==
  ASSUME FollowInv, NEW n, DeleteTriviaQuiz(n)
  PROVE  Quiet
<1> DEFINE r == requests[n]
<1>1. /\ n \in DOMAIN requests /\ r.op = "delete"
      /\ UNCHANGED <<nextId, last, forked, raced>>
  BY DEF DeleteTriviaQuiz, At, history
<1>2. ClientKnows
  BY ClientSame DEF DeleteTriviaQuiz, client
<1>3. PICK s : s = [r EXCEPT !.stage = "reply"]
  OBVIOUS
<1>4. \/ quizzes' = Drop(quizzes, r.id) /\ Proceed(n, s)
      \/ quizzes' = quizzes /\ Refuse(n)
  BY <1>3, Zenon DEF DeleteTriviaQuiz
<1>5. /\ DOMAIN quizzes' \subseteq DOMAIN quizzes
      /\ \A id \in DOMAIN quizzes' : quizzes'[id] = quizzes[id]
  BY <1>4 DEF Drop
<1>6. Grows /\ Keeps
  BY <1>1, <1>5 DEF Grows, Keeps, FollowInv, Inv, RowsOK, SavesKnown
<1>7. IsRequest(r)
  BY <1>1, InFlight DEF FollowInv, Sound
<1> HIDE DEF r
<1>8. s.op = r.op
  <2>1. PICK P, O, I, N, A, S, Q : r \in Forms(P, O, I, N, A, S, Q)
    BY <1>7 DEF IsRequest
  <2> QED BY <1>3, <2>1 DEF Forms
<1>9. GoesOn(r, s) /\ ReplyOK(s)
  BY <1>1, <1>8 DEF GoesOn, ReplyOK
<1>10. SavesGoOn /\ RepliesKnow
  BY <1>1, <1>4, <1>9, OneGoesOn, OneEnds DEF r
<1> QED BY <1>2, <1>6, <1>10 DEF Quiet

LEMMA QuietWrite ==
  ASSUME FollowInv, NEW n, WriteTriviaQuiz(n)
  PROVE  Quiet
<1> DEFINE r == requests[n]
<1>1. n \in DOMAIN requests /\ (r.stage = "answer" \/ r.op = "get")
  BY DEF WriteTriviaQuiz, At
<1>2. Grows /\ Keeps /\ ClientKnows
  BY TableSame, ClientSame DEF WriteTriviaQuiz, table, history, client
<1>3. PICK s : s = [r EXCEPT !.stage = "reply", !.quiz = quizzes[r.id]]
  OBVIOUS
<1>4. \/ r.id \in DOMAIN quizzes /\ Proceed(n, s)
      \/ r.id \notin DOMAIN quizzes /\ Refuse(n)
  BY <1>3, Zenon DEF WriteTriviaQuiz
<1>5. IsRequest(r)
  BY <1>1, InFlight DEF FollowInv, Sound
<1>6. r.op = "save" => ~Unwritten(r)
  BY <1>1 DEF Unwritten
<1>7. CASE r.id \in DOMAIN quizzes /\ Proceed(n, s)
  <2> HIDE DEF r
  <2>1. /\ s.op = r.op /\ s.id = r.id /\ s.answers = r.answers
        /\ s.stage = "reply" /\ s.quiz = quizzes[r.id]
    <3>1. PICK P, O, I, N, A, S, Q : r \in Forms(P, O, I, N, A, S, Q)
      BY <1>5 DEF IsRequest
    <3> QED BY <1>3, <3>1 DEF Forms
  <2>2. Knows(r.id, Len(quizzes[r.id].questions))
    BY <1>7 DEF Knows, FollowInv, Inv, RowsOK, Made, SavesKnown
  <2>3. GoesOn(r, s) /\ ReplyOK(s)
    BY <1>6, <2>1, <2>2 DEF GoesOn, ReplyOK, Unwritten
  <2>4. SavesGoOn /\ RepliesKnow
    BY <1>1, <1>7, <2>3, OneGoesOn DEF r
  <2> QED BY <1>2, <2>4 DEF Quiet
<1>8. CASE r.id \notin DOMAIN quizzes /\ Refuse(n)
  <2>1. Done(n)
    BY <1>8 DEF Done
  <2> QED BY <1>1, <1>2, <1>8, <2>1, OneEnds DEF Quiet
<1> QED BY <1>4, <1>7, <1>8

LEMMA QuietReceive ==
  ASSUME FollowInv, NEW n, Receive(n)
  PROVE  Quiet
<1> DEFINE r == requests[n]
<1>1. n \in DOMAIN requests /\ r.stage = "reply" /\ Refuse(n)
  BY Zenon DEF Receive, Refuse
<1>2. Grows /\ Keeps
  BY TableSame DEF Receive, table, history
<1>3. SavesGoOn /\ RepliesKnow
  BY <1>1, OneEnds DEF Done, Unwritten
<1>4. ClientKnows
  <2>1. CASE UNCHANGED client
    BY <2>1, ClientSame DEF client
  <2>2. CASE r.op = "delete" /\ cache' = [cache EXCEPT ![r.page] = Drop(@, r.id)]
             /\ player' = player
    <3>1. DOMAIN cache' = Pages
      BY <2>2 DEF FollowInv, PagesKnow
    <3>2. \A p \in Pages : cache'[p] = IF p = r.page THEN Drop(cache[p], r.id) ELSE cache[p]
      BY <2>2 DEF FollowInv, PagesKnow
    <3>3. \A p \in Pages : /\ DOMAIN cache'[p] \subseteq DOMAIN cache[p]
                           /\ \A id \in DOMAIN cache'[p] : cache'[p][id] = cache[p][id]
      BY <3>2 DEF Drop
    <3> QED BY <2>2, <3>1, <3>3 DEF ClientKnows, FollowInv, PagesKnow
  <2>3. CASE r.op # "delete" /\ cache' = [cache EXCEPT ![r.page] = Put(@, r.id, r.quiz)]
             /\ player' = [player EXCEPT ![r.page] = Shown(r)]
    <3>1. Knows(r.id, Len(r.quiz.questions))
      BY <1>1, <2>3 DEF FollowInv, PagesKnow, ReplyOK
    <3>2. /\ DOMAIN cache' = Pages /\ DOMAIN player' = Pages
          /\ \A p \in Pages :
               /\ cache'[p] = IF p = r.page THEN Put(cache[p], r.id, r.quiz) ELSE cache[p]
               /\ player'[p] = IF p = r.page THEN Shown(r) ELSE player[p]
      BY <2>3 DEF FollowInv, PagesKnow
    <3>3. ASSUME NEW p \in Pages PROVE ViewOK(player'[p])
      <4>1. player'[p] = player[p] \/ player'[p] = Playing(r.id, r.quiz)
        BY <3>2 DEF Shown
      <4>2. ViewOK(Playing(r.id, r.quiz))
        BY <3>1, PlayingKnows
      <4>3. ViewOK(player[p])
        BY DEF FollowInv, PagesKnow
      <4> QED BY <4>1, <4>2, <4>3
    <3>4. ASSUME NEW p \in Pages, NEW id \in DOMAIN cache'[p]
          PROVE  Knows(id, Len(cache'[p][id].questions))
      <4>1. \/ id = r.id /\ cache'[p][id] = r.quiz
            \/ id \in DOMAIN cache[p] /\ cache'[p][id] = cache[p][id]
        <5>1. CASE p = r.page
          <6>1. cache'[p] = Put(cache[p], r.id, r.quiz)
            BY <3>2, <5>1
          <6> HIDE DEF r
          <6> QED BY <3>4, <6>1 DEF Put
        <5>2. CASE p # r.page
          BY <3>2, <3>4, <5>2
        <5> QED BY <5>1, <5>2
      <4> QED BY <3>1, <4>1 DEF FollowInv, PagesKnow
    <3> QED BY <3>2, <3>3, <3>4 DEF ClientKnows
  <2> QED BY <2>1, <2>2, <2>3, Zenon DEF Receive
<1> QED BY <1>2, <1>3, <1>4 DEF Quiet

LEMMA QuietFail ==
  ASSUME FollowInv, NEW n, Fail(n) \/ GiveUp(n)
  PROVE  Quiet
<1> DEFINE r == requests[n]
<1>1. /\ n \in DOMAIN requests /\ raced' = Hurt(r)
      /\ UNCHANGED <<quizzes, nextId, last, forked, cache, player>>
  BY DEF Fail, GiveUp, table, client
<1>2. raced \subseteq raced' /\ (r.op = "save" => r.id \in raced')
  BY <1>1 DEF Hurt
<1>3. Grows /\ Keeps /\ ClientKnows
  BY <1>1, <1>2, TableSame, ClientSame
<1>4. CASE Fail(n)
  <2>1. SavesGoOn /\ RepliesKnow
    BY <1>1, <1>2, <1>4, OneEnds DEF Fail, Done
  <2> QED BY <1>3, <2>1 DEF Quiet
<1>5. CASE GiveUp(n)
  <2>1. PICK s : s = [r EXCEPT !.page = Nobody]
    OBVIOUS
  <2>2. Proceed(n, s)
    BY <1>5, <2>1, Zenon DEF GiveUp
  <2>3. IsRequest(r) /\ ReplyOK(r)
    BY <1>1, InFlight DEF FollowInv, PagesKnow, Sound
  <2> HIDE DEF r
  <2>4. /\ s.op = r.op /\ s.id = r.id /\ s.answers = r.answers /\ s.stage = r.stage
        /\ s.quiz = r.quiz
    <3>1. PICK P, O, I, N, A, S, Q : r \in Forms(P, O, I, N, A, S, Q)
      BY <2>3 DEF IsRequest
    <3> QED BY <2>1, <3>1 DEF Forms
  <2>5. GoesOn(r, s) /\ ReplyOK(s)
    BY <2>3, <2>4 DEF GoesOn, ReplyOK, Unwritten
  <2>6. SavesGoOn /\ RepliesKnow
    BY <1>1, <2>2, <2>5, OneGoesOn DEF r
  <2> QED BY <1>3, <2>6 DEF Quiet
<1> QED BY <1>4, <1>5

\* A save is refused only if the quiz is gone, or something is not claimed of
\* it: the page that chose its answers knew how many questions there are.
LEMMA QuietRead ==
  ASSUME FollowInv, NEW n, SaveReads(n)
  PROVE  Quiet
<1> DEFINE r == requests[n]
<1>1. n \in DOMAIN requests /\ r.op = "save" /\ r.stage = "arrived"
  BY DEF SaveReads, At
<1>2. Grows /\ Keeps /\ ClientKnows
  BY TableSame, ClientSame DEF SaveReads, table, history, client
<1>3. CASE r.id \in DOMAIN quizzes /\ Acceptable(quizzes[r.id].questions, r.answers)
  <2>1. PICK s : s = [r EXCEPT !.stage = "write", !.quiz = Answered(quizzes[r.id], r.answers)]
    OBVIOUS
  <2>2. Proceed(n, s)
    BY <1>3, <2>1, Zenon DEF SaveReads
  <2>3. IsRequest(r)
    BY <1>1, InFlight DEF FollowInv, Sound
  <2> HIDE DEF r
  <2>4. s.op = r.op /\ s.id = r.id /\ s.answers = r.answers /\ s.stage = "write"
    <3>1. PICK P, O, I, N, A, S, Q : r \in Forms(P, O, I, N, A, S, Q)
      BY <2>3 DEF IsRequest
    <3> QED BY <2>1, <3>1 DEF Forms
  <2>5. GoesOn(r, s) /\ ReplyOK(s)
    BY <1>1, <2>4 DEF GoesOn, ReplyOK, Unwritten
  <2>6. SavesGoOn /\ RepliesKnow
    BY <1>1, <2>2, <2>5, OneGoesOn DEF r
  <2> QED BY <1>2, <2>6 DEF Quiet
<1>4. CASE ~(r.id \in DOMAIN quizzes /\ Acceptable(quizzes[r.id].questions, r.answers))
  <2>1. Refuse(n)
    BY <1>4, Zenon DEF SaveReads
  <2>2. r.id \in DOMAIN last /\ IsSave(n, r.id)
    BY <1>1 DEF FollowInv, SavesKnown, IsSave
  <2>3. r.id \notin forked \cup raced => r.id \notin DOMAIN quizzes
    BY <1>4, <2>2 DEF FollowInv, Following, Followed, Settled
  <2>4. Done(n)
    BY <1>2, <2>3 DEF Done, Keeps
  <2> QED BY <1>1, <1>2, <2>1, <2>4, OneEnds DEF Quiet
<1> QED BY <1>3, <1>4

-----------------------------------------------------------------------------
(* The steps that store an answer, and choose one.                         *)

\* The save of a quiz nobody else saves stores all that was chosen; any other
\* stores a part of it.
LEMMA SaveFollows ==
  ASSUME FollowInv, Inv', NEW n, SaveWrites(n)
  PROVE  SavesKnown' /\ PagesKnow' /\ Following'
<1> DEFINE r == requests[n]
<1>1. /\ n \in DOMAIN requests /\ r.op = "save" /\ r.stage = "write"
      /\ UNCHANGED <<nextId, cache, player, last, forked, raced>>
  BY DEF SaveWrites, At, client, history
<1>2. PICK s : s = [r EXCEPT !.stage = "answer", !.quiz = << >>]
  OBVIOUS
<1>3. Proceed(n, s)
  BY <1>2, Zenon DEF SaveWrites
<1>4. IsRequest(r)
  BY <1>1, InFlight DEF FollowInv, Sound
<1>5. s.op = r.op /\ s.id = r.id /\ s.answers = r.answers /\ s.stage = "answer"
  <2> HIDE DEF r
  <2>1. PICK P, O, I, N, A, S, Q : r \in Forms(P, O, I, N, A, S, Q)
    BY <1>4 DEF IsRequest
  <2> QED BY <1>2, <2>1 DEF Forms
<1>6. /\ DOMAIN requests' = DOMAIN requests
      /\ \A m \in DOMAIN requests : requests'[m] = IF m = n THEN s ELSE requests[m]
  BY <1>1, <1>3 DEF Proceed
<1>7. /\ DOMAIN quizzes' = DOMAIN quizzes
      /\ \A id \in DOMAIN quizzes :
           /\ quizzes'[id].questions = quizzes[id].questions
           /\ quizzes'[id].answers = IF id = r.id THEN r.answers ELSE quizzes[id].answers
  <2>1. CASE r.id \notin DOMAIN quizzes
    BY <2>1 DEF SaveWrites
  <2>2. CASE r.id \in DOMAIN quizzes
    <3>1. PICK w : w = [quizzes[r.id] EXCEPT !.answers = r.answers, !.score = r.quiz.score,
                                             !.completed = r.quiz.completed]
      OBVIOUS
    <3>2. quizzes' = [quizzes EXCEPT ![r.id] = w]
      BY <2>2, <3>1, Zenon DEF SaveWrites
    <3>3. w.questions = quizzes[r.id].questions /\ w.answers = r.answers
      <4>1. PICK Q, A, S, C : quizzes[r.id] \in Rows(Q, A, S, C)
        BY <2>2 DEF FollowInv, Inv, RowsOK, IsRow
      <4> QED BY <3>1, <4>1 DEF Rows
    <3> HIDE DEF r
    <3> QED BY <2>2, <3>2, <3>3
  <2> QED BY <2>1, <2>2
<1> HIDE DEF r
<1>8. PagesKnow'
  <2>1. Grows
    BY <1>1, <1>7 DEF Grows, FollowInv, Inv, RowsOK, SavesKnown
  <2>2. RepliesKnow
    BY <1>5, <1>6 DEF RepliesKnow, ReplyOK, FollowInv, PagesKnow
  <2> QED BY <1>1, <2>1, <2>2, ClientSame, PagesGoOn
<1>9. SavesKnown'
  BY <1>1, <1>5, <1>6, <1>7 DEF FollowInv, SavesKnown, r
<1>10. \A m, id : /\ IsSave(m, id)' <=> IsSave(m, id)
                  /\ IsSave(m, id) => requests'[m].answers = requests[m].answers
                  /\ IsSave(m, id) /\ m # n => requests'[m] = requests[m]
  BY <1>1, <1>5, <1>6 DEF IsSave, r
<1>11. IsSave(n, r.id) /\ requests[n].answers = r.answers
  BY <1>1 DEF IsSave, r
<1>12. ASSUME NEW id \in DOMAIN last, id \notin forked PROVE Followed(id)'
  <2>1. Followed(id)
    BY <1>12 DEF FollowInv, Following
  <2>2. id \in DOMAIN quizzes' => /\ Acceptable(quizzes'[id].questions, last'[id])
                                  /\ Begins(quizzes'[id].answers, last'[id])
    BY <1>1, <1>7, <1>11, <2>1 DEF Followed
  <2>3. \A m : IsSave(m, id)' => Begins(requests'[m].answers, last'[id])
    BY <1>1, <1>10, <2>1, Zenon DEF Followed
  <2> QED BY <1>1, <2>1, <2>2, <2>3 DEF Followed
<1>13. ASSUME NEW id \in DOMAIN last, id \notin forked \cup raced PROVE Settled(id)'
  <2>1. Settled(id)
    BY <1>13 DEF FollowInv, Following
  <2>2. ASSUME id \in DOMAIN quizzes', \A m : IsSave(m, id)' => ~Unwritten(requests'[m])
        PROVE  quizzes'[id].answers = last'[id]
    <3>1. CASE id = r.id
      BY <1>1, <1>7, <1>11, <2>1, <2>2, <3>1 DEF Settled
    <3>2. CASE id # r.id
      <4>1. \A m : IsSave(m, id) => requests'[m] = requests[m]
        BY <1>10, <1>11, <3>2 DEF IsSave
      <4>2. \A m : IsSave(m, id) => ~Unwritten(requests[m])
        BY <1>10, <2>2, <4>1, Zenon
      <4> QED BY <1>1, <1>7, <2>1, <2>2, <3>2, <4>2 DEF Settled
    <3> QED BY <3>1, <3>2
  <2>3. /\ \A m, k : IsSave(m, id)' /\ IsSave(k, id)' => m = k
        /\ \A m : IsSave(m, id)' => requests'[m].answers = last'[id]
    BY <1>1, <1>10, <2>1, Zenon DEF Settled
  <2> QED BY <2>2, <2>3 DEF Settled
<1> QED BY <1>1, <1>8, <1>9, <1>12, <1>13 DEF Following

\* An answer more: what began the answers so far begins these too.
LEMMA BeginsLonger ==
  ASSUME NEW t \in Seq(Nat), NEW x \in Nat
  PROVE  /\ Append(t, x) \in Seq(Nat) /\ Len(Append(t, x)) = Len(t) + 1
         /\ Begins(Append(t, x), Append(t, x))
         /\ \A s : Begins(s, t) => Begins(s, Append(t, x))
<1>1. /\ Append(t, x) \in Seq(Nat) /\ Len(Append(t, x)) = Len(t) + 1
      /\ \A i \in 1..Len(t) : Append(t, x)[i] = t[i]
  OBVIOUS
<1>2. Begins(Append(t, x), Append(t, x))
  BY <1>1 DEF Begins
<1>3. ASSUME NEW s, Begins(s, t) PROVE Begins(s, Append(t, x))
  <2>1. Len(s) \in Nat /\ Len(t) \in Nat
    BY <1>3 DEF Begins
  <2> QED BY <1>1, <1>3, <2>1 DEF Begins
<1> QED BY <1>1, <1>2, <1>3

LEMMA ChooseFollows ==
  ASSUME FollowInv, NEW p \in Pages, Choose(p)
  PROVE  SavesKnown' /\ PagesKnow' /\ Following'
<1>0. PICK id, shown : id = player[p].at /\ shown = player[p].answers
  OBVIOUS
<1>0a. PICK option \in 1..OptionCount :
         \E r :
           /\ player' = [player EXCEPT ![p].answers = Append(shown, option)]
           /\ r = [Blank EXCEPT !.page = p, !.op = "save", !.id = id,
                                !.answers = Append(shown, option)]
           /\ Send(r)
           /\ last' = [last EXCEPT ![id] = Append(shown, option)]
  BY <1>0, Zenon DEF Choose
<1>1. PICK r :
        /\ player' = [player EXCEPT ![p].answers = Append(shown, option)]
        /\ r = [Blank EXCEPT !.page = p, !.op = "save", !.id = id,
                             !.answers = Append(shown, option)]
        /\ Send(r)
        /\ last' = [last EXCEPT ![id] = Append(shown, option)]
  BY <1>0a, Zenon
<1>2. PICK chosen : chosen = Append(shown, option)
  OBVIOUS
<1>3. /\ UNCHANGED <<quizzes, nextId, cache>>
      /\ Len(shown) < player[p].total
      /\ forked' = IF shown = last[id] THEN forked ELSE forked \cup {id}
      /\ raced' = IF \E n : IsSave(n, id) THEN raced \cup {id} ELSE raced
  BY <1>0 DEF Choose, table, IsSave
<1>4. r.op = "save" /\ r.id = id /\ r.answers = chosen /\ r.stage = "arrived"
  BY <1>1, <1>2 DEF Blank
<1>5. Knows(id, player[p].total)
  <2>1. ViewOK(player[p])
    BY DEF FollowInv, PagesKnow
  <2>2. ~(player[p].total = 0 /\ shown = << >>)
    BY <1>3
  <2> QED BY <1>0, <2>1, <2>2 DEF ViewOK
<1>6. PICK n : /\ n \notin DOMAIN requests
               /\ DOMAIN requests' = DOMAIN requests \cup {n}
               /\ \A m \in DOMAIN requests' :
                    requests'[m] = IF m = n THEN r ELSE requests[m]
  <2>1. Send(r)
    BY <1>1, Zenon
  <2> QED BY <2>1, OneIsSent
<1>7. PICK v : v = [player[p] EXCEPT !.answers = chosen]
  OBVIOUS
<1>8. player' = [player EXCEPT ![p] = v]
  BY <1>1, <1>2, <1>7, Zenon
<1>9. /\ DOMAIN last' = DOMAIN last /\ id \in DOMAIN last
      /\ \A other \in DOMAIN last : last'[other] = IF other = id THEN chosen ELSE last[other]
  BY <1>1, <1>2, <1>5 DEF Knows
<1>10. IsView(v) /\ v.at = id /\ v.total = player[p].total
  <2>1. IsView(player[p])
    BY DEF FollowInv, PagesKnow, ViewOK
  <2>2. PICK A, T, W : player[p] \in [at : A, total : T, answers : W]
    BY <2>1 DEF IsView
  <2>3. v \in [at : A, total : T, answers : {chosen}] /\ v.at = id /\ v.total = player[p].total
    BY <1>0, <1>7, <2>2
  <2> QED BY <2>3, Zenon DEF IsView
<1>11. PagesKnow'
  <2>1. ViewOK(v)
    BY <1>5, <1>10 DEF ViewOK
  <2>2. ClientKnows
    BY <1>3, <1>8, <2>1, OneViewChanges
  <2>3. RepliesKnow
    BY <1>4, <1>6 DEF RepliesKnow, ReplyOK, FollowInv, PagesKnow
  <2>4. Grows
    BY <1>3, <1>9 DEF Grows, FollowInv, Inv, RowsOK, SavesKnown
  <2> QED BY <2>2, <2>3, <2>4, PagesGoOn
<1>12. SavesKnown'
  BY <1>3, <1>4, <1>6, <1>9 DEF FollowInv, SavesKnown
<1>13. \A m, other : IsSave(m, other)' <=> IsSave(m, other) \/ (m = n /\ other = id)
  BY <1>4, <1>6 DEF IsSave
<1>14. /\ \A m, other : IsSave(m, other) => requests'[m] = requests[m] /\ m # n
       /\ requests'[n] = r
  BY <1>6 DEF IsSave
<1>15. ASSUME NEW other \in DOMAIN last, other # id, other \notin forked'
       PROVE  Followed(other)' /\ (other \notin raced' => Settled(other)')
  <2>1. /\ other \notin forked /\ (other \notin raced' => other \notin raced)
        /\ last'[other] = last[other]
    BY <1>3, <1>9, <1>15
  <2>2. Followed(other) /\ (other \notin raced' => Settled(other))
    BY <2>1 DEF FollowInv, Following
  <2>3. \A m : IsSave(m, other)' <=> IsSave(m, other)
    BY <1>13, <1>15
  <2>4. Followed(other)'
    BY <1>3, <1>14, <2>1, <2>2, <2>3, Zenon DEF Followed
  <2>5. ASSUME Settled(other) PROVE Settled(other)'
    BY <1>3, <1>14, <2>1, <2>3, <2>5, Zenon DEF Settled
  <2> QED BY <2>2, <2>4, <2>5
<1>16. ASSUME id \notin forked'
       PROVE  Followed(id)' /\ (id \notin raced' => Settled(id)')
  <2>1. shown = last[id] /\ id \notin forked
    BY <1>3, <1>16
  <2>2. Followed(id)
    BY <1>9, <2>1 DEF FollowInv, Following
  <2>3. last[id] \in Seq(Nat) /\ option \in Nat /\ chosen = Append(last[id], option)
    BY <1>2, <2>1, <2>2, OptionAssumption DEF Followed
  <2>4. /\ chosen \in Seq(Nat) /\ Len(chosen) = Len(last[id]) + 1 /\ Begins(chosen, chosen)
        /\ \A s : Begins(s, last[id]) => Begins(s, chosen)
    BY <2>3, BeginsLonger
  <2>5. last'[id] = chosen
    BY <1>9
  <2>6. ASSUME id \in DOMAIN quizzes'
        PROVE  Acceptable(quizzes'[id].questions, chosen)
    <3>1. id \in DOMAIN quizzes /\ quizzes'[id] = quizzes[id]
      BY <1>3, <2>6
    <3> DEFINE questions == quizzes[id].questions
    <3>2. Acceptable(questions, last[id])
      BY <2>2, <3>1 DEF Followed
    <3>3. Made(questions) /\ Len(last[id]) < Len(questions)
      BY <1>3, <1>5, <2>1, <3>1 DEF Knows, FollowInv, Inv, RowsOK
    <3> HIDE DEF questions
    <3>4. Len(chosen) <= Len(questions) /\ Len(last[id]) \in Nat
      BY <2>3, <2>4, <3>3 DEF Made
    <3>5. ASSUME NEW i \in DOMAIN chosen PROVE chosen[i] \in DOMAIN questions[i].options
      <4>1. i \in DOMAIN questions
        BY <2>4, <3>3, <3>4, <3>5 DEF Made
      <4>2. DOMAIN questions[i].options = 1..OptionCount
        BY <3>3, <4>1 DEF Made, Good
      <4>3. CASE i \in DOMAIN last[id]
        BY <2>3, <3>2, <4>3 DEF Acceptable
      <4>4. CASE i \notin DOMAIN last[id]
        <5>1. i = Len(last[id]) + 1
          BY <2>3, <2>4, <3>4, <3>5, <4>4
        <5>2. chosen[i] = option
          BY <2>3, <5>1
        <5> QED BY <4>2, <5>2
      <4> QED BY <4>3, <4>4
    <3> QED BY <3>1, <3>4, <3>5 DEF Acceptable, questions
  <2>7. id \in DOMAIN quizzes' => Begins(quizzes'[id].answers, chosen)
    BY <1>3, <2>2, <2>4 DEF Followed
  <2>8. \A m : IsSave(m, id)' => Begins(requests'[m].answers, chosen)
    BY <1>4, <1>13, <1>14, <2>2, <2>4 DEF Followed
  <2>9. Followed(id)'
    BY <2>4, <2>5, <2>6, <2>7, <2>8 DEF Followed
  <2>10. ASSUME id \notin raced' PROVE Settled(id)'
    <3>1. \A m : IsSave(m, id)' <=> m = n
      BY <1>3, <1>13, <2>10
    <3>2. requests'[n].answers = last'[id] /\ Unwritten(requests'[n])
      BY <1>4, <1>14, <2>5 DEF Unwritten
    <3> QED BY <3>1, <3>2 DEF Settled
  <2> QED BY <2>9, <2>10
<1> QED BY <1>9, <1>11, <1>12, <1>15, <1>16 DEF Following

LEMMA FollowInvariance == Spec => []FollowInv
<1>1. Init => SavesKnown /\ PagesKnow /\ Following
  BY AwayKnows DEF Init, SavesKnown, PagesKnow, Following
<1>2. ASSUME FollowInv, Inv', [Next]_vars PROVE FollowInv'
  <2>1. ASSUME Quiet PROVE FollowInv'
    BY <1>2, <2>1, QuietStep, PagesGoOn DEF Quiet, FollowInv
  <2>2. ASSUME NEW p \in Pages, NEW i,
               Generate(p) \/ Leave(p) \/ Retake(p) \/ Open(p, i) \/ Delete(p, i)
        PROVE  FollowInv'
    BY <1>2, <2>1, <2>2, QuietPage
  <2>3. ASSUME NEW n,
               \/ AskModel(n) \/ CreateTriviaQuiz(n) \/ SaveReads(n) \/ RetakeTriviaQuiz(n)
               \/ DeleteTriviaQuiz(n) \/ WriteTriviaQuiz(n) \/ Receive(n) \/ Fail(n) \/ GiveUp(n)
        PROVE  FollowInv'
    BY <1>2, <2>1, <2>3, QuietAsk, QuietInsert, QuietRead, QuietDelete, QuietWrite,
       QuietReceive, QuietFail
  <2>4. ASSUME NEW n, SaveWrites(n) PROVE FollowInv'
    BY <1>2, <2>4, SaveFollows DEF FollowInv
  <2>5. ASSUME NEW p \in Pages, Choose(p) PROVE FollowInv'
    BY <1>2, <2>5, ChooseFollows DEF FollowInv
  <2>6. CASE UNCHANGED vars
    <3>1. UNCHANGED <<quizzes, nextId, last, forked, raced, requests, cache, player>>
      BY <2>6 DEF vars, table, client, history
    <3>2. Quiet
      BY <1>2, <3>1, TableSame, ClientSame, RequestsSame DEF Quiet
    <3> QED BY <2>1, <3>2
  <2> QED BY <1>2, <2>2, <2>3, <2>4, <2>5, <2>6, Zenon DEF Next
<1> QED BY <1>1, <1>2, Invariance, PTL DEF Spec, FollowInv

\* Of a quiz answered only on pages that showed its last answers, what is stored
\* is a part of them, and all of them once no save is in flight, unless two were
\* at once or one failed: for any number of pages and quizzes, and however
\* saves, retakes, deletions, replies and failures interleave (choose,
\* SaveTriviaAnswers).
THEOREM StoredAnswersFollow == Spec => []StoredFollowsPlayer
<1>1. ASSUME NEW x, NEW t, Begins(x, t) PROVE IsPrefix(x, t)
  <2>1. x \in Seq(Nat) /\ t \in Seq(Nat) /\ Len(x) <= Len(t)
    BY <1>1 DEF Begins
  <2>2. SubSeq(x, 1, Len(x)) = SubSeq(t, 1, Len(x))
    <3>1. \A i \in 1..Len(x) : x[i] = t[i]
      BY <1>1 DEF Begins
    <3> QED BY <2>1, <3>1
  <2> QED BY <2>1, <2>2, Zenon DEF IsPrefix
<1>2. FollowInv => StoredFollowsPlayer
  <2> SUFFICES ASSUME FollowInv, NEW id \in DOMAIN quizzes \ forked
               PROVE  /\ IsPrefix(quizzes[id].answers, last[id])
                      /\ \/ quizzes[id].answers = last[id]
                         \/ id \in raced
                         \/ \E n \in DOMAIN requests :
                              requests[n].op = "save" /\ requests[n].id = id
    BY Zenon DEF StoredFollowsPlayer
  <2>1. id \in DOMAIN last \ forked
    BY DEF FollowInv, SavesKnown
  <2>2. IsPrefix(quizzes[id].answers, last[id])
    BY <1>1, <2>1 DEF FollowInv, Following, Followed
  <2>3. id \notin raced => Settled(id)
    BY <2>1 DEF FollowInv, Following
  <2> QED BY <2>2, <2>3 DEF Settled, IsSave
<1> QED BY <1>2, FollowInvariance, PTL

=============================================================================
