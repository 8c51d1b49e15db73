-------------------- MODULE ConversationHistory_proofs ---------------------
(***************************************************************************)
(* Theorems about ConversationHistory, for any requests, summarizer runs,  *)
(* turn shapes and threshold: the counters are exact and every row is      *)
(* folded exactly once, through archive, restore, delete and races; which  *)
(* results the replay shows, said without its fold; and that a fold of a   *)
(* tidy history hides none of them.                                        *)
(***************************************************************************)
EXTENDS ConversationHistory, FiniteSetTheorems, SequenceTheorems, WellFoundedInduction, TLAPS

RowType == [kind : Kinds, of : SUBSET Nat, ts : Nat, folded : BOOLEAN]

\* What has been read to be folded is still in the table, and has a newest row.
BatchInv ==
  \A w \in Summarizers : runAt[w] = "asking" /\ home # "deleted" =>
    /\ batch[w] \subseteq Ids
    /\ \E i \in batch[w] : \A j \in batch[w] : rows[j].ts <= rows[i].ts

\* Summaries are of rows that exist, one of each folded row, none of another.
SummariesExact ==
  /\ \A s \in Ids : rows[s].kind = "summary" => rows[s].of \subseteq Ids
  /\ \A i \in Ids : rows[i].folded => \E s \in Ids : SummariesOf(i) = {s}
  /\ \A i \in Ids : ~rows[i].folded => SummariesOf(i) = {}

Counted == messageCount = Len(rows) /\ unsummarized = Cardinality(Open)

IInv == TypeOK /\ Counted /\ BatchInv /\ SummariesExact

----------------------------------------------------------------------------
\* A function from 1..n is a sequence.
LEMMA FunctionsAreSequences ==
  ASSUME NEW S, NEW n \in Nat, NEW f \in [1..n -> S]
  PROVE  f \in Seq(S) /\ Len(f) = n
  OBVIOUS

LEMMA OpenIsFinite ==
  ASSUME rows \in Seq(RowType)
  PROVE  /\ Len(rows) \in Nat
         /\ IsFiniteSet(Open) /\ Cardinality(Open) \in Nat
<1>1. Len(rows) \in Nat
  BY LenProperties
<1>2. IsFiniteSet(Ids)
  BY <1>1, FS_Interval DEF Ids
<1>3. IsFiniteSet(Open)
  BY <1>2, FS_Subset DEF Open
<1> QED
  BY <1>1, <1>3, FS_CardinalityType

LEMMA OpenIsFinitePrimed ==
  ASSUME rows' \in Seq(RowType)
  PROVE  Cardinality(Open)' \in Nat
<1>1. Len(rows') \in Nat
  BY LenProperties
<1>2. IsFiniteSet(Ids')
  BY <1>1, FS_Interval DEF Ids
<1>3. IsFiniteSet(Open')
  BY <1>2, FS_Subset DEF Open
<1> QED
  BY <1>3, FS_CardinalityType

\* An insert of ordinary rows opens exactly the new ones.
LEMMA InsertCounts ==
  ASSUME rows \in Seq(RowType), Counted, SummariesExact,
         NEW new \in Seq(RowType), Insert(new),
         \A k \in 1..Len(new) : new[k].folded = FALSE /\ new[k].kind # "summary"
  PROVE  /\ rows' \in Seq(RowType)
         /\ Len(rows') = Len(rows) + Len(new)
         /\ \A i \in Ids : rows'[i] = rows[i]
         /\ Counted' /\ SummariesExact'
<1>1. Len(rows) \in Nat /\ Len(new) \in Nat
  BY LenProperties
<1>2. /\ rows' \in Seq(RowType)
      /\ Len(rows') = Len(rows) + Len(new)
      /\ \A i \in 1..Len(rows) + Len(new) :
           rows'[i] = IF i <= Len(rows) THEN rows[i] ELSE new[i - Len(rows)]
  BY ConcatProperties DEF Insert
<1>3. \A i \in Ids : rows'[i] = rows[i]
  BY <1>1, <1>2 DEF Ids
<1> DEFINE Fresh == Len(rows) + 1 .. Len(rows) + Len(new)
<1>4. \A i \in Fresh : rows'[i].folded = FALSE /\ rows'[i].kind # "summary"
  <2> SUFFICES ASSUME NEW i \in Fresh
               PROVE  rows'[i].folded = FALSE /\ rows'[i].kind # "summary"
    OBVIOUS
  <2>1. i - Len(rows) \in 1..Len(new) /\ i \in 1..Len(rows) + Len(new) /\ ~(i <= Len(rows))
    BY <1>1
  <2>2. rows'[i] = new[i - Len(rows)]
    BY <1>2, <2>1
  <2> QED
    BY <2>1, <2>2
<1>5. Ids' = Ids \cup Fresh /\ Ids \cap Fresh = {}
  BY <1>1, <1>2 DEF Ids
<1>6. Open' = Open \cup Fresh /\ Open \cap Fresh = {}
  BY <1>3, <1>4, <1>5 DEF Open
<1>7. Counted'
  <2>1. IsFiniteSet(Fresh) /\ Cardinality(Fresh) = Len(new)
    <3>1. Len(rows) + 1 \in Int /\ Len(rows) + Len(new) \in Int
      BY <1>1
    <3>2. /\ IsFiniteSet(Fresh)
          /\ Cardinality(Fresh) = IF Len(rows) + 1 > Len(rows) + Len(new) THEN 0
                                  ELSE (Len(rows) + Len(new)) - (Len(rows) + 1) + 1
      BY <3>1, FS_Interval
    <3> QED
      BY <1>1, <3>2
  <2>2. Cardinality(Open') = Cardinality(Open) + Cardinality(Fresh) - Cardinality(Open \cap Fresh)
    BY <1>6, <2>1, OpenIsFinite, FS_Union
  <2>3. Cardinality(Open \cap Fresh) = 0
    BY <1>6, FS_EmptySet
  <2>4. Cardinality(Open') = Cardinality(Open) + Len(new)
    BY <1>1, <2>1, <2>2, <2>3, OpenIsFinite
  <2> QED
    BY <1>2, <2>4 DEF Counted, Insert
<1>8. SummariesExact'
  <2>1. ASSUME NEW i \in Ids' PROVE SummariesOf(i)' = IF i \in Ids THEN SummariesOf(i) ELSE {}
    BY <1>3, <1>4, <1>5 DEF SummariesOf, SummariesExact
  <2>2. ASSUME NEW s \in Ids', rows'[s].kind = "summary" PROVE rows'[s].of \subseteq Ids'
    BY <1>3, <1>4, <1>5, <2>2 DEF SummariesExact
  <2>3. ASSUME NEW i \in Ids', rows'[i].folded PROVE \E s \in Ids' : SummariesOf(i)' = {s}
    BY <1>3, <1>4, <1>5, <2>1, <2>3 DEF SummariesExact
  <2>4. ASSUME NEW i \in Ids', ~rows'[i].folded PROVE SummariesOf(i)' = {}
    BY <1>3, <1>5, <2>1, <2>4 DEF SummariesExact
  <2> QED
    BY <2>2, <2>3, <2>4 DEF SummariesExact
<1> QED
  BY <1>2, <1>3, <1>7, <1>8

\* A fold marks the rows of its batch and adds one summary, stamped right
\* behind the newest of them.
LEMMA ApplyRows ==
  ASSUME IInv, NEW w \in Summarizers, Apply(w)
  PROVE  LET n == Len(rows) + 1
             S == batch[w] IN
         /\ rows' \in Seq(RowType) /\ Len(rows') = n
         /\ Ids' = Ids \cup {n} /\ n \notin Ids
         /\ S \subseteq Ids /\ \A i \in S : ~rows[i].folded
         /\ \A i \in Ids : /\ rows'[i].kind = rows[i].kind /\ rows'[i].of = rows[i].of
                           /\ rows'[i].ts = rows[i].ts
                           /\ rows'[i].folded = (i \in S \/ rows[i].folded)
         /\ rows'[n].kind = "summary" /\ rows'[n].of = S /\ ~rows'[n].folded
         /\ rows'[n].ts = StampOf(S) + 1
         /\ \E i \in S : StampOf(S) = rows[i].ts /\ \A j \in S : rows[j].ts <= rows[i].ts
<1> DEFINE n == Len(rows) + 1
           S == batch[w]
           folded == [i \in Ids |-> IF i \in S THEN [rows[i] EXCEPT !.folded = TRUE] ELSE rows[i]]
           summary == Row("summary", S, StampOf(S) + 1)
<1>1. rows \in Seq(RowType)
  BY DEF IInv, TypeOK, RowType
<1>2. Len(rows) \in Nat /\ \A i \in Ids : rows[i] \in RowType
  BY <1>1, LenProperties, ElementOfSeq DEF Ids
<1>3. S \subseteq Ids /\ home = "live" /\ \A i \in S : ~rows[i].folded
  BY DEF IInv, BatchInv, Apply, Current
<1>4. PICK i \in S : \A j \in S : rows[j].ts <= rows[i].ts
  BY <1>3 DEF IInv, BatchInv, Apply
<1>5. StampOf(S) = rows[i].ts
  <2> DEFINE stamps == {rows[j].ts : j \in S}
  <2>1. rows[i].ts \in stamps /\ \A t \in stamps : rows[i].ts >= t
    BY <1>2, <1>3, <1>4 DEF RowType
  <2>2. stamps \subseteq Int
    BY <1>2, <1>3 DEF RowType
  <2>3. Max(stamps) \in stamps /\ \A t \in stamps : Max(stamps) >= t
    <3> HIDE DEF stamps
    <3> QED
      BY <2>1 DEF Max
  <2> HIDE DEF stamps
  <2>4. Max(stamps) \in Int /\ rows[i].ts \in Int
    BY <2>1, <2>2, <2>3
  <2>5. Max(stamps) >= rows[i].ts /\ rows[i].ts >= Max(stamps)
    BY <2>1, <2>3
  <2>6. Max(stamps) = rows[i].ts
    BY <2>4, <2>5
  <2> QED
    BY <2>6 DEF StampOf, stamps
<1>6. /\ summary \in RowType /\ summary.kind = "summary" /\ summary.of = S
      /\ summary.folded = FALSE /\ summary.ts = StampOf(S) + 1
  BY <1>2, <1>3, <1>5 DEF RowType, Row, Kinds, Ids
<1>7. folded \in Seq(RowType) /\ Len(folded) = Len(rows)
  <2>1. \A k \in Ids : [rows[k] EXCEPT !.folded = TRUE] \in RowType
    BY <1>2 DEF RowType
  <2>2. folded \in [1..Len(rows) -> RowType]
    BY <1>2, <2>1 DEF Ids
  <2> QED
    BY <1>2, <2>2, FunctionsAreSequences
<1>8. rows' = Append(folded, summary)
  BY DEF Apply
<1> HIDE DEF summary
<1>9. /\ rows' \in Seq(RowType)
      /\ Len(rows') = n
      /\ \A k \in 1..Len(folded) : rows'[k] = folded[k]
      /\ rows'[n] = summary
  <2> HIDE DEF folded
  <2> QED
    BY <1>6, <1>7, <1>8, AppendProperties
<1>10. Ids' = Ids \cup {n} /\ n \notin Ids
  BY <1>2, <1>9 DEF Ids
<1>11. \A k \in Ids : rows'[k] = folded[k]
  BY <1>7, <1>9 DEF Ids
<1>12. \A k \in Ids : /\ rows'[k].kind = rows[k].kind /\ rows'[k].of = rows[k].of
                      /\ rows'[k].ts = rows[k].ts
                      /\ rows'[k].folded = (k \in S \/ rows[k].folded)
  BY <1>2, <1>11 DEF RowType
<1> QED
  BY <1>3, <1>4, <1>5, <1>6, <1>9, <1>10, <1>12

\* A fold takes from the open rows what its trigger subtracts, and the summary
\* it adds is the only one of each of them.
LEMMA ApplyCounts ==
  ASSUME IInv, NEW w \in Summarizers, Apply(w)
  PROVE  /\ rows' \in Seq(RowType)
         /\ Len(rows') = Len(rows) + 1
         /\ \A i \in Ids : rows'[i].ts = rows[i].ts
         /\ Counted' /\ SummariesExact'
<1> DEFINE n == Len(rows) + 1
           S == batch[w]
<1>1. rows \in Seq(RowType) /\ Counted /\ SummariesExact
  BY DEF IInv, TypeOK, RowType
<1>2. S \subseteq Ids /\ \A i \in S : ~rows[i].folded
  BY ApplyRows
<1>3. rows'[n].kind = "summary" /\ rows'[n].of = S /\ ~rows'[n].folded
  BY ApplyRows
<1>4. rows' \in Seq(RowType) /\ Len(rows') = n
  BY ApplyRows
<1>5. Ids' = Ids \cup {n} /\ n \notin Ids
  BY ApplyRows
<1>6. \A i \in Ids \ S : /\ rows'[i].folded = rows[i].folded /\ rows'[i].kind = rows[i].kind
                          /\ rows'[i].of = rows[i].of /\ rows'[i].ts = rows[i].ts
  <2> SUFFICES ASSUME NEW i \in Ids \ S
               PROVE  /\ rows'[i].folded = rows[i].folded /\ rows'[i].kind = rows[i].kind
                      /\ rows'[i].of = rows[i].of /\ rows'[i].ts = rows[i].ts
    OBVIOUS
  <2>1. rows[i].folded \in BOOLEAN
    <3>1. rows[i] \in RowType
      BY <1>1, LenProperties, ElementOfSeq DEF Ids
    <3> QED
      BY <3>1 DEF RowType
  <2>2. rows'[i].folded = (i \in S \/ rows[i].folded)
    BY ApplyRows
  <2>3. rows'[i].folded = rows[i].folded
    BY <2>1, <2>2
  <2> QED
    BY <2>3, ApplyRows
<1>7. \A i \in S : /\ rows'[i].folded = TRUE /\ rows'[i].kind = rows[i].kind
                    /\ rows'[i].of = rows[i].of /\ rows'[i].ts = rows[i].ts
  BY ApplyRows
<1>8. Counted'
  <2>1. Open' = Open \ S
    BY <1>3, <1>4, <1>5, <1>6, <1>7, <1>2 DEF Open
  <2>2. Cardinality(Open') = Cardinality(Open) - Cardinality(Open \cap S)
    BY <1>1, <2>1, OpenIsFinite, FS_Difference
  <2>3. Flips(S) = Cardinality(Open \cap S)
    <3>1. S \cap Open = Open \cap S
      OBVIOUS
    <3> QED
      BY <3>1 DEF Flips
  <2> QED
    BY <1>1, <1>4, <2>2, <2>3 DEF Counted, Apply
<1>9. SummariesExact'
  <2>1. ASSUME NEW i \in Ids PROVE SummariesOf(i)' = IF i \in S THEN {n} ELSE SummariesOf(i)
    <3>1. \A s \in Ids : rows'[s].kind = rows[s].kind /\ rows'[s].of = rows[s].of
      BY <1>6, <1>7
    <3>2. SummariesOf(i)' = SummariesOf(i) \cup (IF i \in S THEN {n} ELSE {})
      BY <1>3, <1>4, <1>5, <3>1 DEF SummariesOf
    <3>3. i \in S => SummariesOf(i) = {}
      BY <1>1, <1>2 DEF SummariesExact
    <3> QED
      BY <3>2, <3>3
  <2>2. ASSUME NEW i, i = n PROVE SummariesOf(i)' = {}
    <3>1. \A s \in Ids : rows'[s].kind = rows[s].kind /\ rows'[s].of = rows[s].of
      BY <1>6, <1>7
    <3> QED
      BY <1>1, <1>2, <1>3, <1>4, <1>5, <2>2, <3>1 DEF SummariesOf, SummariesExact
  <2>3. ASSUME NEW s \in Ids', rows'[s].kind = "summary" PROVE rows'[s].of \subseteq Ids'
    BY <1>1, <1>2, <1>3, <1>4, <1>5, <1>6, <1>7, <2>3 DEF SummariesExact
  <2>4. ASSUME NEW i \in Ids', rows'[i].folded PROVE \E s \in Ids' : SummariesOf(i)' = {s}
    BY <1>1, <1>3, <1>4, <1>5, <1>6, <2>1, <2>4 DEF SummariesExact
  <2>5. ASSUME NEW i \in Ids', ~rows'[i].folded PROVE SummariesOf(i)' = {}
    BY <1>1, <1>5, <1>6, <1>7, <2>1, <2>2, <2>5 DEF SummariesExact
  <2> QED
    BY <2>3, <2>4, <2>5 DEF SummariesExact
<1> QED
  BY <1>4, <1>6, <1>7, <1>8, <1>9

----------------------------------------------------------------------------
(* The invariant is inductive *)

LEMMA InitEstablishesIInv == Init => IInv
<1> SUFFICES ASSUME Init PROVE IInv
  OBVIOUS
<1>1. rows = <<>> /\ Len(rows) = 0
  BY DEF Init
<1>2. Ids = {} /\ Open = {}
  BY <1>1 DEF Ids, Open
<1>3. Counted
  BY <1>1, <1>2, FS_EmptySet DEF Counted, Init
<1>4. TypeOK
  BY DEF Init, TypeOK
<1>5. BatchInv /\ SummariesExact
  BY <1>2 DEF Init, BatchInv, SummariesExact
<1> QED
  BY <1>3, <1>4, <1>5 DEF IInv

\* The steps that leave the rows and what was read of them alone.
LEMMA QuietStepsKeepIInv ==
  ASSUME IInv,
         \/ UNCHANGED vars
         \/ \E r \in Requests : BeginUserTurn(r) \/ RequestEnds(r) \/ Resume(r)
         \/ \E w \in Summarizers : Pick(w) \/ Skip(w) \/ ApplyFails(w)
         \/ Archive \/ Restore
  PROVE  IInv'
<1>1. rows' = rows /\ (home # "deleted" \/ home' = home)
  BY DEF vars, BeginUserTurn, RequestEnds, Resume, Pick, Skip, ApplyFails, Archive, Restore
<1>2. Ids' = Ids /\ Open' = Open /\ \A i : SummariesOf(i)' = SummariesOf(i)
  BY <1>1 DEF Ids, Open, SummariesOf
<1>3. TypeOK'
  <2> USE DEF IInv, TypeOK, counters, request, run
  <2>1. CASE UNCHANGED vars
    BY <2>1 DEF vars
  <2>2. ASSUME NEW r \in Requests, BeginUserTurn(r) \/ RequestEnds(r) \/ Resume(r)
        PROVE  TypeOK'
    <3>1. CASE BeginUserTurn(r)
      BY <3>1 DEF BeginUserTurn, Tick
    <3>2. CASE RequestEnds(r)
      BY <3>2 DEF RequestEnds
    <3>3. CASE Resume(r)
      BY <3>3 DEF Resume
    <3> QED
      BY <2>2, <3>1, <3>2, <3>3
  <2>3. ASSUME NEW w \in Summarizers, Pick(w) \/ Skip(w) \/ ApplyFails(w)
        PROVE  TypeOK'
    BY <2>3 DEF Pick, Skip, ApplyFails
  <2>4. CASE Archive
    BY <2>4 DEF Archive
  <2>5. CASE Restore
    <3>1. Len(rows) \in Nat /\ Cardinality(Open) \in Nat
      BY OpenIsFinite DEF RowType
    <3> QED
      BY <2>5, <3>1 DEF Restore
  <2> QED
    BY <2>1, <2>2, <2>3, <2>4, <2>5
<1>4. Counted'
  BY <1>1, <1>2 DEF IInv, Counted, counters, vars, BeginUserTurn, RequestEnds, Resume,
     Pick, Skip, ApplyFails, Archive, Restore
<1>5. BatchInv'
  <2>1. ASSUME NEW w \in Summarizers, runAt'[w] = "asking"
        PROVE  runAt[w] = "asking" /\ batch'[w] = batch[w]
    BY <2>1 DEF IInv, TypeOK, vars, run, request, BeginUserTurn, RequestEnds, Resume,
       Pick, Skip, ApplyFails, Archive, Restore
  <2>2. home' # "deleted" => home # "deleted"
    BY DEF vars, BeginUserTurn, RequestEnds, Resume, Pick, Skip, ApplyFails, Archive, Restore
  <2> QED
    BY <1>1, <1>2, <2>1, <2>2 DEF IInv, BatchInv
<1>6. SummariesExact'
  BY <1>1, <1>2 DEF IInv, SummariesExact
<1> QED
  BY <1>3, <1>4, <1>5, <1>6 DEF IInv

\* A batch is kept by whatever keeps the stamps of its rows.
LEMMA BatchesStand ==
  ASSUME BatchInv, Len(rows) \in Nat, Len(rows') \in Nat, Len(rows) <= Len(rows'),
         \A i \in Ids : rows'[i].ts = rows[i].ts,
         home' = home,
         \A w \in Summarizers : runAt'[w] = "asking" =>
            runAt[w] = "asking" /\ batch'[w] = batch[w]
  PROVE  BatchInv'
<1>1. Ids \subseteq Ids'
  BY DEF Ids
<1> QED
  BY <1>1 DEF BatchInv

LEMMA CommitUserTurnKeepsIInv ==
  ASSUME IInv, NEW r \in Requests, CommitUserTurn(r)
  PROVE  IInv'
<1> DEFINE new == <<Row("user", {}, begunAt[r])>>
<1>1. new \in Seq(RowType) /\ Len(new) = 1
      /\ \A k \in 1..Len(new) : new[k].folded = FALSE /\ new[k].kind # "summary"
  BY DEF IInv, TypeOK, RowType, Row, Kinds
<1>2. Insert(new)
  BY DEF CommitUserTurn
<1>3. rows \in Seq(RowType) /\ Counted /\ SummariesExact /\ Len(rows) \in Nat
  BY OpenIsFinite DEF IInv, TypeOK, RowType
<1>4. /\ rows' \in Seq(RowType) /\ Len(rows') = Len(rows) + 1
      /\ \A i \in Ids : rows'[i] = rows[i]
      /\ Counted' /\ SummariesExact'
  <2> HIDE DEF new
  <2> QED
    BY <1>1, <1>2, <1>3, InsertCounts
<1>5. TypeOK'
  <2>1. messageCount' \in Nat /\ unsummarized' \in Nat
    BY <1>1, <1>2 DEF Insert, IInv, TypeOK
  <2> QED
    BY <1>4, <2>1 DEF IInv, TypeOK, RowType, CommitUserTurn, run
<1>6. BatchInv'
  <2>1. home' = home /\ UNCHANGED <<runAt, batch>>
    BY DEF CommitUserTurn, run
  <2> QED
    BY <1>3, <1>4, <2>1, BatchesStand DEF IInv
<1> QED
  BY <1>4, <1>5, <1>6 DEF IInv

LEMMA RecordAssistantTurnKeepsIInv ==
  ASSUME IInv, NEW r \in Requests, RecordAssistantTurn(r)
  PROVE  IInv'
<1>1. PICK s \in Shapes :
        /\ Insert([k \in DOMAIN s |-> Row(s[k], {}, clock)])
        /\ asked' = [asked EXCEPT ![r] =
                       {Len(rows) + k : k \in {k \in DOMAIN s : s[k] = "call"}}]
  BY DEF RecordAssistantTurn
<1> DEFINE new == [k \in DOMAIN s |-> Row(s[k], {}, clock)]
<1>2. s \in Seq({"text", "call"})
  BY HistoryAssumption
<1>3. Len(s) \in Nat /\ DOMAIN s = 1..Len(s) /\ \A k \in 1..Len(s) : s[k] \in {"text", "call"}
  BY <1>2, LenProperties, ElementOfSeq
<1>4. \A k \in 1..Len(s) : /\ new[k] \in RowType
                            /\ new[k].folded = FALSE /\ new[k].kind # "summary"
  BY <1>3 DEF IInv, TypeOK, RowType, Row, Kinds
<1>5. new \in Seq(RowType) /\ Len(new) = Len(s)
  <2>1. new \in [1..Len(s) -> RowType]
    BY <1>3, <1>4
  <2> HIDE DEF new
  <2> QED
    BY <1>3, <2>1, FunctionsAreSequences
<1>6. Insert(new)
  BY <1>1
<1>7. rows \in Seq(RowType) /\ Counted /\ SummariesExact /\ Len(rows) \in Nat
  BY OpenIsFinite DEF IInv, TypeOK, RowType
<1>8. /\ rows' \in Seq(RowType) /\ Len(rows') = Len(rows) + Len(s)
      /\ \A i \in Ids : rows'[i] = rows[i]
      /\ Counted' /\ SummariesExact'
  <2> HIDE DEF new
  <2> QED
    BY <1>4, <1>5, <1>6, <1>7, InsertCounts
<1>9. TypeOK'
  <2>1. messageCount' \in Nat /\ unsummarized' \in Nat
    <3> HIDE DEF new
    <3> QED
      BY <1>3, <1>5, <1>6 DEF Insert, IInv, TypeOK
  <2>2. asked' \in [Requests -> SUBSET Nat]
    <3>1. {Len(rows) + k : k \in {k \in DOMAIN s : s[k] = "call"}} \in SUBSET Nat
      BY <1>3, <1>7
    <3> QED
      BY <1>1, <3>1 DEF IInv, TypeOK
  <2> QED
    BY <1>8, <2>1, <2>2 DEF IInv, TypeOK, RowType, RecordAssistantTurn, Tick, run
<1>10. BatchInv'
  <2>1. home' = home /\ UNCHANGED <<runAt, batch>>
    BY DEF RecordAssistantTurn, run
  <2> QED
    BY <1>3, <1>7, <1>8, <2>1, BatchesStand DEF IInv
<1> QED
  BY <1>8, <1>9, <1>10 DEF IInv

LEMMA RecordToolResultKeepsIInv ==
  ASSUME IInv, NEW c \in Ids, RecordToolResult(c)
  PROVE  IInv'
<1> DEFINE new == <<Row("result", {c}, clock)>>
<1>1. rows \in Seq(RowType) /\ Counted /\ SummariesExact /\ Len(rows) \in Nat
  BY OpenIsFinite DEF IInv, TypeOK, RowType
<1>2. c \in Nat
  BY <1>1 DEF Ids
<1>3. new \in Seq(RowType) /\ Len(new) = 1
      /\ \A k \in 1..Len(new) : new[k].folded = FALSE /\ new[k].kind # "summary"
  BY <1>2 DEF IInv, TypeOK, RowType, Row, Kinds
<1>4. Insert(new)
  BY DEF RecordToolResult
<1>5. /\ rows' \in Seq(RowType) /\ Len(rows') = Len(rows) + 1
      /\ \A i \in Ids : rows'[i] = rows[i]
      /\ Counted' /\ SummariesExact'
  <2> HIDE DEF new
  <2> QED
    BY <1>1, <1>3, <1>4, InsertCounts
<1>6. TypeOK'
  <2>1. messageCount' \in Nat /\ unsummarized' \in Nat
    BY <1>3, <1>4 DEF Insert, IInv, TypeOK
  <2> QED
    BY <1>5, <2>1 DEF IInv, TypeOK, RowType, RecordToolResult, Tick, request, run
<1>7. BatchInv'
  <2>1. home' = home /\ UNCHANGED <<runAt, batch>>
    BY DEF RecordToolResult, run
  <2> QED
    BY <1>1, <1>5, <2>1, BatchesStand DEF IInv
<1> QED
  BY <1>5, <1>6, <1>7 DEF IInv

LEMMA FetchKeepsIInv ==
  ASSUME IInv, NEW w \in Summarizers, Fetch(w)
  PROVE  IInv'
<1>1. PICK S \in OldestBatches : Untrimmed(S) /\ batch' = [batch EXCEPT ![w] = S]
  BY DEF Fetch
<1>2. /\ S \subseteq Ids
      /\ \E i \in S : \A j \in S : rows[j].ts <= rows[i].ts
  BY <1>1 DEF OldestBatches, Untrimmed, Open
<1>3. UNCHANGED <<rows, home, messageCount, unsummarized>>
  BY DEF Fetch, counters
<1>4. Ids' = Ids /\ Open' = Open /\ \A i : SummariesOf(i)' = SummariesOf(i)
  BY <1>3 DEF Ids, Open, SummariesOf
<1>5. Ids \subseteq Nat
  BY OpenIsFinite DEF IInv, TypeOK, RowType, Ids
<1>6. TypeOK'
  BY <1>1, <1>2, <1>3, <1>5 DEF IInv, TypeOK, Fetch, request
<1>7. BatchInv'
  BY <1>1, <1>2, <1>3, <1>4 DEF IInv, TypeOK, BatchInv, Fetch
<1>8. Counted' /\ SummariesExact'
  BY <1>3, <1>4 DEF IInv, Counted, SummariesExact
<1> QED
  BY <1>6, <1>7, <1>8 DEF IInv

LEMMA ApplyKeepsIInv ==
  ASSUME IInv, NEW w \in Summarizers, Apply(w)
  PROVE  IInv'
<1>1. /\ rows' \in Seq(RowType) /\ Len(rows') = Len(rows) + 1
      /\ \A i \in Ids : rows'[i].ts = rows[i].ts
      /\ Counted' /\ SummariesExact'
  BY ApplyCounts
<1>2. Len(rows) \in Nat /\ Len(rows') \in Nat
  BY <1>1, OpenIsFinite DEF IInv, TypeOK, RowType
<1>3. TypeOK'
  <2>1. messageCount' \in Nat /\ unsummarized' \in Nat
    <3>1. Cardinality(Open)' \in Nat
      BY <1>1, OpenIsFinitePrimed
    <3> QED
      BY <1>1, <1>2, <3>1 DEF Counted
  <2> QED
    BY <1>1, <2>1 DEF IInv, TypeOK, RowType, Apply, request
<1>4. BatchInv'
  <2>1. home' = home
    BY DEF Apply
  <2>2. \A v \in Summarizers : runAt'[v] = "asking" =>
           runAt[v] = "asking" /\ batch'[v] = batch[v]
    BY DEF IInv, TypeOK, Apply
  <2> QED
    BY <1>1, <1>2, <2>1, <2>2, BatchesStand DEF IInv
<1> QED
  BY <1>1, <1>3, <1>4 DEF IInv

LEMMA DeleteKeepsIInv == ASSUME IInv, Delete PROVE IInv'
<1>1. rows' = <<>> /\ Len(rows') = 0 /\ home' = "deleted"
  BY DEF Delete
<1>2. Ids' = {} /\ Open' = {}
  BY <1>1 DEF Ids, Open
<1>3. Counted'
  BY <1>1, <1>2, FS_EmptySet DEF Counted, Delete
<1>4. TypeOK'
  BY DEF IInv, TypeOK, Delete, request, run
<1>5. BatchInv' /\ SummariesExact'
  BY <1>1, <1>2 DEF BatchInv, SummariesExact
<1> QED
  BY <1>3, <1>4, <1>5 DEF IInv

LEMMA NextKeepsIInv == IInv /\ [Next]_vars => IInv'
<1> SUFFICES ASSUME IInv, [Next]_vars PROVE IInv'
  OBVIOUS
<1> QED
  BY QuietStepsKeepIInv, CommitUserTurnKeepsIInv, RecordAssistantTurnKeepsIInv,
     RecordToolResultKeepsIInv, FetchKeepsIInv, ApplyKeepsIInv, DeleteKeepsIInv
     DEF Next

\* The inductive invariant: the counters count, what is being folded is there,
\* and summaries and folded rows match one to one.
THEOREM SpecImpliesIInv == Spec => []IInv
  BY InitEstablishesIInv, NextKeepsIInv, PTL DEF Spec

\* Every reachable state of the conversation is well typed.
THEOREM TypeCorrect == Spec => []TypeOK
<1>1. IInv => TypeOK
  BY DEF IInv
<1> QED
  BY <1>1, SpecImpliesIInv, PTL

\* message_count and unsummarized_message_count are exact in every state, after
\* any inserts, folds, archives and restores.
THEOREM CountersExact == Spec => []CountersAreExact
<1>1. IInv => CountersAreExact
  BY DEF IInv, Counted, CountersAreExact
<1> QED
  BY <1>1, SpecImpliesIInv, PTL

\* No row is lost from the summaries or condensed twice, however many runs of
\* the summarizer overlap with each other, an archive and a restore.
THEOREM EveryFoldIsOnce == Spec => []FoldedOnce
<1>1. IInv => FoldedOnce
  BY FS_EmptySet, FS_Singleton DEF IInv, SummariesExact, FoldedOnce
<1> QED
  BY <1>1, SpecImpliesIInv, PTL

----------------------------------------------------------------------------
(* The replay, without its order and its fold *)

\* A finite set of numbers has a largest: of its upper parts {y : y >= x}, one
\* has no smaller one below it.
LEMMA FiniteMax ==
  ASSUME NEW T, IsFiniteSet(T), T \subseteq Int, T # {}
  PROVE  Max(T) \in T /\ \A y \in T : y <= Max(T)
<1> DEFINE D == {{y \in T : x <= y} : x \in T}
<1>1. D \subseteq FiniteSubsetsOf(T) /\ D # {}
  <2>1. D \subseteq SUBSET T /\ D # {}
    OBVIOUS
  <2> HIDE DEF D
  <2> QED
    BY <2>1, FS_FiniteSubsetsOfFinite
<1>2. IsWellFoundedOn(StrictSubsetOrdering(T), FiniteSubsetsOf(T))
  BY FS_StrictSubsetOrderingWellFounded
<1> HIDE DEF D
<1>3. PICK U \in D : \A V \in D : <<V, U>> \notin StrictSubsetOrdering(T)
  BY <1>1, <1>2, WFMin
<1> USE DEF D
<1>4. PICK x \in T : U = {y \in T : x <= y}
  OBVIOUS
<1>5. ASSUME NEW y \in T, ~(y <= x) PROVE FALSE
  <2> DEFINE V == {z \in T : y <= z}
  <2>1. x \in Int /\ y \in Int /\ x < y
    BY <1>5
  <2>2. x \in U /\ x \notin V /\ U \subseteq T
    BY <1>4, <2>1
  <2>3. \A z \in T : y <= z => x <= z
    BY <2>1
  <2>4. V \subseteq U
    BY <1>4, <2>3
  <2>5. V \in D
    OBVIOUS
  <2> HIDE DEF V
  <2>6. <<V, U>> \in StrictSubsetOrdering(T)
    BY <2>2, <2>4 DEF StrictSubsetOrdering
  <2> QED
    BY <1>3, <2>5, <2>6
<1>6. \E m \in T : \A y \in T : m >= y
  BY <1>5
<1>7. Max(T) \in T /\ \A y \in T : Max(T) >= y
  BY <1>6 DEF Max
<1> QED
  BY <1>7

Before(i) == {j \in Visible : Earlier(j, i)}

\* The rows have one order: by stamp, and by id where stamps tie.
LEMMA EarlierIsAnOrder ==
  ASSUME rows \in Seq(RowType)
  PROVE  /\ IsFiniteSet(Visible) /\ Visible \subseteq Ids /\ Ids \subseteq Nat
         /\ \A i \in Ids : rows[i] \in RowType
         /\ \A i \in Ids : ~Earlier(i, i)
         /\ \A i, j \in Ids : Earlier(i, j) \/ Earlier(j, i) \/ i = j
         /\ \A i, j, k \in Ids : Earlier(i, j) /\ Earlier(j, k) => Earlier(i, k)
<1>1. Len(rows) \in Nat /\ \A i \in Ids : rows[i] \in RowType
  BY LenProperties, ElementOfSeq DEF Ids
<1>2. IsFiniteSet(Ids) /\ Ids \subseteq Nat
  BY <1>1, FS_Interval DEF Ids
<1>3. IsFiniteSet(Visible) /\ Visible \subseteq Ids
  BY <1>2, FS_Subset DEF Visible
<1>4. \A i \in Ids : rows[i].ts \in Nat
  BY <1>1 DEF RowType
<1> QED
  BY <1>1, <1>2, <1>3, <1>4 DEF Earlier

\* A row's rank is below the number of rows, and later rows have higher ranks.
LEMMA RanksAreOrdered ==
  ASSUME rows \in Seq(RowType)
  PROVE  /\ \A i \in Visible : Cardinality(Before(i)) \in 0..Cardinality(Visible) - 1
         /\ \A i, j \in Visible :
              Earlier(i, j) => Cardinality(Before(i)) < Cardinality(Before(j))
<1>1. ASSUME NEW S, IsFiniteSet(S), NEW i \in S, NEW P \in SUBSET S, i \notin P
      PROVE  /\ Cardinality(S) \in Nat /\ Cardinality(P) \in Nat
             /\ Cardinality(P) < Cardinality(S)
  <2>1. P \in SUBSET (S \ {i})
    BY <1>1
  <2>2. IsFiniteSet(S \ {i}) /\ Cardinality(S \ {i}) = Cardinality(S) - 1
    BY <1>1, FS_RemoveElement
  <2>3. IsFiniteSet(P) /\ Cardinality(P) <= Cardinality(S \ {i})
    BY <2>1, <2>2, FS_Subset
  <2> QED
    BY <1>1, <2>2, <2>3, FS_CardinalityType
<1>2. \A i \in Visible : Before(i) \in SUBSET Visible /\ i \notin Before(i)
  BY EarlierIsAnOrder DEF Before
<1>3. ASSUME NEW i \in Visible PROVE Cardinality(Before(i)) \in 0..Cardinality(Visible) - 1
  BY <1>1, <1>2, EarlierIsAnOrder
<1>4. ASSUME NEW i \in Visible, NEW j \in Visible, Earlier(i, j)
      PROVE  Cardinality(Before(i)) < Cardinality(Before(j))
  <2>1. i \in Before(j) /\ Before(i) \in SUBSET Before(j)
    BY <1>4, EarlierIsAnOrder DEF Before
  <2>2. IsFiniteSet(Before(j))
    BY <1>2, EarlierIsAnOrder, FS_Subset
  <2> QED
    BY <1>1, <1>2, <2>1, <2>2
<1> QED
  BY <1>3, <1>4

\* The replay lists the visible rows once each, in their order.
LEMMA ReplayIsInOrder ==
  ASSUME rows \in Seq(RowType)
  PROVE  /\ Cardinality(Visible) \in Nat
         /\ \A k \in 1..Cardinality(Visible) : ReplayOrder[k] \in Visible
         /\ \A i \in Visible : \E k \in 1..Cardinality(Visible) : ReplayOrder[k] = i
         /\ \A k, m \in 1..Cardinality(Visible) :
              Earlier(ReplayOrder[k], ReplayOrder[m]) <=> k < m
<1> DEFINE n == Cardinality(Visible)
           rank == [i \in Visible |-> Cardinality(Before(i))]
<1>1. n \in Nat
  BY EarlierIsAnOrder, FS_CardinalityType
<1>2. \A i, j \in Visible : rank[i] = rank[j] => i = j
  <2>1. \A i \in Visible : rank[i] \in 0..n-1
    BY RanksAreOrdered
  <2>2. \A i, j \in Visible : Earlier(i, j) => rank[i] < rank[j]
    BY RanksAreOrdered
  <2>3. \A i, j \in Visible : Earlier(i, j) \/ Earlier(j, i) \/ i = j
    BY EarlierIsAnOrder
  <2> HIDE DEF rank, n
  <2> QED
    BY <1>1, <2>1, <2>2, <2>3
<1>3. rank \in Injection(Visible, 0..n-1)
  BY <1>2, RanksAreOrdered DEF Injection, IsInjective
<1>4. IsFiniteSet(0..n-1) /\ Cardinality(0..n-1) = n
  <2>1. 0 \in Int /\ n - 1 \in Int
    BY <1>1
  <2>2. /\ IsFiniteSet(0..n-1)
        /\ Cardinality(0..n-1) = IF 0 > n - 1 THEN 0 ELSE (n - 1) - 0 + 1
    <3> HIDE DEF n
    <3> QED
      BY <2>1, FS_Interval
  <2> HIDE DEF n
  <2> QED
    BY <1>1, <2>2
<1>5. rank \in Surjection(Visible, 0..n-1)
  <2> HIDE DEF rank
  <2> QED
    BY <1>3, <1>4, FS_Injection
<1>6. \A k \in 1..n : \E i \in Visible : Cardinality(Before(i)) = k - 1
  <2> SUFFICES ASSUME NEW k \in 1..n PROVE \E i \in Visible : rank[i] = k - 1
    OBVIOUS
  <2>1. k - 1 \in 0..n-1
    <3> HIDE DEF n
    <3> QED
      BY <1>1
  <2> HIDE DEF rank
  <2> QED
    BY <1>5, <2>1 DEF Surjection
<1>7. \A k \in 1..n : /\ ReplayOrder[k] \in Visible
                       /\ Cardinality(Before(ReplayOrder[k])) = k - 1
  BY <1>6 DEF ReplayOrder, Before
<1>8. ASSUME NEW i \in Visible PROVE \E k \in 1..n : ReplayOrder[k] = i
  <2>1. Cardinality(Before(i)) \in 0..n-1
    BY RanksAreOrdered
  <2>2. Cardinality(Before(i)) + 1 \in 1..n /\ (Cardinality(Before(i)) + 1) - 1 = Cardinality(Before(i))
    <3> HIDE DEF n
    <3> QED
      BY <1>1, <2>1
  <2>3. rank[ReplayOrder[Cardinality(Before(i)) + 1]] = rank[i]
    BY <1>7, <2>2
  <2> QED
    BY <1>2, <1>7, <2>2, <2>3
<1>9. ASSUME NEW k \in 1..n, NEW m \in 1..n
      PROVE  Earlier(ReplayOrder[k], ReplayOrder[m]) <=> k < m
  <2> DEFINE a == ReplayOrder[k]
             b == ReplayOrder[m]
  <2>1. /\ a \in Visible /\ b \in Visible
        /\ Cardinality(Before(a)) = k - 1 /\ Cardinality(Before(b)) = m - 1
    BY <1>7
  <2>2. Earlier(a, b) \/ Earlier(b, a) \/ a = b
    BY <2>1, EarlierIsAnOrder
  <2>3. /\ Earlier(a, b) => Cardinality(Before(a)) < Cardinality(Before(b))
        /\ Earlier(b, a) => Cardinality(Before(b)) < Cardinality(Before(a))
    BY <2>1, RanksAreOrdered
  <2>4. k \in Int /\ m \in Int
    BY <1>1
  <2>5. ~Earlier(a, a)
    BY <2>1, EarlierIsAnOrder
  <2> HIDE DEF a, b
  <2>6. Earlier(a, b) <=> k < m
    BY <2>1, <2>2, <2>3, <2>4, <2>5
  <2> QED
    BY <2>6 DEF a, b
<1> QED
  BY <1>1, <1>7, <1>8, <1>9

(* The fold over the first rows of the replay, as a set of positions T: the   *)
(* calls of the turn that T ends in, whether T ends in a result, and the calls *)
(* whose results stand in T behind their turn.                                *)
Kind(k) == rows[ReplayOrder[k]].kind
SameTurn(T, k) ==
  \A m \in T : k < m =>
    /\ Kind(m) \in {"text", "call", "result"}
    /\ Kind(m) # "result" => \A l \in T : k < l /\ l < m => Kind(l) # "result"
HeldCalls(T) == {ReplayOrder[k] : k \in {k \in T : Kind(k) = "call" /\ SameTurn(T, k)}}
Answering(T) == T # {} /\ Kind(Max(T)) = "result"
Upto(T, m) == {k \in T : k < m}
Shown(T) == UNION {rows[ReplayOrder[m]].of \cap HeldCalls(Upto(T, m)) :
                     m \in {m \in T : Kind(m) = "result"}}
Reached(T) == [calls |-> HeldCalls(T), answering |-> Answering(T), shown |-> Shown(T)]

Blank == [calls |-> {}, answering |-> FALSE, shown |-> {}]

\* What the definition of the fold says of a function g over the subsets of P.
Folding(g, P) ==
  g = [s \in SUBSET P |-> IF s = {} THEN Blank
                          ELSE ReplayStep(g[s \ {Max(s)}], ReplayOrder[Max(s)])]

LEMMA HeldMembers ==
  ASSUME NEW T
  PROVE  /\ \A c : c \in HeldCalls(T) <=>
                     \E k \in T : c = ReplayOrder[k] /\ Kind(k) = "call" /\ SameTurn(T, k)
         /\ \A c : c \in Shown(T) <=>
                     \E m \in T : /\ Kind(m) = "result" /\ c \in rows[ReplayOrder[m]].of
                                  /\ c \in HeldCalls(Upto(T, m))
BY DEF HeldCalls, Shown

\* The step of the fold, kind by kind.
LEMMA StepByKind ==
  ASSUME NEW C, NEW A \in BOOLEAN, NEW W, NEW i
  PROVE  LET to == ReplayStep([calls |-> C, answering |-> A, shown |-> W], i)
             kept == IF A THEN {} ELSE C IN
         /\ rows[i].kind \in {"user", "summary"} =>
              to = [calls |-> {}, answering |-> FALSE, shown |-> W]
         /\ rows[i].kind = "text" =>
              to = [calls |-> kept, answering |-> FALSE, shown |-> W]
         /\ rows[i].kind = "call" =>
              to = [calls |-> kept \cup {i}, answering |-> FALSE, shown |-> W]
         /\ rows[i].kind = "result" =>
              to = [calls |-> C, answering |-> TRUE, shown |-> W \cup (rows[i].of \cap C)]
BY DEF ReplayStep

LEMMA MaxOfPart ==
  ASSUME NEW n \in Nat, NEW T \in SUBSET (1..n), T # {}
  PROVE  Max(T) \in T /\ \A k \in T : k <= Max(T)
<1>1. IsFiniteSet(1..n)
  BY FS_Interval
<1>2. IsFiniteSet(T)
  BY <1>1, FS_Subset
<1>3. T \subseteq Int
  OBVIOUS
<1> QED
  BY <1>2, <1>3, FiniteMax

\* One more row: what the step of the fold does to what has been reached.
LEMMA StepReaches ==
  ASSUME NEW n \in Nat, NEW T \in SUBSET (1..n), T # {},
         \A k \in 1..n : Kind(k) \in Kinds
  PROVE  Reached(T) = ReplayStep(Reached(T \ {Max(T)}), ReplayOrder[Max(T)])
<1> DEFINE x == Max(T)
           P == T \ {x}
<1>1. /\ x \in T /\ (\A k \in T : k <= x)
      /\ \A k \in T : k \in Int
  <2>1. \A k \in T : k \in Int
    OBVIOUS
  <2>2. Max(T) \in T /\ \A k \in T : k <= Max(T)
    BY MaxOfPart
  <2> QED
    BY <2>1, <2>2
<1>2. T = P \cup {x} /\ x \notin P /\ P \in SUBSET (1..n)
  BY <1>1
<1> HIDE DEF x
<1>3. \A k \in P : k < x /\ k \in T /\ k \in Int
  BY <1>1
<1> HIDE DEF P
<1>4. P # {} => Max(P) \in P /\ \A k \in P : k <= Max(P)
  BY <1>2, MaxOfPart
<1>5. Kind(x) \in Kinds
  BY <1>1
<1>6. ASSUME NEW k \in P, SameTurn(P, k), Kind(k) = "call"
      PROVE  SameTurn(T, k) <=> /\ Kind(x) \in {"text", "call", "result"}
                                /\ Kind(x) # "result" => ~Answering(P)
  <2>1. SameTurn(T, k) <=>
          /\ Kind(x) \in {"text", "call", "result"}
          /\ Kind(x) # "result" => \A l \in P : k < l => Kind(l) # "result"
    BY <1>1, <1>2, <1>3, <1>6 DEF SameTurn
  <2>2. Answering(P) <=> \E l \in P : k < l /\ Kind(l) = "result"
    <3>1. ASSUME NEW l \in P, k < l, Kind(l) = "result", Kind(Max(P)) # "result"
          PROVE  FALSE
      <4>1. l <= Max(P) /\ Max(P) \in P /\ l # Max(P)
        BY <1>4, <3>1
      <4>2. k \in Int /\ l \in Int /\ Max(P) \in Int
        BY <1>3, <4>1
      <4>3. k < l /\ l < Max(P) /\ k < Max(P)
        BY <3>1, <4>1, <4>2
      <4> QED
        BY <1>6, <3>1, <4>1, <4>3 DEF SameTurn
    <3>2. ASSUME Kind(Max(P)) = "result" PROVE k < Max(P)
      <4>1. k <= Max(P) /\ Max(P) \in P /\ k # Max(P)
        BY <1>4, <1>6, <3>2
      <4>2. k \in Int /\ Max(P) \in Int
        BY <1>3, <4>1
      <4> QED
        BY <4>1, <4>2
    <3> QED
      BY <1>4, <3>1, <3>2 DEF Answering
  <2> QED
    BY <2>1, <2>2
<1>7. ASSUME NEW k \in P, SameTurn(T, k) PROVE SameTurn(P, k)
  BY <1>3, <1>7 DEF SameTurn
<1>8. SameTurn(T, x)
  BY <1>1 DEF SameTurn
<1> DEFINE goesOn == /\ Kind(x) \in {"text", "call", "result"}
                     /\ Kind(x) # "result" => ~Answering(P)
<1>9. ASSUME NEW c
      PROVE  c \in HeldCalls(T) <=> \/ goesOn /\ c \in HeldCalls(P)
                                    \/ Kind(x) = "call" /\ c = ReplayOrder[x]
  <2> HIDE DEF goesOn
  <2>1. \A k \in P : Kind(k) = "call" => (SameTurn(T, k) <=> SameTurn(P, k) /\ goesOn)
    BY <1>6, <1>7 DEF goesOn
  <2>2. c \in HeldCalls(T) <=>
          \E k \in T : c = ReplayOrder[k] /\ Kind(k) = "call" /\ SameTurn(T, k)
    BY HeldMembers
  <2>3. c \in HeldCalls(P) <=>
          \E k \in P : c = ReplayOrder[k] /\ Kind(k) = "call" /\ SameTurn(P, k)
    BY HeldMembers
  <2> QED
    BY <1>2, <1>8, <2>1, <2>2, <2>3
<1>10. /\ Kind(x) \in {"user", "summary"} => HeldCalls(T) = {}
       /\ Kind(x) = "text" => HeldCalls(T) = IF Answering(P) THEN {} ELSE HeldCalls(P)
       /\ Kind(x) = "call" => HeldCalls(T) = (IF Answering(P) THEN {} ELSE HeldCalls(P))
                                               \cup {ReplayOrder[x]}
       /\ Kind(x) = "result" => HeldCalls(T) = HeldCalls(P)
  BY <1>9
<1>11. Answering(T) = (Kind(x) = "result")
  BY <1>1 DEF Answering, x
<1>12. \A m \in P : Upto(T, m) = Upto(P, m)
  <2> SUFFICES ASSUME NEW m \in P PROVE Upto(T, m) = Upto(P, m)
    OBVIOUS
  <2>1. m < x /\ m \in Int /\ x \in Int
    BY <1>1, <1>3
  <2>2. ~(x < m)
    BY <2>1
  <2> QED
    BY <1>2, <2>2 DEF Upto
<1>13. Upto(T, x) = P
  <2>1. ~(x < x)
    BY <1>1
  <2> QED
    BY <1>2, <1>3, <2>1 DEF Upto
<1>14. ASSUME NEW c
       PROVE  c \in Shown(T) <=> \/ c \in Shown(P)
                                 \/ /\ Kind(x) = "result"
                                    /\ c \in rows[ReplayOrder[x]].of \cap HeldCalls(P)
  <2>1. c \in Shown(T) <=> \E m \in T : /\ Kind(m) = "result" /\ c \in rows[ReplayOrder[m]].of
                                          /\ c \in HeldCalls(Upto(T, m))
    BY HeldMembers
  <2>2. c \in Shown(P) <=> \E m \in P : /\ Kind(m) = "result" /\ c \in rows[ReplayOrder[m]].of
                                          /\ c \in HeldCalls(Upto(P, m))
    BY HeldMembers
  <2> QED
    BY <1>2, <1>12, <1>13, <2>1, <2>2
<1>15. Shown(T) = IF Kind(x) = "result"
                  THEN Shown(P) \cup (rows[ReplayOrder[x]].of \cap HeldCalls(P))
                  ELSE Shown(P)
  BY <1>14
<1>16. Answering(P) \in BOOLEAN
  BY DEF Answering
<1> DEFINE i == ReplayOrder[x]
<1>17. Kind(x) = rows[i].kind
  BY DEF Kind
<1> DEFINE C == HeldCalls(P)
           A == Answering(P)
           W == Shown(P)
           kept == IF A THEN {} ELSE C
           to == ReplayStep([calls |-> C, answering |-> A, shown |-> W], i)
<1>18. /\ rows[i].kind \in {"user", "summary"} =>
            to = [calls |-> {}, answering |-> FALSE, shown |-> W]
       /\ rows[i].kind = "text" =>
            to = [calls |-> kept, answering |-> FALSE, shown |-> W]
       /\ rows[i].kind = "call" =>
            to = [calls |-> kept \cup {i}, answering |-> FALSE, shown |-> W]
       /\ rows[i].kind = "result" =>
            to = [calls |-> C, answering |-> TRUE, shown |-> W \cup (rows[i].of \cap C)]
  <2> HIDE DEF C, W, i
  <2> QED
    BY <1>16, StepByKind
<1>19. to = [calls |-> HeldCalls(T), answering |-> Answering(T), shown |-> Shown(T)]
  <2> HIDE DEF to
  <2> QED
    BY <1>5, <1>10, <1>11, <1>15, <1>17, <1>18 DEF Kinds
<1> QED
  BY <1>19 DEF x, P, Reached

LEMMA ReachedIsFolding ==
  ASSUME NEW n \in Nat, \A k \in 1..n : Kind(k) \in Kinds
  PROVE  Folding([T \in SUBSET (1..n) |-> Reached(T)], 1..n)
<1> DEFINE g == [T \in SUBSET (1..n) |-> Reached(T)]
           h == [s \in SUBSET (1..n) |-> IF s = {} THEN Blank
                          ELSE ReplayStep(g[s \ {Max(s)}], ReplayOrder[Max(s)])]
<1>1. Reached({}) = Blank
  <2>1. HeldCalls({}) = {} /\ Shown({}) = {} /\ Answering({}) = FALSE
    BY DEF HeldCalls, Shown, Answering
  <2> QED
    BY <2>1 DEF Reached, Blank
<1>2. ASSUME NEW T \in SUBSET (1..n) PROVE g[T] = h[T]
  <2>1. CASE T = {}
    BY <1>1, <2>1
  <2>2. CASE T # {}
    <3>1. g[T \ {Max(T)}] = Reached(T \ {Max(T)})
      OBVIOUS
    <3>2. h[T] = ReplayStep(g[T \ {Max(T)}], ReplayOrder[Max(T)])
      BY <2>2
    <3> QED
      BY <2>2, <3>1, <3>2, StepReaches
  <2> QED
    BY <2>1, <2>2
<1>3. g = h
  <2>1. DOMAIN g = SUBSET (1..n) /\ DOMAIN h = SUBSET (1..n)
    OBVIOUS
  <2> QED
    BY <1>2, <2>1
<1> QED
  BY <1>3 DEF Folding

\* Two such functions agree: a smallest set on which they differ would have a
\* largest position to take away.
LEMMA FoldingIsUnique ==
  ASSUME NEW n \in Nat, NEW g, NEW h, Folding(g, 1..n), Folding(h, 1..n)
  PROVE  g[1..n] = h[1..n]
<1> SUFFICES ASSUME g[1..n] # h[1..n] PROVE FALSE
  OBVIOUS
<1> DEFINE S == 1..n
           D == {s \in SUBSET S : g[s] # h[s]}
<1>1. IsFiniteSet(S)
  BY FS_Interval
<1>2. D \subseteq FiniteSubsetsOf(S) /\ D # {}
  BY <1>1, FS_FiniteSubsetsOfFinite
<1>3. IsWellFoundedOn(StrictSubsetOrdering(S), FiniteSubsetsOf(S))
  BY FS_StrictSubsetOrderingWellFounded
<1> HIDE DEF D
<1>4. PICK s \in D : \A t \in D : <<t, s>> \notin StrictSubsetOrdering(S)
  BY <1>2, <1>3, WFMin
<1> USE DEF D
<1>5. /\ g[s] = IF s = {} THEN Blank ELSE ReplayStep(g[s \ {Max(s)}], ReplayOrder[Max(s)])
      /\ h[s] = IF s = {} THEN Blank ELSE ReplayStep(h[s \ {Max(s)}], ReplayOrder[Max(s)])
  BY DEF Folding
<1>6. s # {} /\ g[s \ {Max(s)}] # h[s \ {Max(s)}]
  BY <1>5
<1>7. Max(s) \in s
  BY <1>6, MaxOfPart
<1>8. <<s \ {Max(s)}, s>> \in StrictSubsetOrdering(S)
  BY <1>7 DEF StrictSubsetOrdering
<1> QED
  BY <1>4, <1>6, <1>8

LEMMA AnsweredIsShown ==
  ASSUME rows \in Seq(RowType)
  PROVE  Answered = Shown(1..Cardinality(Visible))
<1> DEFINE n == Cardinality(Visible)
           f == [T \in SUBSET (1..n) |-> Reached(T)]
           g == CHOOSE g : Folding(g, 1..n)
<1>1. n \in Nat /\ \A k \in 1..n : Kind(k) \in Kinds
  BY ReplayIsInOrder, EarlierIsAnOrder DEF Kind, RowType
<1>2. DOMAIN ReplayOrder = 1..n
  BY DEF ReplayOrder
<1> HIDE DEF n
<1>3. Folding(f, 1..n)
  BY <1>1, ReachedIsFolding
<1>4. Folding(g, 1..n)
  BY <1>3
<1>5. Answered = g[1..n].shown
  BY <1>2 DEF Answered, FoldLeft, MapThenFoldSet, Folding, Blank
<1> HIDE DEF g
<1>6. f[1..n] = g[1..n]
  BY <1>1, <1>3, <1>4, FoldingIsUnique
<1>7. f[1..n].shown = Shown(1..n)
  BY DEF Reached
<1> QED
  BY <1>5, <1>6, <1>7 DEF n

\* A call's result is shown when between the two there is only its turn, and
\* results that follow it with no row of a turn behind them.
ShowsResult(c, i) ==
  /\ rows[c].kind = "call" /\ rows[i].kind = "result" /\ c \in rows[i].of
  /\ Earlier(c, i)
  /\ \A j \in Between(c, i) :
       /\ rows[j].kind \in {"text", "call", "result"}
       /\ rows[j].kind # "result" => \A m \in Between(c, j) : rows[m].kind # "result"

\* Which results the replay shows, said of the rows and without the fold.
THEOREM ReplayShows ==
  TypeOK => Answered = {c \in Visible : \E i \in Visible : ShowsResult(c, i)}
<1> SUFFICES ASSUME TypeOK
             PROVE  Answered = {c \in Visible : \E i \in Visible : ShowsResult(c, i)}
  OBVIOUS
<1> DEFINE n == Cardinality(Visible)
           O == ReplayOrder
           Order == 1..n
<1>1. rows \in Seq(RowType)
  BY DEF TypeOK, RowType
<1>2. /\ n \in Nat
      /\ \A k \in Order : O[k] \in Visible
      /\ \A i \in Visible : \E k \in Order : O[k] = i
      /\ \A k, m \in Order : Earlier(O[k], O[m]) <=> k < m
  BY <1>1, ReplayIsInOrder
<1>3. \A k \in Order : Kind(k) = rows[O[k]].kind
  BY DEF Kind
<1>4. \A c : c \in Answered <=>
               \E m \in Order : /\ Kind(m) = "result" /\ c \in rows[O[m]].of
                                /\ \E k \in Upto(Order, m) :
                                     /\ c = O[k] /\ Kind(k) = "call"
                                     /\ SameTurn(Upto(Order, m), k)
  <2>1. Answered = Shown(Order)
    BY <1>1, AnsweredIsShown
  <2>2. \A c : c \in Shown(Order) <=>
                 \E m \in Order : /\ Kind(m) = "result" /\ c \in rows[O[m]].of
                                  /\ c \in HeldCalls(Upto(Order, m))
    BY HeldMembers
  <2>3. \A m, c : c \in HeldCalls(Upto(Order, m)) <=>
                    \E k \in Upto(Order, m) : /\ c = O[k] /\ Kind(k) = "call"
                                              /\ SameTurn(Upto(Order, m), k)
    BY HeldMembers
  <2> HIDE DEF n, O
  <2> QED
    BY <2>1, <2>2, <2>3
<1> HIDE DEF n, O
<1>5. ASSUME NEW k \in Order, NEW m \in Order, k < m
      PROVE  SameTurn(Upto(Order, m), k) <=>
               \A j \in Between(O[k], O[m]) :
                 /\ rows[j].kind \in {"text", "call", "result"}
                 /\ rows[j].kind # "result" =>
                      \A l \in Between(O[k], j) : rows[l].kind # "result"
  <2>1. ASSUME NEW p \in Order, NEW q \in Order
        PROVE  \A l \in Order : O[l] \in Between(O[p], O[q]) <=> p < l /\ l < q
    BY <1>2 DEF Between
  <2>2. ASSUME NEW p \in Order, NEW q \in Order
        PROVE  \A j \in Between(O[p], O[q]) : \E l \in Order : j = O[l] /\ p < l /\ l < q
    BY <1>2, <2>1 DEF Between
  <2>3. ASSUME SameTurn(Upto(Order, m), k), NEW j \in Between(O[k], O[m])
        PROVE  /\ rows[j].kind \in {"text", "call", "result"}
               /\ rows[j].kind # "result" =>
                    \A l \in Between(O[k], j) : rows[l].kind # "result"
    <3>1. PICK q \in Order : j = O[q] /\ k < q /\ q < m
      BY <2>2
    <3>2. q \in Upto(Order, m) /\ Kind(q) = rows[j].kind
      BY <1>3, <3>1 DEF Upto
    <3>3. /\ Kind(q) \in {"text", "call", "result"}
          /\ Kind(q) # "result" =>
               \A l \in Upto(Order, m) : k < l /\ l < q => Kind(l) # "result"
      BY <2>3, <3>1, <3>2 DEF SameTurn
    <3>4. ASSUME NEW l \in Between(O[k], j), rows[l].kind = "result", Kind(q) # "result"
          PROVE  FALSE
      <4>1. PICK p \in Order : l = O[p] /\ k < p /\ p < q
        BY <2>2, <3>1
      <4>2. p \in Upto(Order, m)
        BY <1>2, <3>1, <4>1 DEF Upto
      <4> QED
        BY <1>3, <3>3, <3>4, <4>1, <4>2
    <3> QED
      BY <3>2, <3>3, <3>4
  <2>4. ASSUME \A j \in Between(O[k], O[m]) :
                 /\ rows[j].kind \in {"text", "call", "result"}
                 /\ rows[j].kind # "result" =>
                      \A l \in Between(O[k], j) : rows[l].kind # "result",
               NEW q \in Upto(Order, m), k < q
        PROVE  /\ Kind(q) \in {"text", "call", "result"}
               /\ Kind(q) # "result" =>
                    \A l \in Upto(Order, m) : k < l /\ l < q => Kind(l) # "result"
    <3>1. q \in Order /\ q < m
      BY DEF Upto
    <3>2. O[q] \in Between(O[k], O[m])
      BY <2>1, <2>4, <3>1
    <3>3. ASSUME NEW l \in Upto(Order, m), k < l, l < q PROVE O[l] \in Between(O[k], O[q])
      BY <2>1, <3>1, <3>3 DEF Upto
    <3> QED
      BY <1>3, <2>4, <3>1, <3>2, <3>3 DEF Upto
  <2> QED
    BY <2>3, <2>4 DEF SameTurn
<1>6. ASSUME NEW c
      PROVE  c \in Answered <=> c \in Visible /\ \E i \in Visible : ShowsResult(c, i)
  <2>1. ASSUME c \in Answered PROVE c \in Visible /\ \E i \in Visible : ShowsResult(c, i)
    <3>1. PICK m \in Order :
            /\ Kind(m) = "result" /\ c \in rows[O[m]].of
            /\ \E k \in Upto(Order, m) : /\ c = O[k] /\ Kind(k) = "call"
                                         /\ SameTurn(Upto(Order, m), k)
      BY <1>4, <2>1
    <3>2. PICK k \in Upto(Order, m) : /\ c = O[k] /\ Kind(k) = "call"
                                      /\ SameTurn(Upto(Order, m), k)
      BY <3>1
    <3>3. k \in Order /\ k < m
      BY DEF Upto
    <3>4. ShowsResult(c, O[m])
      BY <1>2, <1>3, <1>5, <3>1, <3>2, <3>3 DEF ShowsResult
    <3> QED
      BY <1>2, <3>2, <3>3, <3>4
  <2>2. ASSUME c \in Visible, NEW i \in Visible, ShowsResult(c, i) PROVE c \in Answered
    <3>1. PICK k \in Order : O[k] = c
      BY <1>2, <2>2
    <3>2. PICK m \in Order : O[m] = i
      BY <1>2, <2>2
    <3>3. k < m /\ k \in Upto(Order, m)
      BY <1>2, <2>2, <3>1, <3>2 DEF ShowsResult, Upto
    <3>4. SameTurn(Upto(Order, m), k)
      BY <1>5, <2>2, <3>1, <3>2, <3>3 DEF ShowsResult
    <3> QED
      BY <1>3, <1>4, <2>2, <3>1, <3>2, <3>3, <3>4 DEF ShowsResult
  <2> QED
    BY <2>1, <2>2
<1> QED
  BY <1>6

----------------------------------------------------------------------------
(* What a batch may part *)

\* Stamps stay below the clock, and those of rows that are no summary are even.
StampInv ==
  /\ clock % 2 = 0
  /\ \A i \in Ids : /\ rows[i].ts < clock
                    /\ rows[i].kind # "summary" => rows[i].ts % 2 = 0
  /\ \A r \in Requests : at[r] = "waiting" => begunAt[r] < clock /\ begunAt[r] % 2 = 0

\* A result is of one call, and the only one of it.
ResultInv ==
  /\ \A i \in Ids : rows[i].kind = "result" => \E c \in Ids : rows[i].of = {c}
  /\ \A i, j \in Ids : /\ rows[i].kind = "result" /\ rows[j].kind = "result"
                       /\ rows[i].of = rows[j].of
                       => i = j

\* No open row that a batch leaves out is older than one it has, but for user
\* turns that waited for the lock; and the trim has been over it.
OldestInv ==
  \A w \in Summarizers : runAt[w] = "asking" /\ home # "deleted" =>
    /\ \A i \in batch[w] : rows[i].kind # "summary"
    /\ \A i \in batch[w], j \in Open \ batch[w] :
         rows[j].kind = "user" \/ rows[i].ts <= rows[j].ts
    /\ Untrimmed(batch[w])

PlaceInv == StampInv /\ ResultInv /\ OldestInv

LEMMA InitPlaces == Init => PlaceInv
<1> SUFFICES ASSUME Init PROVE PlaceInv
  OBVIOUS
<1>1. Ids = {}
  BY DEF Init, Ids
<1> QED
  BY <1>1 DEF Init, PlaceInv, StampInv, ResultInv, OldestInv

\* What a step that inserts rows of turns adds: one user turn with the stamp of
\* a request that waited, an assistant turn with the clock's, or one result with
\* the clock's, of a call that had none.
Adds(new) ==
  \/ \E r \in Requests : /\ at[r] = "waiting" /\ new = <<Row("user", {}, begunAt[r])>>
                         /\ UNCHANGED clock
  \/ \E s \in Shapes : /\ new = [k \in DOMAIN s |-> Row(s[k], {}, clock)]
                       /\ clock' = clock + 2
  \/ \E c \in Ids : /\ ResultsOf(c) = {} /\ new = <<Row("result", {c}, clock)>>
                    /\ clock' = clock + 2

InsertsRows == \E new \in Seq(RowType) :
  /\ Adds(new) /\ Insert(new) /\ home = "live"
  /\ UNCHANGED <<home, runAt, batch, begunAt>>
  /\ \A r \in Requests : at'[r] = "waiting" => at[r] = "waiting"

LEMMA InsertSteps ==
  ASSUME IInv,
         \/ \E r \in Requests : CommitUserTurn(r) \/ RecordAssistantTurn(r)
         \/ \E c \in Ids : RecordToolResult(c)
  PROVE  InsertsRows
<1>1. rows \in Seq(RowType) /\ Ids \subseteq Nat
  BY OpenIsFinite DEF IInv, TypeOK, RowType, Ids
<1>2. ASSUME NEW r \in Requests, CommitUserTurn(r) PROVE InsertsRows
  <2> DEFINE new == <<Row("user", {}, begunAt[r])>>
  <2>1. new \in Seq(RowType)
    BY DEF IInv, TypeOK, RowType, Row, Kinds
  <2>2. Adds(new) /\ Insert(new)
    BY <1>2 DEF CommitUserTurn, Adds
  <2>3. \A q \in Requests : at'[q] = "waiting" => at[q] = "waiting"
    BY <1>2 DEF IInv, TypeOK, CommitUserTurn
  <2> HIDE DEF new
  <2> QED
    BY <1>2, <2>1, <2>2, <2>3 DEF CommitUserTurn, InsertsRows, run
<1>3. ASSUME NEW r \in Requests, RecordAssistantTurn(r) PROVE InsertsRows
  <2>1. PICK s \in Shapes : Insert([k \in DOMAIN s |-> Row(s[k], {}, clock)])
    BY <1>3 DEF RecordAssistantTurn
  <2> DEFINE new == [k \in DOMAIN s |-> Row(s[k], {}, clock)]
  <2>2. s \in Seq({"text", "call"})
    BY HistoryAssumption
  <2>3. Len(s) \in Nat /\ DOMAIN s = 1..Len(s) /\ \A k \in 1..Len(s) : s[k] \in {"text", "call"}
    BY <2>2, LenProperties, ElementOfSeq
  <2>4. new \in Seq(RowType)
    <3>1. \A k \in 1..Len(s) : Row(s[k], {}, clock) \in RowType
      BY <2>3 DEF IInv, TypeOK, RowType, Row, Kinds
    <3>2. new \in [1..Len(s) -> RowType]
      BY <2>3, <3>1
    <3> HIDE DEF new
    <3> QED
      BY <2>3, <3>2, FunctionsAreSequences
  <2>5. Adds(new) /\ Insert(new)
    BY <1>3, <2>1 DEF RecordAssistantTurn, Adds, Tick
  <2> HIDE DEF new
  <2> QED
    BY <1>3, <2>4, <2>5 DEF RecordAssistantTurn, InsertsRows, run
<1>4. ASSUME NEW c \in Ids, RecordToolResult(c) PROVE InsertsRows
  <2> DEFINE new == <<Row("result", {c}, clock)>>
  <2>1. new \in Seq(RowType)
    BY <1>1 DEF IInv, TypeOK, RowType, Row, Kinds
  <2>2. Adds(new) /\ Insert(new)
    BY <1>4 DEF RecordToolResult, Adds, Tick
  <2> HIDE DEF new
  <2> QED
    BY <1>4, <2>1, <2>2 DEF RecordToolResult, InsertsRows, run, request
<1> QED
  BY <1>2, <1>3, <1>4

\* A row that a step adds: a result has no rival and comes alone.
AddedRow(i) ==
  /\ rows'[i].kind \in {"user", "text", "call", "result"} /\ ~rows'[i].folded
  /\ rows'[i].ts % 2 = 0 /\ rows'[i].ts < clock'
  /\ rows'[i].kind # "user" => rows'[i].ts = clock
  /\ rows'[i].kind = "result" =>
       /\ Ids' \ Ids = {i}
       /\ \E c \in Ids : ResultsOf(c) = {} /\ rows'[i].of = {c}

LEMMA AddedRows ==
  ASSUME IInv, PlaceInv, InsertsRows
  PROVE  /\ Ids \subseteq Ids' /\ \A i \in Ids : rows'[i] = rows[i]
         /\ \A i \in Ids' \ Ids : AddedRow(i)
         /\ clock % 2 = 0 /\ clock' % 2 = 0 /\ clock <= clock'
<1>1. PICK new \in Seq(RowType) : Adds(new) /\ Insert(new)
  BY DEF InsertsRows
<1>2. rows \in Seq(RowType) /\ clock \in Nat /\ clock % 2 = 0 /\ begunAt \in [Requests -> Nat]
  BY DEF IInv, TypeOK, RowType, PlaceInv, StampInv
<1>3. Len(rows) \in Nat /\ Len(new) \in Nat
  BY <1>2, LenProperties
<1>4. /\ Len(rows') = Len(rows) + Len(new)
      /\ \A i \in 1..Len(rows) + Len(new) :
           rows'[i] = IF i <= Len(rows) THEN rows[i] ELSE new[i - Len(rows)]
  BY <1>1, <1>2, ConcatProperties DEF Insert
<1>5. Ids \subseteq Ids' /\ \A i \in Ids : rows'[i] = rows[i]
  BY <1>3, <1>4 DEF Ids
<1>6. \A i \in Ids' \ Ids : i - Len(rows) \in 1..Len(new) /\ rows'[i] = new[i - Len(rows)]
  BY <1>3, <1>4 DEF Ids
<1>7. clock' % 2 = 0 /\ clock <= clock'
  <2>1. clock' = clock \/ clock' = clock + 2
    BY <1>1 DEF Adds
  <2> QED
    BY <1>2, <2>1
<1>8. Len(new) = 1 => \A i, j \in Ids' \ Ids : i = j
  BY <1>3, <1>4 DEF Ids
<1>9. ASSUME NEW i \in Ids' \ Ids
      PROVE  AddedRow(i)
  <2> DEFINE k == i - Len(rows)
  <2>1. k \in 1..Len(new) /\ rows'[i] = new[k]
    BY <1>6
  <2> HIDE DEF k
  <2>2. ASSUME NEW r \in Requests, at[r] = "waiting", new = <<Row("user", {}, begunAt[r])>>,
               clock' = clock
        PROVE  AddedRow(i)
    <3>1. Len(new) = 1 /\ new[1] = Row("user", {}, begunAt[r])
      BY <2>2
    <3>2. rows'[i] = Row("user", {}, begunAt[r])
      BY <2>1, <3>1
    <3>3. begunAt[r] < clock /\ begunAt[r] % 2 = 0
      BY <2>2 DEF PlaceInv, StampInv
    <3> QED
      BY <2>2, <3>2, <3>3 DEF Row, AddedRow
  <2>3. ASSUME NEW s \in Shapes, new = [q \in DOMAIN s |-> Row(s[q], {}, clock)],
               clock' = clock + 2
        PROVE  AddedRow(i)
    <3>1. DOMAIN s = 1..Len(s) /\ (\A q \in 1..Len(s) : s[q] \in {"text", "call"}) /\ Len(s) \in Nat
      BY HistoryAssumption, LenProperties, ElementOfSeq
    <3>2. Len(new) = Len(s)
      BY <1>3, <2>3, <3>1, LenProperties
    <3>3. rows'[i] = Row(s[k], {}, clock) /\ s[k] \in {"text", "call"}
      BY <2>1, <2>3, <3>1, <3>2
    <3> QED
      BY <1>2, <2>3, <3>3 DEF Row, AddedRow
  <2>4. ASSUME NEW c \in Ids, ResultsOf(c) = {}, new = <<Row("result", {c}, clock)>>,
               clock' = clock + 2
        PROVE  AddedRow(i)
    <3>1. Len(new) = 1 /\ new[1] = Row("result", {c}, clock)
      BY <2>4
    <3>2. rows'[i] = Row("result", {c}, clock)
      BY <2>1, <3>1
    <3>3. Ids' \ Ids = {i}
      BY <1>8, <3>1
    <3> QED
      BY <1>2, <2>4, <3>2, <3>3 DEF Row, AddedRow
  <2> QED
    BY <1>1, <2>2, <2>3, <2>4 DEF Adds
<1> QED
  BY <1>2, <1>5, <1>7, <1>9

LEMMA InsertsKeepPlaces ==
  ASSUME IInv, PlaceInv, InsertsRows
  PROVE  PlaceInv'
<1>1. /\ Ids \subseteq Ids' /\ \A i \in Ids : rows'[i] = rows[i]
      /\ \A i \in Ids' \ Ids : AddedRow(i)
      /\ clock % 2 = 0 /\ clock' % 2 = 0 /\ clock <= clock'
  BY AddedRows
<1>2. /\ clock \in Nat /\ clock' \in Int /\ begunAt \in [Requests -> Nat]
      /\ \A i \in Ids : rows[i].ts \in Nat
  <2>1. clock' = clock \/ clock' = clock + 2
    BY DEF InsertsRows, Adds
  <2> QED
    BY <2>1, EarlierIsAnOrder DEF IInv, TypeOK, RowType
<1>3. StampInv'
  <2>1. ASSUME NEW i \in Ids' PROVE /\ rows'[i].ts < clock'
                                    /\ rows'[i].kind # "summary" => rows'[i].ts % 2 = 0
    <3>1. CASE i \in Ids
      BY <1>1, <1>2, <3>1 DEF PlaceInv, StampInv
    <3>2. CASE i \notin Ids
      BY <1>1, <3>2 DEF AddedRow
    <3> QED
      BY <3>1, <3>2
  <2>2. ASSUME NEW r \in Requests, at'[r] = "waiting"
        PROVE  begunAt'[r] < clock' /\ begunAt'[r] % 2 = 0
    BY <1>1, <1>2, <2>2 DEF InsertsRows, PlaceInv, StampInv
  <2> QED
    BY <1>1, <2>1, <2>2 DEF StampInv
<1>4. ResultInv'
  <2>1. ASSUME NEW i \in Ids', rows'[i].kind = "result" PROVE \E c \in Ids' : rows'[i].of = {c}
    BY <1>1, <2>1 DEF AddedRow, PlaceInv, ResultInv
  <2>2. ASSUME NEW i \in Ids' \ Ids, NEW j \in Ids, rows'[i].kind = "result",
               rows'[j].kind = "result", rows'[i].of = rows'[j].of
        PROVE  FALSE
    BY <1>1, <2>2 DEF AddedRow, ResultsOf
  <2>3. ASSUME NEW i \in Ids', NEW j \in Ids', rows'[i].kind = "result",
               rows'[j].kind = "result", rows'[i].of = rows'[j].of
        PROVE  i = j
    <3>1. CASE i \in Ids /\ j \in Ids
      BY <1>1, <2>3, <3>1 DEF PlaceInv, ResultInv
    <3>2. CASE i \notin Ids /\ j \notin Ids
      BY <1>1, <2>3, <3>2 DEF AddedRow
    <3> QED
      BY <2>2, <2>3, <3>1, <3>2
  <2> QED
    BY <2>1, <2>3 DEF ResultInv
<1>5. OldestInv'
  <2> SUFFICES ASSUME NEW w \in Summarizers, runAt'[w] = "asking", home' # "deleted"
               PROVE  /\ \A i \in batch'[w] : rows'[i].kind # "summary"
                      /\ \A i \in batch'[w], j \in Open' \ batch'[w] :
                           rows'[j].kind = "user" \/ rows'[i].ts <= rows'[j].ts
                      /\ Untrimmed(batch[w])'
    BY DEF OldestInv
  <2> DEFINE S == batch[w]
  <2>1. batch'[w] = S /\ runAt[w] = "asking" /\ home # "deleted"
    BY DEF InsertsRows
  <2>2. /\ S \subseteq Ids
        /\ \A i \in S : rows[i].kind # "summary"
        /\ \A i \in S, j \in Open \ S : rows[j].kind = "user" \/ rows[i].ts <= rows[j].ts
        /\ Untrimmed(S)
    BY <2>1 DEF IInv, BatchInv, PlaceInv, OldestInv
  <2> HIDE DEF S
  <2>3. ASSUME NEW i \in S, NEW j \in Open' \ S, rows'[j].kind # "user"
        PROVE  rows'[i].ts <= rows'[j].ts
    <3>1. CASE j \in Ids
      <4>1. j \in Open
        BY <1>1, <3>1 DEF Open
      <4> QED
        BY <1>1, <2>2, <2>3, <3>1, <4>1
    <3>2. CASE j \notin Ids
      <4>1. rows'[j].ts = clock
        BY <1>1, <2>3, <3>2 DEF AddedRow, Open
      <4>2. rows[i].ts < clock /\ rows[i].ts \in Nat
        BY <1>2, <2>2 DEF PlaceInv, StampInv
      <4> QED
        BY <1>1, <1>2, <2>2, <4>1, <4>2
    <3> QED
      BY <3>1, <3>2
  <2>4. PICK i \in S : /\ \A j \in S : rows[j].ts <= rows[i].ts
                       /\ rows[i].kind = "call" => ResultsOf(i) \cap S # {}
    BY <2>2 DEF Untrimmed
  <2>5. ResultsOf(i) \subseteq ResultsOf(i)'
    BY <1>1 DEF ResultsOf
  <2>6. Untrimmed(batch[w])'
    BY <1>1, <2>1, <2>2, <2>4, <2>5 DEF Untrimmed
  <2> QED
    BY <1>1, <2>1, <2>2, <2>3, <2>6
<1> QED
  BY <1>3, <1>4, <1>5 DEF PlaceInv

LEMMA FetchKeepsPlaces ==
  ASSUME IInv, PlaceInv, NEW w \in Summarizers, Fetch(w)
  PROVE  PlaceInv'
<1>1. PICK S \in OldestBatches : Untrimmed(S) /\ batch' = [batch EXCEPT ![w] = S]
  BY DEF Fetch
<1>2. UNCHANGED <<rows, home, clock, at, begunAt>>
  BY DEF Fetch, request
<1>3. Ids' = Ids /\ Open' = Open /\ \A i : ResultsOf(i)' = ResultsOf(i)
  BY <1>2 DEF Ids, Open, ResultsOf
<1>4. /\ \A i \in S : rows[i].kind # "summary"
      /\ \A i \in S, j \in Open \ S : rows[i].ts <= rows[j].ts
  BY DEF OldestBatches, Open
<1>5. \A T : Untrimmed(T) => Untrimmed(T)'
  BY <1>2, <1>3 DEF Untrimmed
<1>6. ASSUME NEW v \in Summarizers, runAt'[v] = "asking"
      PROVE  IF v = w THEN batch'[v] = S ELSE batch'[v] = batch[v] /\ runAt[v] = "asking"
  BY <1>1, <1>6 DEF Fetch, IInv, TypeOK
<1>7. StampInv' /\ ResultInv'
  BY <1>2, <1>3 DEF PlaceInv, StampInv, ResultInv
<1>8. OldestInv'
  <2> SUFFICES ASSUME NEW v \in Summarizers, runAt'[v] = "asking", home' # "deleted"
               PROVE  /\ \A i \in batch'[v] : rows'[i].kind # "summary"
                      /\ \A i \in batch'[v], j \in Open' \ batch'[v] :
                           rows'[j].kind = "user" \/ rows'[i].ts <= rows'[j].ts
                      /\ Untrimmed(batch[v])'
    BY DEF OldestInv
  <2>1. CASE v = w
    BY <1>1, <1>2, <1>3, <1>4, <1>6, <2>1 DEF Untrimmed
  <2>2. CASE v # w
    BY <1>2, <1>3, <1>6, <2>2 DEF Untrimmed, PlaceInv, OldestInv
  <2> QED
    BY <2>1, <2>2
<1> QED
  BY <1>7, <1>8 DEF PlaceInv

LEMMA ApplyKeepsPlaces ==
  ASSUME IInv, PlaceInv, NEW w \in Summarizers, Apply(w)
  PROVE  PlaceInv'
<1> DEFINE n == Len(rows) + 1
           S == batch[w]
<1>1. /\ Ids' = Ids \cup {n} /\ n \notin Ids /\ S \subseteq Ids
      /\ \A i \in Ids : /\ rows'[i].kind = rows[i].kind /\ rows'[i].of = rows[i].of
                        /\ rows'[i].ts = rows[i].ts
                        /\ rows'[i].folded = (i \in S \/ rows[i].folded)
      /\ rows'[n].kind = "summary" /\ rows'[n].ts = StampOf(S) + 1
  BY ApplyRows
<1>2. PICK m \in S : StampOf(S) = rows[m].ts
  BY ApplyRows
<1>3. UNCHANGED <<home, clock, at, begunAt>> /\ home = "live" /\ runAt[w] = "asking"
  BY DEF Apply, request, Current
<1>4. clock \in Nat /\ \A i \in Ids : rows[i].ts \in Nat
  BY EarlierIsAnOrder DEF IInv, TypeOK, RowType
<1> HIDE DEF n
<1>5. StampInv'
  <2>1. rows[m].ts < clock /\ rows[m].ts % 2 = 0 /\ clock % 2 = 0 /\ rows[m].ts \in Nat
    BY <1>1, <1>3, <1>4 DEF PlaceInv, StampInv, OldestInv
  <2>2. rows'[n].ts < clock
    BY <1>1, <1>2, <1>4, <2>1
  <2> QED
    BY <1>1, <1>3, <2>2 DEF PlaceInv, StampInv
<1>6. ResultInv'
  BY <1>1 DEF PlaceInv, ResultInv
<1>7. Open' \subseteq Open /\ \A i \in Ids : ResultsOf(i) \subseteq ResultsOf(i)'
  <2>1. Open' \subseteq Open
    BY <1>1 DEF Open
  <2> QED
    BY <1>1, <2>1 DEF ResultsOf
<1>8. OldestInv'
  <2> SUFFICES ASSUME NEW v \in Summarizers, runAt'[v] = "asking", home' # "deleted"
               PROVE  /\ \A i \in batch'[v] : rows'[i].kind # "summary"
                      /\ \A i \in batch'[v], j \in Open' \ batch'[v] :
                           rows'[j].kind = "user" \/ rows'[i].ts <= rows'[j].ts
                      /\ Untrimmed(batch[v])'
    BY DEF OldestInv
  <2> DEFINE T == batch[v]
  <2>1. batch'[v] = T /\ runAt[v] = "asking"
    BY DEF Apply, IInv, TypeOK
  <2>2. /\ T \subseteq Ids
        /\ \A i \in T : rows[i].kind # "summary"
        /\ \A i \in T, j \in Open \ T : rows[j].kind = "user" \/ rows[i].ts <= rows[j].ts
        /\ Untrimmed(T)
    BY <1>3, <2>1 DEF IInv, BatchInv, PlaceInv, OldestInv
  <2> HIDE DEF T
  <2>3. \A i \in Open' : i \in Ids
    BY <1>7 DEF Open
  <2>4. Untrimmed(batch[v])'
    BY <1>1, <1>7, <2>1, <2>2 DEF Untrimmed
  <2> QED
    BY <1>1, <1>7, <2>1, <2>2, <2>3, <2>4
<1> QED
  BY <1>5, <1>6, <1>8 DEF PlaceInv

LEMMA QuietStepsKeepPlaces ==
  ASSUME IInv, PlaceInv,
         \/ UNCHANGED vars
         \/ \E r \in Requests : BeginUserTurn(r) \/ RequestEnds(r) \/ Resume(r)
         \/ \E w \in Summarizers : Pick(w) \/ Skip(w) \/ ApplyFails(w)
         \/ Archive \/ Restore
  PROVE  PlaceInv'
<1>1. rows' = rows /\ (home # "deleted" \/ home' = home)
  BY DEF vars, BeginUserTurn, RequestEnds, Resume, Pick, Skip, ApplyFails, Archive, Restore
<1>2. Ids' = Ids /\ Open' = Open /\ \A i : ResultsOf(i)' = ResultsOf(i)
  BY <1>1 DEF Ids, Open, ResultsOf
<1>3. ASSUME NEW w \in Summarizers, runAt'[w] = "asking"
      PROVE  runAt[w] = "asking" /\ batch'[w] = batch[w]
  BY <1>3 DEF IInv, TypeOK, vars, run, request, BeginUserTurn, RequestEnds, Resume,
     Pick, Skip, ApplyFails, Archive, Restore
<1>4. home' # "deleted" => home # "deleted"
  BY DEF vars, BeginUserTurn, RequestEnds, Resume, Pick, Skip, ApplyFails, Archive, Restore
<1>5. ResultInv'
  BY <1>1, <1>2 DEF PlaceInv, ResultInv
<1>6. OldestInv'
  BY <1>1, <1>2, <1>3, <1>4 DEF PlaceInv, OldestInv, Untrimmed
<1>7. StampInv'
  <2>1. clock \in Nat /\ clock % 2 = 0 /\ (\A i \in Ids : rows[i].ts < clock /\ rows[i].ts \in Nat)
        /\ begunAt \in [Requests -> Nat] /\ at \in [Requests -> {"idle", "waiting", "running"}]
    BY EarlierIsAnOrder DEF IInv, TypeOK, RowType, PlaceInv, StampInv
  <2>2. ASSUME NEW r \in Requests, BeginUserTurn(r) PROVE StampInv'
    <3>1. clock' = clock + 2 /\ clock' % 2 = 0
      BY <2>1, <2>2 DEF BeginUserTurn, Tick
    <3>2. ASSUME NEW q \in Requests, at'[q] = "waiting"
          PROVE  begunAt'[q] < clock' /\ begunAt'[q] % 2 = 0
      <4>1. CASE q = r
        BY <2>1, <2>2, <3>1, <4>1 DEF BeginUserTurn
      <4>2. CASE q # r
        BY <2>1, <2>2, <3>1, <3>2, <4>2 DEF BeginUserTurn, PlaceInv, StampInv
      <4> QED
        BY <4>1, <4>2
    <3>3. \A i \in Ids : rows[i].ts < clock'
      BY <2>1, <3>1
    <3> QED
      BY <1>1, <1>2, <3>1, <3>2, <3>3 DEF PlaceInv, StampInv
  <2>3. CASE UNCHANGED <<clock, begunAt>> /\ \A r \in Requests : at'[r] = "waiting" => at[r] = "waiting"
    BY <1>1, <1>2, <2>3 DEF PlaceInv, StampInv
  <2>4. (\E r \in Requests : BeginUserTurn(r))
        \/ (UNCHANGED <<clock, begunAt>> /\ \A r \in Requests : at'[r] = "waiting" => at[r] = "waiting")
    BY <2>1 DEF vars, request, RequestEnds, Resume, Pick, Skip, ApplyFails, Archive, Restore
  <2> QED
    BY <2>2, <2>3, <2>4
<1> QED
  BY <1>5, <1>6, <1>7 DEF PlaceInv

LEMMA DeleteKeepsPlaces == ASSUME IInv, PlaceInv, Delete PROVE PlaceInv'
<1>1. Ids' = {} /\ home' = "deleted" /\ UNCHANGED <<clock, at, begunAt>>
  BY DEF Delete, Ids, request
<1> QED
  BY <1>1 DEF PlaceInv, StampInv, ResultInv, OldestInv

LEMMA NextKeepsPlaces == IInv /\ PlaceInv /\ [Next]_vars => PlaceInv'
<1> SUFFICES ASSUME IInv, PlaceInv, [Next]_vars PROVE PlaceInv'
  OBVIOUS
<1> QED
  BY QuietStepsKeepPlaces, InsertSteps, InsertsKeepPlaces, FetchKeepsPlaces,
     ApplyKeepsPlaces, DeleteKeepsPlaces DEF Next

LEMMA SpecImpliesPlaces == Spec => [](IInv /\ PlaceInv)
<1>1. Init => IInv /\ PlaceInv
  BY InitEstablishesIInv, InitPlaces
<1>2. IInv /\ PlaceInv /\ [Next]_vars => (IInv /\ PlaceInv)'
  BY NextKeepsIInv, NextKeepsPlaces
<1> QED
  BY <1>1, <1>2, PTL DEF Spec

----------------------------------------------------------------------------
(* Folds of a tidy history *)

LEMMA ReplayShowsNext ==
  (TypeOK => Answered = {c \in Visible : \E i \in Visible : ShowsResult(c, i)})'
BY ReplayShows, PTL

LEMMA OnlyAppliesFold ==
  ASSUME IInv, PlaceInv, [Next]_vars, Folds
  PROVE  \E w \in Summarizers : Apply(w)
<1> SUFFICES ASSUME \A w \in Summarizers : ~Apply(w) PROVE FALSE
  OBVIOUS
<1>1. rows \in Seq(RowType) /\ Len(rows) \in Nat
  BY LenProperties DEF IInv, TypeOK, RowType
<1>2. ASSUME InsertsRows PROVE FALSE
  <2>1. \A i \in Ids' \ Ids : rows'[i].kind # "summary"
    BY <1>2, AddedRows DEF AddedRow
  <2>2. Len(rows') \in Nat
    <3>1. PICK new \in Seq(RowType) : Insert(new)
      BY <1>2 DEF InsertsRows
    <3> QED
      BY <1>1, <3>1, ConcatProperties, LenProperties DEF Insert
  <2> QED
    BY <1>1, <2>1, <2>2 DEF Folds, Ids
<1>3. ~UNCHANGED rows
  BY <1>1 DEF Folds
<1>4. ~Delete
  BY <1>1 DEF Folds, Delete
<1> QED
  BY <1>2, <1>3, <1>4, InsertSteps DEF Next, vars, BeginUserTurn, RequestEnds, Resume,
     Pick, Fetch, Skip, ApplyFails, Archive, Restore

LEMMA TidyAppliesKeepResults ==
  ASSUME IInv, PlaceInv, TypeOK', NEW w \in Summarizers, Apply(w), Tidy
  PROVE  ResultsSurvive
<1> DEFINE S == batch[w]
<1>0. PICK n : n = Len(rows) + 1
  OBVIOUS
<1>1. /\ Ids' = Ids \cup {n} /\ n \notin Ids /\ S \subseteq Ids
      /\ \A i \in Ids : /\ rows'[i].kind = rows[i].kind /\ rows'[i].of = rows[i].of
                        /\ rows'[i].ts = rows[i].ts
                        /\ rows'[i].folded = (i \in S \/ rows[i].folded)
      /\ rows'[n].kind = "summary" /\ rows'[n].ts = StampOf(S) + 1
  BY <1>0, ApplyRows
<1>2. PICK p \in S : StampOf(S) = rows[p].ts
  BY ApplyRows
<1>3. /\ \A i \in S : ~rows[i].folded /\ rows[i].kind # "summary"
      /\ \A i \in S, j \in Open \ S : rows[j].kind = "user" \/ rows[i].ts <= rows[j].ts
      /\ Untrimmed(S)
  BY DEF Apply, Current, PlaceInv, OldestInv
<1>4. Len(rows) \in Nat /\ \A i \in Ids : rows[i].ts \in Nat /\ i \in Nat /\ i < n
  BY <1>0, EarlierIsAnOrder, LenProperties DEF IInv, TypeOK, RowType, Ids
<1>5. \A i \in Ids : rows[i].kind # "summary" => rows[i].ts % 2 = 0
  BY DEF PlaceInv, StampInv
<1> HIDE DEF S
<1> SUFFICES ASSUME NEW c \in Answered
             PROVE  c \in Answered' \/ \A i \in {c} \cup ResultsOf(c) : rows'[i].folded
  BY DEF ResultsSurvive
<1>6. PICK i \in Visible : c \in Visible /\ ShowsResult(c, i)
  BY ReplayShows DEF IInv
<1>7. /\ c \in Ids /\ i \in Ids /\ c \in Open /\ i \in Open
      /\ rows[c].kind = "call" /\ rows[i].kind = "result" /\ c \in rows[i].of
      /\ Earlier(c, i) /\ Between(c, i) = {}
  BY <1>6 DEF ShowsResult, Visible, Open, Tidy
<1>8. ResultsOf(c) = {i} /\ rows[i].of = {c}
  BY <1>7 DEF PlaceInv, ResultInv, ResultsOf
\* No row has a stamp between those of the two.
<1>9. \A q \in Visible : rows[c].ts <= rows[q].ts /\ rows[q].ts <= rows[i].ts => q = c \/ q = i
  <2> SUFFICES ASSUME NEW q \in Visible, rows[c].ts <= rows[q].ts, rows[q].ts <= rows[i].ts,
                      q # c, q # i
               PROVE  FALSE
    OBVIOUS
  <2>1. rows[c].ts # rows[q].ts /\ rows[q].ts # rows[i].ts
    BY <1>6 DEF Tidy
  <2>2. Earlier(c, q) /\ Earlier(q, i)
    BY <1>4, <1>7, <2>1 DEF Earlier, Visible
  <2> QED
    BY <1>7, <2>2 DEF Between
<1>10. S \subseteq Visible
  BY <1>1, <1>3 DEF Visible
<1>11. rows[c].ts <= rows[i].ts
  BY <1>4, <1>7 DEF Earlier
<1>12. CASE c \in S /\ i \in S
  BY <1>1, <1>7, <1>8, <1>12
\* The newest row of the batch is the call, which the trim would have cut.
<1>13. CASE c \in S /\ i \notin S
  <2>1. PICK m \in S : /\ \A j \in S : rows[j].ts <= rows[m].ts
                       /\ rows[m].kind = "call" => ResultsOf(m) \cap S # {}
    BY <1>3 DEF Untrimmed
  <2>2. rows[c].ts <= rows[m].ts /\ rows[m].ts <= rows[i].ts
    BY <1>3, <1>7, <1>13, <2>1
  <2>3. m = c
    BY <1>9, <1>10, <1>13, <2>1, <2>2
  <2> QED
    BY <1>7, <1>8, <1>13, <2>1, <2>3
\* The call would be older than its result, and the batch has the oldest rows.
<1>14. CASE c \notin S /\ i \in S
  <2>1. rows[i].ts <= rows[c].ts
    BY <1>3, <1>7, <1>14
  <2>2. rows[i].ts = rows[c].ts
    BY <1>4, <1>7, <1>11, <2>1
  <2> QED
    BY <1>6, <1>14, <2>2 DEF Tidy
\* Both stay, and the summary does not come between them.
<1>15. CASE c \notin S /\ i \notin S
  <2>1. Visible' = (Visible \ S) \cup {n}
    <3>1. ~rows'[n].folded
      BY <1>0, ApplyRows
    <3> QED
      BY <1>1, <3>1 DEF Visible
  <2>2. \A q \in Ids, r \in Ids : Earlier(q, r)' <=> Earlier(q, r)
    BY <1>1 DEF Earlier
  <2>3. ~(Earlier(c, n)' /\ Earlier(n, i)')
    <3> SUFFICES ASSUME Earlier(c, n)', Earlier(n, i)' PROVE FALSE
      OBVIOUS
    <3>1. rows'[n].ts = rows[p].ts + 1 /\ rows'[c].ts = rows[c].ts /\ rows'[i].ts = rows[i].ts
      BY <1>1, <1>2, <1>7
    <3>2. rows[p].ts % 2 = 0 /\ rows[c].ts % 2 = 0 /\ rows[p].ts \in Nat
          /\ rows[c].ts \in Nat /\ rows[i].ts \in Nat
      BY <1>1, <1>2, <1>3, <1>4, <1>5, <1>7
    <3>3. n \in Nat /\ c \in Nat /\ i \in Nat /\ i < n
      BY <1>0, <1>4, <1>7
    <3>4. rows[c].ts <= rows[p].ts + 1 /\ rows[p].ts + 1 <= rows[i].ts
      BY <3>1, <3>2, <3>3 DEF Earlier
    <3>5. rows[c].ts <= rows[p].ts /\ rows[p].ts <= rows[i].ts
      BY <3>2, <3>4
    <3> QED
      BY <1>2, <1>9, <1>10, <1>15, <3>5
  <2>4. Between(c, i)' = {}
    <3>1. ASSUME NEW q \in Between(c, i)' PROVE FALSE
      <4>1. q \in Visible' /\ Earlier(c, q)' /\ Earlier(q, i)'
        BY DEF Between
      <4>2. q \in Visible /\ q \in Ids
        BY <2>1, <2>3, <4>1 DEF Visible
      <4> QED
        BY <1>7, <2>2, <4>1, <4>2 DEF Between
    <3> QED
      BY <3>1
  <2>5. ShowsResult(c, i)'
    BY <1>1, <1>7, <2>2, <2>4 DEF ShowsResult
  <2>6. c \in Visible' /\ i \in Visible'
    BY <1>6, <1>15, <2>1
  <2> QED
    BY <2>5, <2>6, ReplayShowsNext
<1> QED
  BY <1>12, <1>13, <1>14, <1>15

\* INV-2, for every number of requests, of overlapping cron runs and of rows, and
\* every threshold: a fold of a history in which no rows tie and nothing stands
\* between a call and its result takes both of a pair or neither, and its summary
\* does not come between the two.
THEOREM TidyFoldsKeepResults == Spec => TidyFoldKeepsResults
<1>1. IInv /\ PlaceInv /\ TypeOK' /\ [Next]_vars => [(Folds /\ Tidy) => ResultsSurvive]_vars
  BY OnlyAppliesFold, TidyAppliesKeepResults
<1>2. IInv /\ [Next]_vars => TypeOK'
  BY NextKeepsIInv DEF IInv
<1> QED
  BY <1>1, <1>2, SpecImpliesPlaces, PTL DEF Spec, TidyFoldKeepsResults
=============================================================================
