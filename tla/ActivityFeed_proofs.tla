------------------------ MODULE ActivityFeed_proofs ------------------------
(***************************************************************************)
(* Proofs about ActivityFeed, for any entries, times and page sizes.       *)
(***************************************************************************)
EXTENDS ActivityFeed, FiniteSetTheorems, TLAPS

\* An entry that is live and was not touched since the first page.
Still == Live \ moved

\* Whether e is yet to come for a caller that has the cursor.
Ahead(e) == cursor = Nil \/ Precedes(cursor, RowOf(e))

\* A page is being put together.
InFlight == pc \in {"expenses", "splits", "settlements"} /\ serves = "feed"

\* Where a request can be, and that none is made for pages after the last.
Placed ==
    /\ pc \in {"index", "expenses", "settlements"} => serves = "feed"
    /\ pc = "answer" => serves # "feed"
    /\ pc # "rest" /\ serves = "feed" => ~done

\* The rows that were read are ahead of the cursor; those of entries that did
\* not move are as the ledger has them; and whatever is ahead and did not move
\* is among them, or comes after all of them on another page.
PageInv ==
    InFlight =>
        /\ \A r \in rows : cursor = Nil \/ Precedes(cursor, r)
        /\ \A r \in rows : r.id \notin moved => r.id \in Live /\ r = RowOf(r.id)
        /\ \A e \in Still : Ahead(e) =>
               \/ RowOf(e) \in rows
               \/ more /\ \A r \in rows : Precedes(r, RowOf(e))

\* The expenses of the page that did not move were found, and no others.
FoundInv ==
    InFlight /\ pc # "expenses" =>
        /\ DOMAIN found \subseteq InPage
        /\ \A e \in InPage \cap Expenses : e \notin moved => e \in DOMAIN found

\* Every row that can be read is one.
RowsTyped == \A e \in Live : RowOf(e) \in Row

Inv == TypeOK /\ RowsTyped /\ Placed /\ PageInv /\ FoundInv /\ PagesComplete

-----------------------------------------------------------------------------
(* The order of the feed is strict *)

LEMMA RowNumbers ==
    ASSUME NEW r \in Row
    PROVE  r.id \in Nat /\ r.at \in Nat /\ r.created \in Nat /\ r.id \in Entries
BY FeedAssumption DEF Row

LEMMA PrecedesStrict ==
    ASSUME NEW r \in Row, NEW q \in Row, NEW s \in Row
    PROVE  /\ ~Precedes(r, r)
           /\ Precedes(r, q) => ~Precedes(q, r)
           /\ Precedes(r, q) /\ Precedes(q, s) => Precedes(r, s)
BY RowNumbers DEF Precedes

LEMMA NilIsNoRow == Nil \notin Row
BY NilAssumption

-----------------------------------------------------------------------------
(* What is read for a page *)

LEMMA FollowingFinite == IsFiniteSet(Following(cursor))
<1> DEFINE F == {f \in Live : cursor = Nil \/ Precedes(cursor, RowOf(f))}
<1>1. IsFiniteSet(F)
  BY FS_Subset, FeedAssumption DEF Live
<1>2. IsFiniteSet({RowOf(e) : e \in F})
  <2> DEFINE T == {RowOf(e) : e \in F}
             f == [e \in F |-> RowOf(e)]
  <2>1. f \in [F -> T] /\ \A t \in T : \E e \in F : f[e] = t
    OBVIOUS
  <2>2. f \in Surjection(F, T)
    BY <2>1 DEF Surjection
  <2> QED
    BY <1>1, <2>2, FS_Surjection
<1> QED
  BY <1>2 DEF Following

\* A first part of at most n rows, of a set that has no more, is all of it.
LEMMA FirstIsAll ==
    ASSUME NEW R, IsFiniteSet(R), NEW kept \in SUBSET R, NEW n \in Nat,
           Cardinality(R) <= n, IsFirst(kept, R, n)
    PROVE  kept = R
<1>1. Cardinality(kept) <= Cardinality(R) /\ Cardinality(R) \in Nat /\ Cardinality(kept) \in Nat
  BY FS_Subset, FS_CardinalityType
<1>2. Cardinality(kept) = n => kept = R
  BY <1>1, FS_Subset
<1> QED
  BY <1>2 DEF IsFirst

-----------------------------------------------------------------------------
(* Each action keeps the invariant *)

LEMMA InitInv == Init => Inv
<1> SUFFICES ASSUME Init PROVE Inv
  OBVIOUS
<1>1. TypeOK
  <2>1. ledger \in [Entries -> [state : {"none", "live", "deleted"}, at : Ticks \cup {0},
                     created : Stamps \cup {0}, rev : 0..MaxRev, split : 0..MaxRev]]
    <3>1. 0 \in 0..MaxRev
      BY FeedAssumption
    <3> QED
      BY <3>1 DEF Init, Absent
  <2>2. limit \in 1..MaxLimit /\ failures \in 0..MaxFailures
    BY FeedAssumption DEF Init
  <2>3. DOMAIN found = {} /\ DOMAIN shares = {}
    BY DEF Init
  <2>4. count \in [Entries -> Nat]
    BY DEF Init
  <2> QED
    BY <2>1, <2>2, <2>3, <2>4 DEF Init, TypeOK
<1>2. RowsTyped
  BY DEF Init, RowsTyped, Live, RowOf, Row, Absent
<1>3. Placed /\ PageInv /\ FoundInv
  BY DEF Init, Placed, PageInv, FoundInv, InFlight
<1>4. PagesComplete
  BY DEF Init, PagesComplete, Passed
<1> QED
  BY <1>1, <1>2, <1>3, <1>4 DEF Inv

LEMMA AskInv ==
    ASSUME Inv, NEW n \in Asked, Ask(n)
    PROVE  Inv'
<1>1. PageSize(n) \in 1..MaxLimit
  BY FeedAssumption DEF PageSize
<1>2. TypeOK'
  BY <1>1 DEF Inv, TypeOK, Ask
<1>3. RowsTyped' /\ PagesComplete'
  BY DEF Inv, RowsTyped, PagesComplete, Passed, Precedes, RowOf, Live, Ask
<1>4. Placed' /\ PageInv' /\ FoundInv'
  BY DEF Inv, Placed, PageInv, FoundInv, InFlight, Ask
<1> QED
  BY <1>2, <1>3, <1>4 DEF Inv

LEMMA IndexInv ==
    ASSUME Inv, Index
    PROVE  Inv'
<1> DEFINE F == Following(cursor)
<1>1. PICK R \in SUBSET F, kept \in SUBSET F :
        /\ kept \subseteq R
        /\ IsFirst(R, F, limit + 1)
        /\ more' = (Cardinality(R) > limit)
        /\ IsFirst(kept, R, limit) /\ rows' = kept
  BY DEF Index
<1>2. UNCHANGED <<ledger, serves, limit, cursor, done, found, shares, count, moved, failures>>
      /\ pc = "index" /\ pc' = "expenses"
  BY DEF Index
<1>3. limit \in Nat
  BY DEF Inv, TypeOK
<1>4. IsFiniteSet(R) /\ Cardinality(R) \in Nat
  BY FollowingFinite, FS_Subset, FS_CardinalityType
<1>5. \A e \in Live : Ahead(e) => RowOf(e) \in F
  BY DEF Following, Ahead
<1>6. \A e \in Live : Ahead(e) =>
         RowOf(e) \in kept \/ (more' /\ \A r \in kept : Precedes(r, RowOf(e)))
  <2>1. CASE Cardinality(R) > limit
    BY <1>1, <1>5, <2>1 DEF IsFirst
  <2>2. CASE ~(Cardinality(R) > limit)
    <3>1. kept = R
      BY <1>1, <1>3, <1>4, <2>2, FirstIsAll
    <3>2. R = F
      BY <1>1, <1>3, <1>4, <2>2 DEF IsFirst
    <3> QED
      BY <1>5, <3>1, <3>2
  <2> QED
    BY <2>1, <2>2
<1>7. \A r \in kept : \E e \in Live : r = RowOf(e) /\ (cursor = Nil \/ Precedes(cursor, r))
  BY DEF Following
<1>8. \A r \in kept : r.id \in Live /\ r = RowOf(r.id)
  BY <1>7 DEF RowOf
<1>9. TypeOK'
  <2>1. rows' \subseteq Row
    BY <1>1, <1>7 DEF Inv, RowsTyped
  <2>2. more' \in BOOLEAN
    BY <1>1
  <2> QED
    BY <1>2, <2>1, <2>2 DEF Inv, TypeOK
<1>10. RowsTyped' /\ PagesComplete' /\ Placed'
  BY <1>2 DEF Inv, RowsTyped, PagesComplete, Placed, Passed, Precedes, RowOf, Live
<1>11. FoundInv'
  BY <1>2 DEF FoundInv
<1>12. PageInv'
  <2> HIDE DEF F
  <2>1. \A e \in Live : Ahead(e)' <=> Ahead(e)
    BY <1>2 DEF Ahead, Precedes, RowOf
  <2>2. Live' = Live /\ Still' = Still /\ \A e : RowOf(e)' = RowOf(e)
    BY <1>2 DEF Live, Still, RowOf
  <2>3. \A r \in rows' : cursor' = Nil \/ Precedes(cursor, r)'
    BY <1>1, <1>2, <1>7 DEF Precedes
  <2>4. \A r \in rows' : r.id \notin moved' => r.id \in Live' /\ r = RowOf(r.id)'
    BY <1>1, <1>8, <2>2
  <2>5. \A e \in Still' : Ahead(e)' =>
            RowOf(e)' \in rows' \/ (more' /\ \A r \in rows' : Precedes(r, RowOf(e))')
    BY <1>1, <1>6, <2>1, <2>2 DEF Still, Precedes
  <2> QED
    BY <1>2, <2>3, <2>4, <2>5 DEF PageInv
<1> QED
  BY <1>9, <1>10, <1>11, <1>12 DEF Inv

\* What an action must leave alone that neither finishes a page nor moves an entry.
LEMMA KeepsPage ==
    ASSUME Inv, TypeOK', Placed', FoundInv',
           UNCHANGED <<cursor, done, rows, more, count, moved>>,
           \A e \in Entries : /\ ledger'[e].state = ledger[e].state
                              /\ ledger'[e].at = ledger[e].at
                              /\ ledger'[e].created = ledger[e].created,
           InFlight' => InFlight
    PROVE  Inv'
<1>1. Live' = Live /\ Still' = Still
  BY DEF Live, Still
<1>2. \A e \in Entries : RowOf(e)' = RowOf(e)
  BY DEF RowOf
<1>3. RowsTyped'
  BY <1>1, <1>2 DEF Inv, RowsTyped, Live
<1>4. PagesComplete'
  BY <1>1, <1>2 DEF Inv, PagesComplete, Passed, Precedes
<1>5. PageInv'
  BY <1>1, <1>2 DEF Inv, PageInv, Ahead, Precedes, Still, Live, TypeOK, Row
<1> QED
  BY <1>3, <1>4, <1>5 DEF Inv

LEMMA FindExpensesInv ==
    ASSUME Inv, FindExpenses
    PROVE  Inv'
<1>1. DOMAIN found' = InPage \cap Expenses \cap Live
  BY DEF FindExpenses
<1>2. UNCHANGED <<ledger, serves, limit, cursor, done, rows, more, shares, count, moved, failures>>
      /\ pc = "expenses" /\ pc' \in {"settlements", "splits"}
  BY DEF FindExpenses
<1>3. TypeOK'
  BY <1>1, <1>2 DEF Inv, TypeOK
<1>4. Placed' /\ InFlight
  BY <1>2 DEF Inv, Placed, InFlight
<1>5. FoundInv'
  <2>1. \A e \in InPage : e \notin moved => e \in Live
    BY <1>4 DEF Inv, PageInv, InPage
  <2> QED
    BY <1>1, <1>2, <2>1 DEF FoundInv, InPage
<1> QED
  BY <1>2, <1>3, <1>4, <1>5, KeepsPage

LEMMA FindSplitsInv ==
    ASSUME Inv, FindSplits
    PROVE  Inv'
<1>1. DOMAIN shares' = DOMAIN found
  BY DEF FindSplits
<1>2. UNCHANGED <<ledger, serves, limit, cursor, done, rows, more, found, count, moved, failures>>
      /\ pc = "splits" /\ pc' = IF serves = "feed" THEN "settlements" ELSE "answer"
  BY DEF FindSplits
<1>3. TypeOK'
  BY <1>1, <1>2 DEF Inv, TypeOK
<1>4. Placed' /\ (InFlight' => InFlight)
  BY <1>2 DEF Inv, Placed, InFlight
<1>5. FoundInv'
  BY <1>2 DEF Inv, FoundInv, InPage, InFlight
<1> QED
  BY <1>2, <1>3, <1>4, <1>5, KeepsPage

\* Resting, a caller has no page.
LEMMA RestTyped ==
    ASSUME Rest
    PROVE  /\ pc' = "rest" /\ serves' = "feed" /\ limit' \in 1..MaxLimit
           /\ rows' = {} /\ more' = FALSE /\ DOMAIN found' = {} /\ DOMAIN shares' = {}
           /\ ~InFlight'
BY FeedAssumption DEF Rest, InFlight

LEMMA AnswerInv ==
    ASSUME Inv, Answer
    PROVE  Inv'
<1> DEFINE here == DOMAIN found \cup (InPage \cap Settlements \cap Live)
<1>1. /\ pc = "settlements" /\ serves = "feed" /\ InFlight /\ ~done
      /\ Rest /\ UNCHANGED <<ledger, moved, failures>>
      /\ count' = [e \in Entries |-> IF e \in here \ moved THEN count[e] + 1 ELSE count[e]]
  BY DEF Answer, Inv, Placed, InFlight
<1>2. CASE more
  <2>1. PICK last \in rows : IsLast(last, rows) /\ cursor' = last /\ done' = done
    BY <1>2 DEF Answer, Encode
  <2>2. last \in Row /\ cursor \in Row \cup {Nil} /\ rows \subseteq Row
    BY <2>1 DEF Inv, TypeOK
  <2>3. cursor' \in Row /\ cursor' # Nil
    BY <2>1, <2>2, NilIsNoRow
  <2>4. TypeOK'
    BY <1>1, <2>1, <2>3, RestTyped DEF Inv, TypeOK
  <2>5. \A e \in Entries \ moved :
            count'[e] = IF e \in Live /\ ~Precedes(last, RowOf(e)) THEN 1 ELSE 0
    <3> SUFFICES ASSUME NEW e \in Entries \ moved
                 PROVE  count'[e] = IF e \in Live /\ ~Precedes(last, RowOf(e)) THEN 1 ELSE 0
      OBVIOUS
    <3>1. count[e] = IF e \in Live /\ cursor # Nil /\ ~Precedes(cursor, RowOf(e)) THEN 1 ELSE 0
      BY <1>1 DEF Inv, PagesComplete, Passed
    <3>2. count'[e] = IF e \in here THEN count[e] + 1 ELSE count[e]
      BY <1>1
    <3>3. e \in here => e \in InPage
      BY <1>1 DEF Inv, FoundInv
    <3>4. e \in InPage => e \in Live /\ RowOf(e) \in rows
      BY <1>1 DEF Inv, PageInv, InPage
    <3>5. e \in InPage => e \in here
      BY <1>1, <3>4 DEF Inv, FoundInv, Entries
    <3>6. RowOf(e) \in rows => e \in InPage
      BY DEF RowOf, InPage
    <3>7. CASE e \notin Live
      BY <3>1, <3>2, <3>3, <3>4, <3>7
    <3>8. CASE e \in Live /\ RowOf(e) \in rows
      <4>1. cursor = Nil \/ Precedes(cursor, RowOf(e))
        BY <1>1, <3>8 DEF Inv, PageInv
      <4>2. ~Precedes(last, RowOf(e))
        <5>1. RowOf(e) = last \/ Precedes(RowOf(e), last)
          BY <2>1, <3>8 DEF IsLast
        <5> QED
          BY <2>2, <3>8, <5>1, PrecedesStrict
      <4> QED
        BY <3>1, <3>2, <3>5, <3>6, <3>8, <4>1, <4>2
    <3>9. CASE e \in Live /\ RowOf(e) \notin rows
      <4>1. e \notin here
        BY <3>3, <3>4, <3>9
      <4>2. CASE Ahead(e)
        <5>1. Precedes(last, RowOf(e))
          BY <1>1, <2>1, <3>9, <4>2 DEF Inv, PageInv, Still
        <5> QED
          BY <3>1, <3>2, <4>1, <4>2, <5>1 DEF Ahead
      <4>3. CASE ~Ahead(e)
        <5>1. cursor \in Row /\ ~Precedes(cursor, RowOf(e)) /\ RowOf(e) \in Row
          BY <2>2, <3>9, <4>3 DEF Ahead, Inv, RowsTyped
        <5>2. Precedes(cursor, last)
          BY <1>1, <2>1, <4>3 DEF Ahead, Inv, PageInv
        <5>3. ~Precedes(last, RowOf(e))
          BY <2>2, <5>1, <5>2, PrecedesStrict
        <5> QED
          BY <3>1, <3>2, <3>9, <4>1, <4>3, <5>3 DEF Ahead
      <4> QED
        BY <4>2, <4>3
    <3> QED
      BY <3>7, <3>8, <3>9
  <2>6. PagesComplete'
    <3> HIDE DEF here
    <3>1. Live' = Live /\ \A e \in Entries : RowOf(e)' = RowOf(e)
      BY <1>1 DEF Live, RowOf
    <3>2. \A e \in Entries : Passed(e)' <=> ~Precedes(last, RowOf(e))
      BY <1>1, <2>1, <2>3, <3>1 DEF Passed, Precedes
    <3> QED
      BY <1>1, <2>5, <3>1, <3>2 DEF PagesComplete
  <2>7. RowsTyped' /\ Placed' /\ PageInv' /\ FoundInv'
    BY <1>1, RestTyped DEF Inv, RowsTyped, Placed, PageInv, FoundInv, Live, RowOf
  <2> QED
    BY <2>4, <2>6, <2>7 DEF Inv
<1>3. CASE ~more
  <2>1. cursor' = cursor /\ done' = TRUE
    BY <1>3 DEF Answer
  <2>2. TypeOK'
    BY <1>1, <2>1, RestTyped DEF Inv, TypeOK
  <2>3. \A e \in Entries \ moved : count'[e] = IF e \in Live THEN 1 ELSE 0
    <3> SUFFICES ASSUME NEW e \in Entries \ moved
                 PROVE  count'[e] = IF e \in Live THEN 1 ELSE 0
      OBVIOUS
    <3>1. count[e] = IF e \in Live /\ cursor # Nil /\ ~Precedes(cursor, RowOf(e)) THEN 1 ELSE 0
      BY <1>1 DEF Inv, PagesComplete, Passed
    <3>2. count'[e] = IF e \in here THEN count[e] + 1 ELSE count[e]
      BY <1>1
    <3>3. e \in here => e \in InPage
      BY <1>1 DEF Inv, FoundInv
    <3>4. e \in InPage => e \in Live /\ RowOf(e) \in rows
      BY <1>1 DEF Inv, PageInv, InPage
    <3>5. e \in InPage => e \in here
      BY <1>1, <3>4 DEF Inv, FoundInv, Entries
    <3>6. e \in Live => (Ahead(e) <=> RowOf(e) \in rows)
      BY <1>1, <1>3 DEF Inv, PageInv, Still, Ahead
    <3>7. RowOf(e) \in rows => e \in InPage
      BY DEF RowOf, InPage
    <3> QED
      BY <3>1, <3>2, <3>3, <3>4, <3>5, <3>6, <3>7 DEF Ahead
  <2>4. PagesComplete'
    BY <1>1, <2>1, <2>3 DEF PagesComplete, Passed, Live
  <2>5. RowsTyped' /\ Placed' /\ PageInv' /\ FoundInv'
    BY <1>1, RestTyped DEF Inv, RowsTyped, Placed, PageInv, FoundInv, Live, RowOf
  <2> QED
    BY <2>2, <2>4, <2>5 DEF Inv
<1> QED
  BY <1>2, <1>3 DEF Inv, TypeOK

\* The list of expenses, one expense, and the end of both or of a failure.
LEMMA OtherReaderInv ==
    ASSUME Inv, ListExpenses \/ (\E e \in Entries : GetExpense(e)) \/ AnswerList \/ Fail
    PROVE  Inv'
<1>1. UNCHANGED <<ledger, cursor, done, count, moved>>
  BY DEF ListExpenses, GetExpense, AnswerList, Fail
<1>2. RowsTyped' /\ PagesComplete'
  BY <1>1 DEF Inv, RowsTyped, PagesComplete, Passed, Precedes, RowOf, Live
<1>3. CASE AnswerList \/ Fail
  <2>1. Rest /\ failures' \in 0..MaxFailures
    BY <1>3, FeedAssumption DEF AnswerList, Fail, Inv, TypeOK
  <2>2. TypeOK'
    BY <1>1, <2>1, RestTyped DEF Inv, TypeOK
  <2>3. Placed' /\ PageInv' /\ FoundInv'
    BY <2>1, RestTyped DEF Placed, PageInv, FoundInv
  <2> QED
    BY <1>2, <2>2, <2>3 DEF Inv
<1>4. CASE ListExpenses \/ \E e \in Entries : GetExpense(e)
  <2>1. /\ DOMAIN found' \subseteq Expenses /\ pc' \in {"answer", "splits"}
        /\ serves' \in {"list", "get"}
        /\ UNCHANGED <<limit, rows, more, shares, failures>>
    BY <1>4 DEF ListExpenses, GetExpense
  <2>2. TypeOK'
    BY <1>1, <2>1 DEF Inv, TypeOK
  <2>3. Placed' /\ PageInv' /\ FoundInv'
    BY <2>1 DEF Placed, PageInv, FoundInv, InFlight
  <2> QED
    BY <1>2, <2>2, <2>3 DEF Inv
<1> QED
  BY <1>3, <1>4

-----------------------------------------------------------------------------
(* What others do *)

\* An entry that moves, whatever becomes of it, is no longer spoken of.
LEMMA MovesInv ==
    ASSUME Inv, TypeOK', RowsTyped', NEW e \in Entries, Moves(e), UNCHANGED reader,
           \A f \in Entries \ {e} : ledger'[f] = ledger[f]
    PROVE  Inv'
<1>1. /\ moved' = moved \cup {e} /\ count' = [count EXCEPT ![e] = 0]
      /\ UNCHANGED <<pc, serves, cursor, done, rows, more, found>>
  BY DEF Moves, reader
<1>2. \A f \in Entries \ moved' :
        /\ f \in Entries \ moved /\ count'[f] = count[f]
        /\ (f \in Live') = (f \in Live) /\ RowOf(f)' = RowOf(f)
  BY <1>1 DEF Live, RowOf, Inv, TypeOK
<1>3. Still' \subseteq Still /\ \A f \in Still' : RowOf(f)' = RowOf(f)
  BY <1>2 DEF Still, Live
<1>4. PagesComplete'
  BY <1>1, <1>2 DEF Inv, PagesComplete, Passed, Precedes
<1>5. Placed'
  BY <1>1 DEF Inv, Placed
<1>6. PageInv'
  <2> SUFFICES ASSUME InFlight'
               PROVE  /\ \A r \in rows' : cursor' = Nil \/ Precedes(cursor, r)'
                      /\ \A r \in rows' : r.id \notin moved' => r.id \in Live' /\ r = RowOf(r.id)'
                      /\ \A f \in Still' : Ahead(f)' =>
                             \/ RowOf(f)' \in rows'
                             \/ more' /\ \A r \in rows' : Precedes(r, RowOf(f))'
    BY DEF PageInv
  <2>1. InFlight
    BY <1>1 DEF InFlight
  <2>2. \A r \in rows' : cursor' = Nil \/ Precedes(cursor, r)'
    BY <1>1, <2>1 DEF Inv, PageInv, Precedes
  <2>3. \A r \in rows' : r.id \notin moved' => r.id \in Live' /\ r = RowOf(r.id)'
    BY <1>1, <1>2, <2>1 DEF Inv, PageInv, Live
  <2>4. \A f \in Still' : Ahead(f)' => Ahead(f)
    BY <1>1, <1>3 DEF Ahead, Precedes
  <2>5. \A f \in Still' : Ahead(f)' =>
            RowOf(f)' \in rows' \/ (more' /\ \A r \in rows' : Precedes(r, RowOf(f))')
    BY <1>1, <1>3, <2>1, <2>4 DEF Inv, PageInv, Precedes
  <2> QED
    BY <2>2, <2>3, <2>5
<1>7. FoundInv'
  BY <1>1 DEF Inv, FoundInv, InFlight, InPage
<1> QED
  BY <1>4, <1>5, <1>6, <1>7 DEF Inv

\* One value of the ledger.
Entry == [state : {"none", "live", "deleted"}, at : Ticks \cup {0},
          created : Stamps \cup {0}, rev : 0..MaxRev, split : 0..MaxRev]

\* The ledger after one entry got a value, which is a row if it is live.
LEMMA PutTyped ==
    ASSUME Inv, NEW e \in Entries, NEW v \in Entry, ledger' = [ledger EXCEPT ![e] = v],
           v.state = "live" => v.at \in Ticks /\ v.created \in Stamps
    PROVE  /\ ledger' \in [Entries -> Entry]
           /\ RowsTyped'
           /\ \A f \in Entries \ {e} : ledger'[f] = ledger[f]
           /\ ledger'[e] = v
<1>1. ledger \in [Entries -> Entry]
  BY DEF Inv, TypeOK, Entry
<1>2. ledger' \in [Entries -> Entry] /\ ledger'[e] = v /\ \A f \in Entries \ {e} : ledger'[f] = ledger[f]
  BY <1>1
<1>3. RowsTyped'
  <2> SUFFICES ASSUME NEW f \in Live' PROVE RowOf(f)' \in Row
    BY DEF RowsTyped
  <2>1. f \in Entries /\ ledger'[f].state = "live"
    BY DEF Live
  <2>2. CASE f = e
    BY <1>2, <2>1, <2>2 DEF RowOf, Row
  <2>3. CASE f # e
    <3>1. f \in Live /\ RowOf(f)' = RowOf(f)
      BY <1>2, <2>1, <2>3 DEF Live, RowOf
    <3> QED
      BY <3>1 DEF Inv, RowsTyped
  <2> QED
    BY <2>2, <2>3
<1> QED
  BY <1>2, <1>3

\* A live entry has times.
LEMMA LiveTimes ==
    ASSUME Inv, NEW e \in Live
    PROVE  ledger[e].at \in Ticks /\ ledger[e].created \in Stamps
<1>1. RowOf(e) \in Row
  BY DEF Inv, RowsTyped
<1> QED
  BY <1>1 DEF RowOf, Row

LEMMA OthersInv ==
    ASSUME Inv, NEW e \in Entries,
           \/ \E at \in Ticks : Redate(e, at) \/ \E created \in Stamps : Enter(e, at, created)
           \/ Remove(e)
    PROVE  Inv'
<1>1. ledger[e] \in Entry /\ 0 \in 0..MaxRev
  BY FeedAssumption DEF Inv, TypeOK, Entry
<1>2. \E v \in Entry : /\ ledger' = [ledger EXCEPT ![e] = v]
                       /\ v.state = "live" => v.at \in Ticks /\ v.created \in Stamps
  <2>1. ASSUME NEW at \in Ticks, Redate(e, at)
        PROVE  \E v \in Entry : /\ ledger' = [ledger EXCEPT ![e] = v]
                                /\ v.state = "live" => v.at \in Ticks /\ v.created \in Stamps
    <3> DEFINE v == [ledger[e] EXCEPT !.at = at]
    <3>1. v \in Entry /\ v.at = at /\ v.created = ledger[e].created
      BY <1>1 DEF Entry
    <3>2. e \in Live
      BY <2>1 DEF Redate
    <3>3. ledger' = [ledger EXCEPT ![e] = v]
      BY <2>1 DEF Redate
    <3> HIDE DEF v
    <3> QED
      BY <3>1, <3>2, <3>3, LiveTimes
  <2>2. ASSUME NEW at \in Ticks, NEW created \in Stamps, Enter(e, at, created)
        PROVE  \E v \in Entry : /\ ledger' = [ledger EXCEPT ![e] = v]
                                /\ v.state = "live" => v.at \in Ticks /\ v.created \in Stamps
    <3> DEFINE v == [state |-> "live", at |-> at, created |-> created, rev |-> 0, split |-> 0]
    <3>1. v \in Entry /\ v.at = at /\ v.created = created
      BY <1>1 DEF Entry
    <3>2. ledger' = [ledger EXCEPT ![e] = v]
      BY <2>2 DEF Enter
    <3> HIDE DEF v
    <3> QED
      BY <3>1, <3>2
  <2>3. ASSUME Remove(e)
        PROVE  \E v \in Entry : /\ ledger' = [ledger EXCEPT ![e] = v]
                                /\ v.state = "live" => v.at \in Ticks /\ v.created \in Stamps
    <3> DEFINE v == [Absent EXCEPT !.state = "deleted", !.rev = ledger[e].rev,
                                   !.split = ledger[e].split]
    <3>1. v \in Entry /\ v.state = "deleted"
      BY <1>1 DEF Entry, Absent
    <3>2. ledger' = [ledger EXCEPT ![e] = v]
      BY <2>3 DEF Remove
    <3> HIDE DEF v
    <3> QED
      BY <3>1, <3>2
  <2> QED
    BY <2>1, <2>2, <2>3
<1>3. Moves(e) /\ UNCHANGED reader
  BY DEF Redate, Enter, Remove
<1>4. /\ ledger' \in [Entries -> Entry] /\ RowsTyped'
      /\ \A f \in Entries \ {e} : ledger'[f] = ledger[f]
  BY <1>2, PutTyped
<1>5. TypeOK'
  BY <1>3, <1>4 DEF Inv, TypeOK, Moves, reader, Entry
<1> QED
  BY <1>3, <1>4, <1>5, MovesInv

LEMMA ReviseInv ==
    ASSUME Inv, NEW e \in Entries, Revise(e)
    PROVE  Inv'
<1> DEFINE v == [ledger[e] EXCEPT !.rev = ledger[e].rev + 1, !.split = ledger[e].rev + 1]
<1>1. ledger[e] \in Entry /\ ledger[e].rev < MaxRev /\ e \in Live
  BY DEF Inv, TypeOK, Entry, Revise
<1>2. v \in Entry /\ v.state = ledger[e].state /\ v.at = ledger[e].at /\ v.created = ledger[e].created
  <2>1. ledger[e].rev + 1 \in 0..MaxRev
    BY <1>1, FeedAssumption DEF Entry
  <2> QED
    BY <1>1, <2>1 DEF Entry
<1>3. ledger' = [ledger EXCEPT ![e] = v] /\ UNCHANGED <<reader, count, moved>>
  BY DEF Revise
<1> HIDE DEF v
<1>4. /\ ledger' \in [Entries -> Entry]
      /\ \A f \in Entries \ {e} : ledger'[f] = ledger[f]
      /\ ledger'[e] = v
  BY <1>1, <1>2, <1>3, LiveTimes, PutTyped
<1>5. \A f \in Entries : /\ ledger'[f].state = ledger[f].state
                         /\ ledger'[f].at = ledger[f].at
                         /\ ledger'[f].created = ledger[f].created
  BY <1>2, <1>4
<1>6. TypeOK'
  BY <1>3, <1>4 DEF Inv, TypeOK, reader, Entry
<1>7. Placed' /\ FoundInv' /\ (InFlight' => InFlight)
  BY <1>3 DEF Inv, Placed, FoundInv, InFlight, InPage, reader
<1> QED
  BY <1>3, <1>5, <1>6, <1>7, KeepsPage DEF reader

-----------------------------------------------------------------------------
(* The invariant, and what follows from it *)

LEMMA NextInv ==
    ASSUME Inv, [Next]_vars
    PROVE  Inv'
<1>1. CASE \E n \in Asked : Ask(n)
  BY <1>1, AskInv
<1>2. CASE Step
  BY <1>2, IndexInv, FindExpensesInv, FindSplitsInv, AnswerInv, OtherReaderInv DEF Step
<1>3. CASE ListExpenses \/ (\E e \in Entries : GetExpense(e)) \/ Fail
  BY <1>3, OtherReaderInv
<1>4. CASE \E e \in Entries : \/ \E at \in Ticks : \/ Redate(e, at)
                                                  \/ \E created \in Stamps : Enter(e, at, created)
                              \/ Remove(e)
  BY <1>4, OthersInv
<1>5. CASE \E e \in Entries : Revise(e)
  BY <1>5, ReviseInv
<1>6. CASE UNCHANGED vars
  BY <1>6 DEF vars, reader, Inv, TypeOK, RowsTyped, Placed, PageInv, FoundInv, PagesComplete,
              Passed, Precedes, RowOf, Live, Still, Ahead, InFlight, InPage
<1> QED
  BY <1>1, <1>2, <1>3, <1>4, <1>5, <1>6 DEF Next

\* The inductive invariant holds in every reachable state of the feed.
THEOREM Invariance == Spec => []Inv
BY InitInv, NextInv, PTL DEF Spec

\* Every value has its type, whatever the entries, their times and the sizes of pages.
THEOREM Typed == Spec => []TypeOK
<1>1. Inv => TypeOK
  BY DEF Inv
<1> QED
  BY Invariance, <1>1, PTL

\* The pages a caller was given hold each entry up to the cursor once, unless it
\* was itself added, re-dated or deleted since the first page (ActivityService.List).
THEOREM PagesAreComplete == Spec => []PagesComplete
<1>1. Inv => PagesComplete
  BY DEF Inv
<1> QED
  BY Invariance, <1>1, PTL

-----------------------------------------------------------------------------
(* What is shown of an expense is of one revision, or is superseded *)

\* An entry that was seen stays in the ledger, be it deleted.
Seen(e) == e \in Entries /\ ledger[e].state # "none"

\* A live expense has the splits of its row; the row that was found is not newer
\* than the splits that will be read, and those are not newer than the ledger's.
Superseded ==
    /\ \A e \in Live : ledger[e].split = ledger[e].rev
    /\ pc = "splits" =>
          \A e \in DOMAIN found : Seen(e) /\ found[e] \in Nat /\ found[e] <= ledger[e].split
    /\ pc \in {"settlements", "answer"} =>
          \A e \in DOMAIN found : /\ Seen(e) /\ found[e] \in Nat /\ shares[e] \in Nat
                                  /\ found[e] <= shares[e] /\ shares[e] <= ledger[e].split

LEMMA Revisions ==
    ASSUME TypeOK, NEW e \in Entries
    PROVE  ledger[e].rev \in Nat /\ ledger[e].split \in Nat
BY FeedAssumption DEF TypeOK

\* What was found of entries that only grow older is not newer than they are.
LEMMA OlderStays ==
    ASSUME TypeOK, TypeOK', Superseded, UNCHANGED reader,
           \A e \in Live' : ledger'[e].split = ledger'[e].rev,
           \A e \in Entries : Seen(e) => Seen(e)' /\ ledger[e].split <= ledger'[e].split
    PROVE  Superseded'
<1>1. UNCHANGED <<pc, found, shares>>
  BY DEF reader
<1>2. \A e \in Entries : ledger[e].split \in Nat /\ ledger'[e].split \in Nat
  BY FeedAssumption DEF TypeOK
<1>3. ASSUME pc = "splits", NEW e \in DOMAIN found
      PROVE  Seen(e)' /\ found[e] \in Nat /\ found[e] <= ledger'[e].split
  <2>1. e \in Entries /\ Seen(e) /\ found[e] \in Nat /\ found[e] <= ledger[e].split
    BY <1>3 DEF Superseded, Seen
  <2> QED
    BY <1>2, <2>1
<1>4. ASSUME pc \in {"settlements", "answer"}, NEW e \in DOMAIN found
      PROVE  /\ Seen(e)' /\ found[e] \in Nat /\ shares[e] \in Nat
             /\ found[e] <= shares[e] /\ shares[e] <= ledger'[e].split
  <2>1. /\ e \in Entries /\ Seen(e) /\ found[e] \in Nat /\ shares[e] \in Nat
        /\ found[e] <= shares[e] /\ shares[e] <= ledger[e].split
    BY <1>4 DEF Superseded, Seen
  <2> QED
    BY <1>2, <2>1
<1> QED
  BY <1>1, <1>3, <1>4 DEF Superseded

LEMMA InitSuperseded == Init => Superseded
BY DEF Init, Superseded, Live, Absent

LEMMA FoundSuperseded ==
    ASSUME TypeOK, Superseded, UNCHANGED ledger, NEW S \in SUBSET (Expenses \cap Live),
           found' = [e \in S |-> ledger[e].rev],
           pc' \in {"splits", "settlements", "answer"}, pc' # "splits" => S = {}
    PROVE  Superseded'
<1>1. \A e \in S : Seen(e) /\ found'[e] \in Nat /\ found'[e] <= ledger[e].split
  BY Revisions DEF Superseded, Live, Seen
<1> QED
  BY <1>1 DEF Superseded, Live, Seen

LEMMA ReaderSuperseded ==
    ASSUME TypeOK, Superseded,
           \/ \E n \in Asked : Ask(n)
           \/ ListExpenses
           \/ \E e \in Entries : GetExpense(e)
           \/ Step
           \/ Fail
    PROVE  Superseded'
<1>1. UNCHANGED ledger
  BY DEF Ask, ListExpenses, GetExpense, Step, Index, FindExpenses, FindSplits, Answer,
         AnswerList, Fail
<1>2. CASE pc' \notin {"splits", "settlements", "answer"}
  BY <1>1, <1>2 DEF Superseded, Live, Seen
<1>3. CASE FindExpenses
  BY <1>1, <1>3, FoundSuperseded DEF FindExpenses
<1>4. CASE ListExpenses
  BY <1>1, <1>4, FoundSuperseded DEF ListExpenses
<1>5. CASE \E e \in Entries : GetExpense(e)
  <2>1. PICK e \in Entries : GetExpense(e)
    BY <1>5
  <2>2. {e} \subseteq Expenses \cap Live /\ found' = [f \in {e} |-> ledger[f].rev] /\ pc' = "splits"
    BY <2>1 DEF GetExpense
  <2> QED
    BY <1>1, <2>2, FoundSuperseded
<1>6. CASE FindSplits
  <2>1. /\ pc = "splits" /\ pc' \in {"settlements", "answer"} /\ found' = found
        /\ shares' = [e \in DOMAIN found |-> ledger[e].split]
    BY <1>6 DEF FindSplits
  <2>2. \A e \in DOMAIN found : /\ Seen(e) /\ found[e] \in Nat /\ shares'[e] \in Nat
                                /\ found[e] <= shares'[e] /\ shares'[e] <= ledger[e].split
    BY <2>1, Revisions DEF Superseded, Seen
  <2> QED
    BY <1>1, <2>1, <2>2 DEF Superseded, Live, Seen
<1>7. CASE (\E n \in Asked : Ask(n)) \/ Index \/ Answer \/ AnswerList \/ Fail
  BY <1>2, <1>7 DEF Ask, Index, Answer, AnswerList, Fail, Rest
<1> QED
  BY <1>3, <1>4, <1>5, <1>6, <1>7 DEF Step

LEMMA LedgerSuperseded ==
    ASSUME TypeOK, TypeOK', Superseded, NEW e \in Entries,
           \/ \E at \in Ticks : Redate(e, at) \/ \E created \in Stamps : Enter(e, at, created)
           \/ Revise(e)
           \/ Remove(e)
    PROVE  Superseded'
<1>1. UNCHANGED reader
  BY DEF Redate, Enter, Revise, Remove
<1>2. ledger[e].rev \in Nat /\ ledger[e].split \in Nat /\ e \in DOMAIN ledger
  BY Revisions DEF TypeOK
<1>3. \A f \in Entries \ {e} : ledger'[f] = ledger[f]
  BY DEF Redate, Enter, Revise, Remove, TypeOK
<1>4. /\ ledger'[e].state = "live" => ledger'[e].split = ledger'[e].rev
      /\ ledger[e].state # "none" => /\ ledger'[e].state # "none"
                                     /\ ledger[e].split <= ledger'[e].split
  <2>1. CASE \E at \in Ticks : Redate(e, at)
    BY <1>2, <2>1 DEF Redate, Superseded, Live, TypeOK
  <2>2. CASE \E at \in Ticks, created \in Stamps : Enter(e, at, created)
    BY <1>2, <2>2 DEF Enter, TypeOK
  <2>3. CASE Revise(e)
    <3>1. e \in Live /\ ledger[e].split = ledger[e].rev
      BY <2>3 DEF Revise, Superseded
    <3>2. ledger' = [ledger EXCEPT ![e] = [ledger[e] EXCEPT !.rev = ledger[e].rev + 1,
                                                            !.split = ledger[e].rev + 1]]
      BY <2>3 DEF Revise
    <3>3. ledger[e] \in Entry
      BY DEF TypeOK, Entry
    <3>4. /\ ledger'[e].state = ledger[e].state
          /\ ledger'[e].rev = ledger[e].rev + 1 /\ ledger'[e].split = ledger[e].rev + 1
      BY <1>2, <3>2, <3>3 DEF Entry
    <3> QED
      BY <1>2, <3>1, <3>4
  <2>4. CASE Remove(e)
    <3>1. ledger' = [ledger EXCEPT ![e] = [Absent EXCEPT !.state = "deleted",
                                           !.rev = ledger[e].rev, !.split = ledger[e].split]]
      BY <2>4 DEF Remove
    <3>2. ledger'[e].state = "deleted" /\ ledger'[e].split = ledger[e].split
      BY <1>2, <3>1 DEF Absent
    <3> QED
      BY <1>2, <3>2
  <2> QED
    BY <2>1, <2>2, <2>3, <2>4
<1>5. \A f \in Live' : ledger'[f].split = ledger'[f].rev
  BY <1>3, <1>4 DEF Superseded, Live
<1>6. \A f \in Entries : Seen(f) => Seen(f)' /\ ledger[f].split <= ledger'[f].split
  BY <1>3, <1>4, Revisions DEF Seen
<1> QED
  BY <1>1, <1>5, <1>6, OlderStays

\* Whatever is edited between reading an expense and reading its splits, the splits
\* that are shown with it are not older than it, and the ledger has them or newer
\* ones (ExpenseRepo.FindByIDs, FindByID and ListByGroup).
THEOREM TornEnds == Spec => []TornIsSuperseded
<1>1. Init => Superseded
  BY InitSuperseded
<1>2. TypeOK /\ TypeOK' /\ Superseded /\ [Next]_vars => Superseded'
  <2> SUFFICES ASSUME TypeOK, TypeOK', Superseded, [Next]_vars PROVE Superseded'
    OBVIOUS
  <2>1. CASE UNCHANGED vars
    BY <2>1 DEF vars, reader, Superseded, Live, Seen
  <2>2. CASE \E e \in Entries : \/ \E at \in Ticks : \/ Redate(e, at)
                                                    \/ \E created \in Stamps : Enter(e, at, created)
                                \/ Revise(e) \/ Remove(e)
    BY <2>2, LedgerSuperseded
  <2> QED
    BY <2>1, <2>2, ReaderSuperseded DEF Next
<1>3. Superseded => TornIsSuperseded
  BY DEF Superseded, TornIsSuperseded
<1> QED
  BY Typed, <1>1, <1>2, <1>3, PTL DEF Spec
=============================================================================
