-------------------------- MODULE JobOutbox_proofs --------------------------
(***************************************************************************)
(* Proofs about JobOutbox, for any aggregates, publishers, batch size,     *)
(* lease and bounds.                                                       *)
(***************************************************************************)
EXTENDS JobOutbox, SequenceTheorems, FiniteSetTheorems, TLAPS

-----------------------------------------------------------------------------
(* The inductive invariant.                                                *)

Elements(s) == {s[k] : k \in DOMAIN s}

Claims(p) == Elements(publishers[p])

\* A list names a row once.
RowsDiffer(s) == \A k, l \in DOMAIN s : s[k].row = s[l].row => k = l

\* No publisher has a row twice in its batch.
RowsOnce == \A p \in Publishers : RowsDiffer(publishers[p])

\* A claim was handed out by its row, and a dispatched one has sent its message.
ClaimsHandedOut ==
    \A p \in Publishers : \A c \in Claims(p) :
        /\ c.row \in DOMAIN outbox
        /\ c.attempt \in 1..outbox[c.row].attempt
        /\ c.dispatched => outbox[c.row].sent > 0

\* The claims that publishers have on a row are different attempts.
ClaimsApart ==
    \A p, q \in Publishers : \A c \in Claims(p), d \in Claims(q) :
        p # q /\ c.row = d.row => c.attempt # d.attempt

PublishedIsSent == \A j \in DOMAIN outbox : outbox[j].state = "published" => outbox[j].sent > 0

\* The attempts of row j whose message may still go out.
ToSend(j) ==
    {n \in 1..outbox[j].attempt :
       \E p \in Publishers : \E c \in Claims(p) :
           c.row = j /\ c.attempt = n /\ ~ c.dispatched}

\* A message of each attempt at most: those sent, and those that may still go out.
SendBudget == \A j \in DOMAIN outbox : outbox[j].sent + Cardinality(ToSend(j)) <= outbox[j].attempt

OInv ==
    /\ TypeOK
    /\ RowsOnce
    /\ ClaimsHandedOut
    /\ ClaimsApart
    /\ PublishedIsSent
    /\ SendBudget

-----------------------------------------------------------------------------
(* Lists of claims.                                                        *)

\* A function on 1..n is a sequence.
LEMMA FunctionIsSequence ==
    ASSUME NEW S, NEW n \in Nat, NEW f \in [1..n -> S]
    PROVE  f \in Seq(S) /\ Len(f) = n
BY SeqDef, LenProperties

\* What is left of a batch when its first job is done.
LEMMA TailOfClaims ==
    ASSUME NEW s \in Seq(Claimed), s # <<>>, RowsDiffer(s)
    PROVE  /\ Head(s) \in Claimed /\ Head(s) \in Elements(s)
           /\ Tail(s) \in Seq(Claimed) /\ RowsDiffer(Tail(s))
           /\ Elements(Tail(s)) = {c \in Elements(s) : c.row # Head(s).row}
<1> DEFINE t == Tail(s)
<1>1. /\ Len(s) \in Nat \ {0} /\ DOMAIN s = 1..Len(s) /\ Head(s) = s[1]
  BY LenProperties, EmptySeq
<1>2. /\ Head(s) \in Claimed /\ t \in Seq(Claimed) /\ Len(t) = Len(s) - 1
      /\ \A k \in 1..Len(t) : t[k] = s[k + 1]
  BY HeadTailProperties
<1>3. DOMAIN t = 1..(Len(s) - 1)
  BY <1>2, LenProperties
<1> HIDE DEF t
<1>4. RowsDiffer(t)
  <2>1. ASSUME NEW k \in DOMAIN t, NEW l \in DOMAIN t, t[k].row = t[l].row
        PROVE  k = l
    <3>1. k + 1 \in DOMAIN s /\ l + 1 \in DOMAIN s /\ t[k] = s[k + 1] /\ t[l] = s[l + 1]
      BY <1>1, <1>2, <1>3
    <3>2. k + 1 = l + 1
      BY <2>1, <3>1 DEF RowsDiffer
    <3> QED
      BY <1>1, <1>3, <3>2
  <2> QED
    BY <2>1 DEF RowsDiffer
<1>5. ASSUME NEW c \in Elements(t)
      PROVE  c \in Elements(s) /\ c.row # Head(s).row
  <2>1. PICK k \in DOMAIN t : c = t[k]
    BY DEF Elements
  <2>2. k + 1 \in DOMAIN s /\ c = s[k + 1] /\ k + 1 # 1 /\ 1 \in DOMAIN s
    BY <1>1, <1>2, <1>3, <2>1
  <2> QED
    BY <1>1, <2>2 DEF RowsDiffer, Elements
<1>6. ASSUME NEW c \in Elements(s), c.row # Head(s).row
      PROVE  c \in Elements(t)
  <2>1. PICK k \in DOMAIN s : c = s[k]
    BY DEF Elements
  <2>2. k # 1
    BY <1>1, <1>6, <2>1
  <2>3. k - 1 \in DOMAIN t /\ t[k - 1] = s[(k - 1) + 1] /\ (k - 1) + 1 = k
    BY <1>1, <1>2, <1>3, <2>2
  <2> QED
    BY <2>1, <2>3 DEF Elements
<1>7. Elements(t) = {c \in Elements(s) : c.row # Head(s).row}
  BY <1>5, <1>6
<1>8. Head(s) \in Elements(s)
  BY <1>1 DEF Elements
<1> QED
  BY <1>2, <1>4, <1>7, <1>8 DEF t

\* The first job of a batch is replaced by another of the same row.
LEMMA FirstReplaced ==
    ASSUME NEW s \in Seq(Claimed), s # <<>>, RowsDiffer(s),
           NEW d \in Claimed, d.row = Head(s).row,
           NEW t, t = [s EXCEPT ![1] = d]
    PROVE  /\ t \in Seq(Claimed) /\ t # <<>> /\ RowsDiffer(t)
           /\ Elements(t) = {c \in Elements(s) : c.row # d.row} \cup {d}
<1>1. /\ Len(s) \in Nat \ {0} /\ DOMAIN s = 1..Len(s) /\ Head(s) = s[1] /\ 1 \in DOMAIN s
      /\ s \in [1..Len(s) -> Claimed]
  BY LenProperties, EmptySeq
<1>2. /\ t \in Seq(Claimed) /\ DOMAIN t = DOMAIN s /\ t[1] = d
      /\ \A k \in DOMAIN s \ {1} : t[k] = s[k]
  <2>1. t \in [1..Len(s) -> Claimed]
    BY <1>1
  <2>2. t \in Seq(Claimed)
    BY <1>1, <2>1, FunctionIsSequence
  <2> QED
    BY <1>1, <2>1, <2>2
<1>3. \A k \in DOMAIN s : t[k].row = s[k].row
  BY <1>1, <1>2
<1>4. RowsDiffer(t)
  BY <1>2, <1>3 DEF RowsDiffer
<1>5. Elements(t) \subseteq {c \in Elements(s) : c.row # d.row} \cup {d}
  <2> SUFFICES ASSUME NEW k \in DOMAIN t, k # 1
               PROVE  t[k] \in Elements(s) /\ t[k].row # d.row
    BY <1>2 DEF Elements
  <2> QED
    BY <1>1, <1>2 DEF RowsDiffer, Elements
<1>6. {c \in Elements(s) : c.row # d.row} \cup {d} \subseteq Elements(t)
  BY <1>1, <1>2 DEF Elements
<1>7. t # <<>>
  BY <1>1, <1>2
<1> QED
  BY <1>2, <1>4, <1>5, <1>6, <1>7

\* A batch as claim_unpublished_batch returns it: each row once, in any order.
LEMMA BatchOfClaims ==
    ASSUME NEW B, IsFiniteSet(B), NEW order \in [1..Cardinality(B) -> B],
           \A j \in B : \E k \in 1..Cardinality(B) : order[k] = j,
           NEW s \in [1..Cardinality(B) -> Claimed],
           \A k \in 1..Cardinality(B) : s[k].row = order[k]
    PROVE  /\ s \in Seq(Claimed) /\ RowsDiffer(s)
           /\ \A c \in Elements(s) : c.row \in B
<1>1. Cardinality(B) \in Nat
  BY FS_CardinalityType
<1>2. \A k, l \in 1..Cardinality(B) : order[k] = order[l] => k = l
  <2>1. IsFiniteSet(1..Cardinality(B)) /\ Cardinality(1..Cardinality(B)) = Cardinality(B)
    BY <1>1, FS_Interval
  <2>2. order \in Surjection(1..Cardinality(B), B)
    BY DEF Surjection
  <2>3. order \in Injection(1..Cardinality(B), B)
    BY <2>1, <2>2, FS_SurjSameCardinalityImpliesInj
  <2> QED
    BY <2>3 DEF Injection, IsInjective
<1>3. s \in Seq(Claimed)
  BY <1>1, FunctionIsSequence
<1>4. RowsDiffer(s)
  BY <1>2 DEF RowsDiffer
<1>5. \A c \in Elements(s) : c.row \in B
  BY DEF Elements
<1> QED
  BY <1>3, <1>4, <1>5

-----------------------------------------------------------------------------
(* What steps on rows and claims keep.                                     *)

\* The rows are a function.
LEMMA RowsAreRows ==
    ASSUME TypeOK
    PROVE  /\ Len(outbox) \in Nat /\ DOMAIN outbox = 1..Len(outbox)
           /\ outbox \in [1..Len(outbox) -> JobRow]
           /\ \A j \in DOMAIN outbox : /\ outbox[j] \in JobRow
                                       /\ outbox[j].attempt \in Nat /\ outbox[j].sent \in Nat
                                       /\ outbox[j].lease \in Nat
<1>1. /\ Len(outbox) \in Nat /\ DOMAIN outbox = 1..Len(outbox)
      /\ outbox \in [1..Len(outbox) -> JobRow]
  BY LenProperties DEF TypeOK
<1>2. \A r \in JobRow : r.attempt \in Nat /\ r.sent \in Nat /\ r.lease \in Nat
  BY DEF JobRow
<1> QED
  BY <1>1, <1>2

\* The attempts to send are finitely many.
LEMMA ToSendIsFinite ==
    ASSUME TypeOK, NEW j \in DOMAIN outbox
    PROVE  IsFiniteSet(ToSend(j)) /\ Cardinality(ToSend(j)) \in Nat
<1>1. outbox[j].attempt \in Nat
  BY RowsAreRows
<1>2. IsFiniteSet(1..outbox[j].attempt)
  BY <1>1, FS_Interval
<1>3. ToSend(j) \in SUBSET (1..outbox[j].attempt)
  BY DEF ToSend
<1> QED
  BY <1>2, <1>3, FS_Subset, FS_CardinalityType

\* Rows that are left, or settled, and the claims that are left.
RowsLeft ==
    /\ outbox' \in Seq(JobRow)
    /\ Len(outbox') <= MaxRows
    /\ DOMAIN outbox \subseteq DOMAIN outbox'
    /\ \A j \in DOMAIN outbox :
         /\ outbox'[j].aggregate = outbox[j].aggregate
         /\ outbox'[j].attempt = outbox[j].attempt
         /\ outbox'[j].sent = outbox[j].sent
         /\ outbox'[j].state = "published" => outbox[j].state = "published" \/ outbox[j].sent > 0
    /\ \A j \in DOMAIN outbox' \ DOMAIN outbox :
         outbox'[j].attempt = 0 /\ outbox'[j].sent = 0 /\ outbox'[j].state # "published"

ClaimsLeft ==
    /\ publishers' \in [Publishers -> Seq(Claimed)]
    /\ \A p \in Publishers :
          RowsDiffer(publishers'[p]) /\ Elements(publishers'[p]) \subseteq Claims(p)

OtherTypes ==
    /\ clock' \in 1..MaxClock
    /\ failures' \in 0..MaxFailures
    /\ queue' \in [Aggregates -> Nat]

\* A step that sends nothing and claims nothing.
LEMMA QuietStep ==
    ASSUME OInv, RowsLeft, ClaimsLeft, OtherTypes
    PROVE  OInv'
<1>1. TypeOK'
  BY DEF RowsLeft, ClaimsLeft, OtherTypes, TypeOK
<1>2. RowsOnce'
  BY DEF RowsOnce, ClaimsLeft
<1>3. \A p \in Publishers : \A c \in Elements(publishers'[p]) : c \in Claims(p)
  BY DEF ClaimsLeft
<1>4. ClaimsHandedOut'
  BY <1>3 DEF OInv, ClaimsHandedOut, RowsLeft, Claims
<1>5. ClaimsApart'
  BY <1>3 DEF OInv, ClaimsApart, Claims
<1>6. PublishedIsSent'
  BY DEF OInv, PublishedIsSent, RowsLeft
<1>7. SendBudget'
  <2> SUFFICES ASSUME NEW j \in DOMAIN outbox'
               PROVE  outbox'[j].sent + Cardinality(ToSend(j)') <= outbox'[j].attempt
    BY DEF SendBudget
  <2>1. CASE j \in DOMAIN outbox
    <3>1. ToSend(j)' \in SUBSET ToSend(j)
      BY <1>3, <2>1 DEF ToSend, RowsLeft, Claims
    <3>2. /\ IsFiniteSet(ToSend(j)) /\ Cardinality(ToSend(j)) \in Nat
          /\ outbox[j].attempt \in Nat /\ outbox[j].sent \in Nat
      BY <2>1, ToSendIsFinite, RowsAreRows DEF OInv
    <3>3. Cardinality(ToSend(j)') <= Cardinality(ToSend(j)) /\ Cardinality(ToSend(j)') \in Nat
      BY <3>1, <3>2, FS_Subset, FS_CardinalityType
    <3>4. outbox[j].sent + Cardinality(ToSend(j)) <= outbox[j].attempt
      BY <2>1 DEF OInv, SendBudget
    <3>5. outbox'[j].sent = outbox[j].sent /\ outbox'[j].attempt = outbox[j].attempt
      BY <2>1 DEF RowsLeft
    <3> QED
      BY <3>2, <3>3, <3>4, <3>5
  <2>2. CASE j \notin DOMAIN outbox
    <3>1. outbox'[j].attempt = 0 /\ outbox'[j].sent = 0
      BY <2>2 DEF RowsLeft
    <3>2. ToSend(j)' = {}
      BY <3>1 DEF ToSend
    <3> QED
      BY <3>1, <3>2, FS_EmptySet
  <2> QED
    BY <2>1, <2>2
<1> QED
  BY <1>1, <1>2, <1>4, <1>5, <1>6, <1>7 DEF OInv

\* The message of a publisher's first job goes out, and its claim is dispatched or given up.
LEMMA SendingStep ==
    ASSUME OInv, OtherTypes, NEW p \in Publishers, Busy(p), ~ Job(p).dispatched,
           outbox' \in Seq(JobRow), Len(outbox') = Len(outbox),
           \A j \in DOMAIN outbox :
               /\ outbox'[j].attempt = outbox[j].attempt
               /\ outbox'[j].sent = outbox[j].sent + (IF j = Job(p).row THEN 1 ELSE 0)
               /\ outbox'[j].state = "published" => outbox[j].state = "published",
           publishers' \in [Publishers -> Seq(Claimed)], RowsDiffer(publishers'[p]),
           \A q \in Publishers \ {p} : publishers'[q] = publishers[q],
           \A c \in Elements(publishers'[p]) :
               \/ c \in Claims(p) /\ c.row # Job(p).row
               \/ c.row = Job(p).row /\ c.attempt = Job(p).attempt /\ c.dispatched
    PROVE  OInv'
<1> DEFINE r == Job(p).row
           n == Job(p).attempt
<1>1. Job(p) \in Claims(p) /\ publishers[p] \in Seq(Claimed) /\ RowsDiffer(publishers[p])
  <2>1. publishers[p] \in Seq(Claimed) /\ publishers[p] # <<>> /\ RowsDiffer(publishers[p])
    BY DEF OInv, TypeOK, RowsOnce, Busy
  <2> QED
    BY <2>1, TailOfClaims DEF Job, Claims
<1>2. DOMAIN outbox' = DOMAIN outbox
  BY RowsAreRows, LenProperties DEF OInv
<1>3. /\ r \in DOMAIN outbox /\ n \in 1..outbox[r].attempt
  BY <1>1 DEF OInv, ClaimsHandedOut
<1>4. \A j \in DOMAIN outbox : outbox[j].attempt \in Nat /\ outbox[j].sent \in Nat
  BY RowsAreRows DEF OInv
<1>5. TypeOK'
  BY DEF OInv, TypeOK, OtherTypes
<1>6. RowsOnce'
  BY DEF OInv, RowsOnce
<1>7. \A q \in Publishers : \A c \in Claims(q)' :
          \E d \in Claims(q) : /\ c.row = d.row /\ c.attempt = d.attempt
                               /\ c = d \/ (q = p /\ d = Job(p) /\ c.dispatched)
  BY <1>1 DEF Claims
<1>8. ClaimsHandedOut'
  <2> SUFFICES ASSUME NEW q \in Publishers, NEW c \in Claims(q)'
               PROVE  /\ c.row \in DOMAIN outbox'
                      /\ c.attempt \in 1..outbox'[c.row].attempt
                      /\ c.dispatched => outbox'[c.row].sent > 0
    BY DEF ClaimsHandedOut
  <2>1. PICK d \in Claims(q) : /\ c.row = d.row /\ c.attempt = d.attempt
                               /\ c = d \/ (q = p /\ d = Job(p) /\ c.dispatched)
    BY <1>7
  <2>2. /\ d.row \in DOMAIN outbox /\ d.attempt \in 1..outbox[d.row].attempt
        /\ d.dispatched => outbox[d.row].sent > 0
    BY DEF OInv, ClaimsHandedOut
  <2>3. c.dispatched => outbox'[d.row].sent > 0
    BY <1>4, <2>1, <2>2
  <2> QED
    BY <1>2, <2>1, <2>2, <2>3
<1>9. ClaimsApart'
  BY <1>7 DEF OInv, ClaimsApart
<1>10. PublishedIsSent'
  BY <1>2, <1>4 DEF OInv, PublishedIsSent
<1>11. SendBudget'
  <2> SUFFICES ASSUME NEW j \in DOMAIN outbox
               PROVE  outbox'[j].sent + Cardinality(ToSend(j)') <= outbox'[j].attempt
    BY <1>2 DEF SendBudget
  <2>1. /\ IsFiniteSet(ToSend(j)) /\ Cardinality(ToSend(j)) \in Nat
        /\ outbox[j].sent + Cardinality(ToSend(j)) <= outbox[j].attempt
    BY ToSendIsFinite DEF OInv, SendBudget
  <2>2. ToSend(j)' \in SUBSET ToSend(j)
    <3> SUFFICES ASSUME NEW m \in ToSend(j)'
                 PROVE  m \in ToSend(j)
      OBVIOUS
    <3>1. PICK q \in Publishers : \E c \in Claims(q)' : c.row = j /\ c.attempt = m /\ ~ c.dispatched
      BY DEF ToSend
    <3>2. \E c \in Claims(q) : c.row = j /\ c.attempt = m /\ ~ c.dispatched
      BY <1>7, <3>1
    <3>3. m \in 1..outbox[j].attempt
      BY DEF ToSend
    <3> QED
      BY <3>2, <3>3 DEF ToSend
  <2>3. CASE j # r
    <3>1. Cardinality(ToSend(j)') <= Cardinality(ToSend(j)) /\ Cardinality(ToSend(j)') \in Nat
      BY <2>1, <2>2, FS_Subset, FS_CardinalityType
    <3>2. outbox'[j].sent = outbox[j].sent /\ outbox'[j].attempt = outbox[j].attempt
      BY <1>4, <2>3
    <3> QED
      BY <1>4, <2>1, <3>1, <3>2
  <2>4. CASE j = r
    <3>1. n \in ToSend(j)
      BY <1>1, <1>3, <2>4 DEF ToSend
    <3>2. n \notin ToSend(j)'
      <4> SUFFICES ASSUME NEW q \in Publishers, NEW c \in Claims(q)', c.row = r, c.attempt = n
                   PROVE  c.dispatched
        BY <2>4 DEF ToSend
      <4>1. q = p
        BY <1>1, <1>7 DEF OInv, ClaimsApart
      <4> QED
        BY <4>1 DEF Claims
    <3>3. ToSend(j)' \in SUBSET (ToSend(j) \ {n})
      BY <2>2, <3>2
    <3>4. /\ IsFiniteSet(ToSend(j) \ {n})
          /\ Cardinality(ToSend(j) \ {n}) = Cardinality(ToSend(j)) - 1
      BY <2>1, <3>1, FS_RemoveElement
    <3>5. /\ Cardinality(ToSend(j)') <= Cardinality(ToSend(j)) - 1
          /\ Cardinality(ToSend(j)') \in Nat
      BY <3>3, <3>4, FS_Subset, FS_CardinalityType
    <3>6. outbox'[j].sent = outbox[j].sent + 1 /\ outbox'[j].attempt = outbox[j].attempt
      BY <2>4
    <3> QED
      BY <1>4, <2>1, <3>5, <3>6
  <2> QED
    BY <2>3, <2>4
<1> QED
  BY <1>5, <1>6, <1>8, <1>9, <1>10, <1>11 DEF OInv

-----------------------------------------------------------------------------
(* Rows written by others.                                                 *)

\* The first job of a busy publisher.
LEMMA FirstJob ==
    ASSUME OInv, NEW p \in Publishers, Busy(p)
    PROVE  /\ publishers[p] \in Seq(Claimed) /\ publishers[p] # <<>> /\ RowsDiffer(publishers[p])
           /\ Job(p) \in Claimed /\ Job(p) \in Claims(p)
           /\ Job(p).row \in DOMAIN outbox
           /\ Job(p).dispatched => outbox[Job(p).row].sent > 0
<1>1. publishers[p] \in Seq(Claimed) /\ publishers[p] # <<>> /\ RowsDiffer(publishers[p])
  BY DEF OInv, TypeOK, RowsOnce, Busy
<1>2. Job(p) \in Claimed /\ Job(p) \in Claims(p)
  BY <1>1, TailOfClaims DEF Job, Claims
<1> QED
  BY <1>1, <1>2 DEF OInv, ClaimsHandedOut

\* Publishers that stay as they are keep their claims.
LEMMA ClaimsStay ==
    ASSUME OInv, UNCHANGED publishers
    PROVE  ClaimsLeft
BY DEF OInv, TypeOK, RowsOnce, ClaimsLeft, Claims

\* Rows that stay as they are.
LEMMA RowsUnchanged ==
    ASSUME OInv, UNCHANGED outbox
    PROVE  RowsLeft
BY RowsAreRows DEF OInv, TypeOK, RowsLeft

\* A row is added behind rows that keep their aggregate, tokens and messages.
LEMMA RowAdded ==
    ASSUME OInv, NEW a \in Aggregates, Len(outbox) < MaxRows,
           NEW O \in [DOMAIN outbox -> JobRow], outbox' = Append(O, NewRow(a)),
           \A j \in DOMAIN outbox :
               /\ O[j].aggregate = outbox[j].aggregate /\ O[j].attempt = outbox[j].attempt
               /\ O[j].sent = outbox[j].sent
               /\ O[j].state = "published" => outbox[j].state = "published"
    PROVE  /\ RowsLeft
           /\ \A j \in DOMAIN outbox : outbox'[j] = O[j]
<1>1. /\ Len(outbox) \in Nat /\ DOMAIN outbox = 1..Len(outbox)
  BY RowsAreRows DEF OInv
<1>2. O \in Seq(JobRow) /\ Len(O) = Len(outbox)
  BY <1>1, FunctionIsSequence
<1>3. NewRow(a) \in JobRow /\ NewRow(a).attempt = 0 /\ NewRow(a).sent = 0
      /\ NewRow(a).state # "published"
  BY DEF NewRow, JobRow, RowStates
<1>4. /\ outbox' \in Seq(JobRow) /\ Len(outbox') = Len(outbox) + 1
      /\ outbox'[Len(outbox) + 1] = NewRow(a)
      /\ \A j \in DOMAIN outbox : outbox'[j] = O[j]
  BY <1>1, <1>2, <1>3, AppendProperties
<1>5. DOMAIN outbox' = DOMAIN outbox \cup {Len(outbox) + 1}
  BY <1>1, <1>4, LenProperties
<1>6. Len(outbox') <= MaxRows
  BY <1>1, <1>4, OutboxAssumption
<1> QED
  BY <1>3, <1>4, <1>5, <1>6 DEF RowsLeft

\* Enqueue adds a row.
LEMMA EnqueueEffect ==
    ASSUME OInv, NEW a \in Aggregates, Enqueue(a)
    PROVE  RowsLeft /\ \A j \in DOMAIN outbox : outbox'[j] = outbox[j]
<1>1. outbox \in [DOMAIN outbox -> JobRow]
  BY RowsAreRows DEF OInv
<1> QED
  BY <1>1, RowAdded DEF Enqueue

\* Supersede fails the waiting rows of the aggregate, none of which is leased.
LEMMA SupersedeEffect ==
    ASSUME OInv, NEW a \in Aggregates, Supersede(a)
    PROVE  /\ RowsLeft
           /\ \A j \in DOMAIN outbox : outbox[j].lease # 0 => outbox'[j] = outbox[j]
<1> DEFINE R(j) == [outbox[j] EXCEPT !.state = "failed"]
           O == [j \in DOMAIN outbox |-> IF j \in Waiting(a) THEN R(j) ELSE outbox[j]]
<1>1. outbox' = Append(O, NewRow(a)) /\ Len(outbox) < MaxRows /\ ~ DiscardRefused(a)
  BY DEF Supersede
<1>2. ASSUME NEW j \in DOMAIN outbox
      PROVE  /\ O[j] \in JobRow
             /\ O[j].aggregate = outbox[j].aggregate /\ O[j].attempt = outbox[j].attempt
             /\ O[j].sent = outbox[j].sent
             /\ O[j].state = "published" => outbox[j].state = "published"
             /\ outbox[j].lease # 0 => O[j] = outbox[j]
  <2>1. outbox[j] \in JobRow
    BY RowsAreRows DEF OInv
  <2>2. j \in Waiting(a) => outbox[j].lease = 0
    BY <1>1 DEF DiscardRefused
  <2>3. /\ j \in Waiting(a) => R(j) \in JobRow
        /\ R(j).aggregate = outbox[j].aggregate /\ R(j).attempt = outbox[j].attempt
        /\ R(j).sent = outbox[j].sent /\ R(j).state = "failed"
    BY <2>1, <2>2 DEF JobRow, RowStates
  <2> HIDE DEF R
  <2> QED
    BY <2>1, <2>2, <2>3
<1>3. O \in [DOMAIN outbox -> JobRow]
  BY <1>2
<1> HIDE DEF O
<1>4. RowsLeft /\ \A j \in DOMAIN outbox : outbox'[j] = O[j]
  BY <1>1, <1>2, <1>3, RowAdded
<1> QED
  BY <1>2, <1>4

\* Statements of the surroundings, messages and time.
LEMMA SurroundingsStep ==
    ASSUME OInv,
           Tick \/ \E a \in Aggregates : AddRow(a) \/ RetryRow(a) \/ Receive(a) \/ Return(a)
    PROVE  OInv'
<1>1. RowsLeft
  BY EnqueueEffect, SupersedeEffect, RowsUnchanged DEF Tick, AddRow, RetryRow, Receive, Return
<1>2. ClaimsLeft
  BY ClaimsStay DEF Tick, AddRow, RetryRow, Receive, Return
<1>3. OtherTypes
  <2>1. CASE Tick
    BY <2>1, OutboxAssumption DEF OInv, TypeOK, OtherTypes, Tick
  <2>2. ASSUME NEW a \in Aggregates, AddRow(a) \/ RetryRow(a) \/ Receive(a) \/ Return(a)
        PROVE  OtherTypes
    BY <2>2 DEF OInv, TypeOK, OtherTypes, AddRow, RetryRow, Receive, Return
  <2> QED
    BY <2>1, <2>2
<1> QED
  BY <1>1, <1>2, <1>3, QuietStep

-----------------------------------------------------------------------------
(* Publishers.                                                             *)

\* The rest of the batch is left when the first job is done.
LEMMA DoneEffect ==
    ASSUME OInv, NEW p \in Publishers, Busy(p), Done(p)
    PROVE  /\ ClaimsLeft
           /\ publishers' \in [Publishers -> Seq(Claimed)] /\ RowsDiffer(publishers'[p])
           /\ \A q \in Publishers \ {p} : publishers'[q] = publishers[q]
           /\ \A c \in Elements(publishers'[p]) : c \in Claims(p) /\ c.row # Job(p).row
<1>1. /\ Tail(publishers[p]) \in Seq(Claimed) /\ RowsDiffer(Tail(publishers[p]))
      /\ Elements(Tail(publishers[p])) = {c \in Claims(p) : c.row # Job(p).row}
  BY FirstJob, TailOfClaims DEF Claims, Job
<1>2. publishers \in [Publishers -> Seq(Claimed)]
      /\ publishers' = [publishers EXCEPT ![p] = Tail(publishers[p])]
  BY DEF OInv, TypeOK, Done
<1>3. /\ publishers' \in [Publishers -> Seq(Claimed)] /\ publishers'[p] = Tail(publishers[p])
      /\ \A q \in Publishers \ {p} : publishers'[q] = publishers[q]
  BY <1>1, <1>2
<1>4. ClaimsLeft
  BY <1>1, <1>3 DEF OInv, RowsOnce, ClaimsLeft, Claims
<1> QED
  BY <1>1, <1>3, <1>4

\* A statement that settles a job writes its row only, and only by its own claim.
LEMMA SettledRows ==
    ASSUME OInv, NEW p \in Publishers, Busy(p), NEW state \in RowStates,
           NEW O, O = Settled(p, state)
    PROVE  /\ O \in Seq(JobRow) /\ Len(O) = Len(outbox) /\ DOMAIN O = DOMAIN outbox
           /\ \A j \in DOMAIN outbox :
                /\ O[j].aggregate = outbox[j].aggregate /\ O[j].attempt = outbox[j].attempt
                /\ O[j].sent = outbox[j].sent
                /\ \/ O[j] = outbox[j]
                   \/ /\ j = Job(p).row /\ OwnedBy(j, Job(p).attempt)
                      /\ O[j].state = state
<1> DEFINE r == Job(p).row
           S == [outbox[r] EXCEPT !.state = state, !.lease = 0]
           R == IF OwnedBy(r, Job(p).attempt) THEN S ELSE outbox[r]
<1>1. /\ Len(outbox) \in Nat /\ DOMAIN outbox = 1..Len(outbox)
      /\ outbox \in [1..Len(outbox) -> JobRow]
      /\ r \in DOMAIN outbox /\ outbox[r] \in JobRow
  BY RowsAreRows, FirstJob DEF OInv
<1>2. O = [outbox EXCEPT ![r] = R]
  BY DEF Settled
<1>3. /\ S \in JobRow /\ S.aggregate = outbox[r].aggregate /\ S.attempt = outbox[r].attempt
      /\ S.sent = outbox[r].sent /\ S.state = state
  BY <1>1 DEF JobRow
<1> HIDE DEF S
<1>4. /\ R \in JobRow /\ R.aggregate = outbox[r].aggregate /\ R.attempt = outbox[r].attempt
      /\ R.sent = outbox[r].sent
      /\ R = outbox[r] \/ (OwnedBy(r, Job(p).attempt) /\ R.state = state)
  BY <1>1, <1>3
<1> HIDE DEF R
<1>5. /\ O \in [1..Len(outbox) -> JobRow] /\ O[r] = R
      /\ \A j \in DOMAIN outbox \ {r} : O[j] = outbox[j]
  BY <1>1, <1>2, <1>4
<1>6. O \in Seq(JobRow) /\ Len(O) = Len(outbox) /\ DOMAIN O = DOMAIN outbox
  BY <1>1, <1>5, FunctionIsSequence
<1> HIDE DEF r
<1>7. ASSUME NEW j \in DOMAIN outbox
      PROVE  /\ O[j].aggregate = outbox[j].aggregate /\ O[j].attempt = outbox[j].attempt
             /\ O[j].sent = outbox[j].sent
             /\ O[j] = outbox[j] \/ (j = r /\ OwnedBy(j, Job(p).attempt) /\ O[j].state = state)
  BY <1>4, <1>5
<1> QED
  BY <1>6, <1>7 DEF r

\* A job is settled: published after its message was sent, failed, or given up.
LEMMA SettleStep ==
    ASSUME OInv, NEW p \in Publishers, MarkPublished(p) \/ MarkFailed(p) \/ Abandon(p)
    PROVE  OInv'
<1>1. OtherTypes
  BY OutboxAssumption DEF OInv, TypeOK, OtherTypes, MarkPublished, MarkFailed, Abandon, Failure
<1>2. CASE MarkPublished(p) \/ MarkFailed(p)
  <2>1. PICK state \in RowStates :
            /\ outbox' = Settled(p, state) /\ Done(p) /\ Busy(p)
            /\ state = "published" => Job(p).dispatched
    BY <1>2 DEF MarkPublished, MarkFailed, Settle, RowStates
  <2>2. Job(p).dispatched => outbox[Job(p).row].sent > 0
    BY <2>1, FirstJob
  <2>3. RowsLeft
    BY <2>1, <2>2, SettledRows DEF OInv, TypeOK, RowsLeft
  <2>4. ClaimsLeft
    BY <2>1, DoneEffect
  <2> QED
    BY <1>1, <2>3, <2>4, QuietStep
<1>3. CASE Abandon(p)
  <2>1. RowsLeft
    BY <1>3, RowsUnchanged DEF Abandon
  <2>2. <<>> \in Seq(Claimed) /\ RowsDiffer(<<>>) /\ Elements(<<>>) = {}
    BY EmptySeq DEF RowsDiffer, Elements
  <2>3. ClaimsLeft
    BY <1>3, <2>2 DEF OInv, TypeOK, RowsOnce, ClaimsLeft, Claims, Abandon
  <2> QED
    BY <1>1, <2>1, <2>3, QuietStep
<1> QED
  BY <1>2, <1>3

\* Another message waits.
LEMMA MessageAdded ==
    ASSUME OInv, NEW j \in DOMAIN outbox,
           queue' = [queue EXCEPT ![outbox[j].aggregate] = @ + 1]
    PROVE  queue' \in [Aggregates -> Nat]
<1> DEFINE a == outbox[j].aggregate
<1>1. a \in Aggregates
  BY RowsAreRows DEF OInv, JobRow
<1>2. queue \in [Aggregates -> Nat] /\ queue' = [queue EXCEPT ![a] = @ + 1]
  BY DEF OInv, TypeOK
<1> HIDE DEF a
<1> QED
  BY <1>1, <1>2

\* A row as it is when another message is counted on it.
SentOnce(r) == [r EXCEPT !.sent = r.sent + 1]

\* What counting changes.
LEMMA SentFields ==
    ASSUME NEW r \in JobRow
    PROVE  /\ SentOnce(r) \in JobRow
           /\ SentOnce(r).attempt = r.attempt /\ SentOnce(r).state = r.state
           /\ SentOnce(r).sent = r.sent + 1 /\ r.sent \in Nat
           /\ SentOnce(r) = [r EXCEPT !.sent = SentOnce(r).sent]
BY DEF JobRow, SentOnce

\* Another message is counted on a row of a table.
LEMMA SentRow ==
    ASSUME NEW n \in Nat, NEW O \in [1..n -> JobRow], NEW r \in 1..n,
           NEW P, P = [O EXCEPT ![r] = SentOnce(O[r])]
    PROVE  /\ P \in Seq(JobRow) /\ Len(P) = n
           /\ P[r] = SentOnce(O[r]) /\ \A j \in (1..n) \ {r} : P[j] = O[j]
           /\ \A j \in 1..n : /\ P[j].attempt = O[j].attempt /\ P[j].state = O[j].state
                              /\ P[j].sent = O[j].sent + (IF j = r THEN 1 ELSE 0)
<1>1. \A j \in 1..n : /\ SentOnce(O[j]) \in JobRow
                      /\ SentOnce(O[j]).attempt = O[j].attempt
                      /\ SentOnce(O[j]).state = O[j].state
                      /\ SentOnce(O[j]).sent = O[j].sent + 1 /\ O[j].sent \in Nat
  BY SentFields
<1>2. P \in [1..n -> JobRow] /\ P[r] = SentOnce(O[r]) /\ \A j \in (1..n) \ {r} : P[j] = O[j]
  BY <1>1
<1>3. P \in Seq(JobRow) /\ Len(P) = n
  BY <1>2, FunctionIsSequence
<1>4. ASSUME NEW j \in 1..n
      PROVE  /\ P[j].attempt = O[j].attempt /\ P[j].state = O[j].state
             /\ P[j].sent = O[j].sent + (IF j = r THEN 1 ELSE 0)
  <2>1. CASE j = r
    BY <1>1, <1>2, <2>1
  <2>2. CASE j # r
    BY <1>1, <1>2, <2>2
  <2> QED
    BY <2>1, <2>2
<1> QED
  BY <1>2, <1>3, <1>4

\* The first job is dispatched: its row counts the message, and its claim stays.
LEMMA DispatchEffect ==
    ASSUME OInv, NEW p \in Publishers, Dispatch(p)
    PROVE  /\ Job(p).row \in DOMAIN outbox
           /\ outbox' \in Seq(JobRow) /\ Len(outbox') = Len(outbox)
           /\ \A j \in DOMAIN outbox :
                outbox'[j] = IF j = Job(p).row THEN SentOnce(outbox[j]) ELSE outbox[j]
           /\ publishers' \in [Publishers -> Seq(Claimed)] /\ RowsDiffer(publishers'[p])
           /\ \A q \in Publishers \ {p} : publishers'[q] = publishers[q]
           /\ \A c \in Elements(publishers'[p]) :
                \/ c \in Claims(p) /\ c.row # Job(p).row
                \/ c.row = Job(p).row /\ c.attempt = Job(p).attempt /\ c.dispatched
<1> DEFINE r == Job(p).row
           D == [Job(p) EXCEPT !.dispatched = TRUE]
           s == publishers[p]
           t == [s EXCEPT ![1] = D]
<1>1. /\ Busy(p)
      /\ outbox' = [outbox EXCEPT ![r].sent = @ + 1]
      /\ publishers' = [publishers EXCEPT ![p][1].dispatched = TRUE]
  BY DEF Dispatch
<1>2. /\ s \in Seq(Claimed) /\ s # <<>> /\ RowsDiffer(s)
      /\ Job(p) \in Claimed /\ Job(p) \in Claims(p) /\ r \in DOMAIN outbox
      /\ Job(p) = s[1] /\ publishers \in [Publishers -> Seq(Claimed)]
  BY <1>1, FirstJob DEF Job, OInv, TypeOK
<1>3. D \in Claimed /\ D.row = r /\ D.attempt = Job(p).attempt /\ D.dispatched
  BY <1>2 DEF Claimed
<1>4. publishers' = [publishers EXCEPT ![p] = t]
  BY <1>1, <1>2
<1> HIDE DEF D
<1>5. /\ t \in Seq(Claimed) /\ RowsDiffer(t)
      /\ Elements(t) = {c \in Elements(s) : c.row # D.row} \cup {D}
  BY <1>2, <1>3, FirstReplaced DEF Job
<1> HIDE DEF t
<1>6. /\ publishers' \in [Publishers -> Seq(Claimed)] /\ publishers'[p] = t
      /\ \A q \in Publishers \ {p} : publishers'[q] = publishers[q]
  BY <1>2, <1>4, <1>5
<1>7. /\ Len(outbox) \in Nat /\ DOMAIN outbox = 1..Len(outbox)
      /\ outbox \in [1..Len(outbox) -> JobRow]
  BY RowsAreRows DEF OInv
<1>8. /\ outbox' \in Seq(JobRow) /\ Len(outbox') = Len(outbox)
      /\ \A j \in DOMAIN outbox : outbox'[j] = IF j = r THEN SentOnce(outbox[j]) ELSE outbox[j]
  <2>1. r \in 1..Len(outbox)
    BY <1>2, <1>7
  <2> HIDE DEF r
  <2>2. outbox' = [outbox EXCEPT ![r] = SentOnce(outbox[r])]
    BY <1>1, <1>7, <2>1 DEF JobRow, SentOnce
  <2> QED
    BY <1>7, <2>1, <2>2, SentRow
<1>9. \A c \in Elements(publishers'[p]) :
           \/ c \in Claims(p) /\ c.row # Job(p).row
           \/ c.row = Job(p).row /\ c.attempt = Job(p).attempt /\ c.dispatched
  BY <1>3, <1>5, <1>6 DEF Claims
<1>10. RowsDiffer(publishers'[p])
  BY <1>5, <1>6
<1> QED
  BY <1>2, <1>6, <1>8, <1>9, <1>10

\* Dispatching keeps the invariant.
LEMMA DispatchStep ==
    ASSUME OInv, NEW p \in Publishers, Dispatch(p)
    PROVE  OInv'
<1>1. /\ Busy(p) /\ ~ Job(p).dispatched
      /\ queue' = [queue EXCEPT ![outbox[Job(p).row].aggregate] = @ + 1]
      /\ UNCHANGED <<clock, failures>>
  BY DEF Dispatch
<1>2. \A j \in DOMAIN outbox :
        /\ outbox'[j].attempt = outbox[j].attempt
        /\ outbox'[j].state = outbox[j].state
        /\ outbox'[j].sent = outbox[j].sent + (IF j = Job(p).row THEN 1 ELSE 0)
  <2> SUFFICES ASSUME NEW j \in DOMAIN outbox
               PROVE  /\ outbox'[j].attempt = outbox[j].attempt
                      /\ outbox'[j].state = outbox[j].state
                      /\ outbox'[j].sent = outbox[j].sent + (IF j = Job(p).row THEN 1 ELSE 0)
    OBVIOUS
  <2>1. outbox[j] \in JobRow /\ outbox[j].sent \in Nat
    BY RowsAreRows DEF OInv
  <2>2. outbox'[j] = IF j = Job(p).row THEN SentOnce(outbox[j]) ELSE outbox[j]
    BY DispatchEffect
  <2> QED
    BY <2>1, <2>2, SentFields
<1>3. OtherTypes
  <2>1. queue' \in [Aggregates -> Nat]
    BY <1>1, DispatchEffect, MessageAdded
  <2> QED
    BY <1>1, <2>1 DEF OInv, TypeOK, OtherTypes
<1> QED
  BY <1>1, <1>2, <1>3, DispatchEffect, SendingStep

\* Dispatching raises: the claim is given up, whether the message was sent or not.
LEMMA DispatchFailsStep ==
    ASSUME OInv, NEW p \in Publishers, DispatchFails(p)
    PROVE  OInv'
<1> DEFINE r == Job(p).row
           O == Settled(p, "waiting")
<1>1. /\ Busy(p) /\ ~ Job(p).dispatched /\ Failure /\ Done(p) /\ UNCHANGED clock
      /\ \/ outbox' = O /\ UNCHANGED queue
         \/ /\ outbox' = [O EXCEPT ![r].sent = @ + 1]
            /\ queue' = [queue EXCEPT ![outbox[r].aggregate] = @ + 1]
  BY DEF DispatchFails
<1>2. OtherTypes
  <2>1. queue' \in [Aggregates -> Nat]
    BY <1>1, FirstJob, MessageAdded DEF OInv, TypeOK
  <2> QED
    BY <1>1, <2>1, OutboxAssumption DEF OInv, TypeOK, OtherTypes, Failure
<1>3. /\ O \in Seq(JobRow) /\ Len(O) = Len(outbox) /\ DOMAIN O = DOMAIN outbox
      /\ \A j \in DOMAIN outbox :
           /\ O[j].aggregate = outbox[j].aggregate /\ O[j].attempt = outbox[j].attempt
           /\ O[j].sent = outbox[j].sent
           /\ O[j].state = "published" => outbox[j].state = "published"
  BY <1>1, SettledRows DEF RowStates
<1>4. /\ ClaimsLeft
      /\ publishers' \in [Publishers -> Seq(Claimed)] /\ RowsDiffer(publishers'[p])
      /\ \A q \in Publishers \ {p} : publishers'[q] = publishers[q]
      /\ \A c \in Elements(publishers'[p]) : c \in Claims(p) /\ c.row # Job(p).row
  BY <1>1, DoneEffect
<1> HIDE DEF O
<1>5. CASE outbox' = O
  <2>1. RowsLeft
    BY <1>3, <1>5 DEF OInv, TypeOK, RowsLeft
  <2> QED
    BY <1>2, <1>4, <2>1, QuietStep
<1>6. CASE outbox' = [O EXCEPT ![r].sent = @ + 1]
  <2>1. /\ Len(O) \in Nat /\ O \in [1..Len(O) -> JobRow] /\ DOMAIN O = 1..Len(O)
        /\ r \in DOMAIN outbox
    BY <1>1, <1>3, LenProperties, FirstJob
  <2>2. /\ outbox' \in Seq(JobRow) /\ Len(outbox') = Len(O)
        /\ \A j \in 1..Len(O) : /\ outbox'[j].attempt = O[j].attempt
                                /\ outbox'[j].state = O[j].state
                                /\ outbox'[j].sent = O[j].sent + (IF j = r THEN 1 ELSE 0)
    <3>1. r \in 1..Len(O)
      BY <1>3, <2>1
    <3> HIDE DEF r
    <3>2. outbox' = [O EXCEPT ![r] = SentOnce(O[r])]
      <4>1. outbox' = [O EXCEPT ![r] = [O[r] EXCEPT !.sent = O[r].sent + 1]]
        BY <1>6, Zenon
      <4> QED
        BY <4>1, Zenon DEF SentOnce
    <3> DEFINE n == Len(O)
               P == outbox'
    <3>3. n \in Nat /\ O \in [1..n -> JobRow] /\ r \in 1..n /\ P = [O EXCEPT ![r] = SentOnce(O[r])]
      BY <2>1, <3>1, <3>2
    <3> HIDE DEF n, P
    <3>4. /\ P \in Seq(JobRow) /\ Len(P) = n
          /\ \A j \in 1..n : /\ P[j].attempt = O[j].attempt /\ P[j].state = O[j].state
                             /\ P[j].sent = O[j].sent + (IF j = r THEN 1 ELSE 0)
      BY <3>3, SentRow, SMTT(30)
    <3> QED
      BY <3>4 DEF n, P
  <2>3. \A j \in DOMAIN outbox : /\ outbox'[j].attempt = outbox[j].attempt
                                 /\ outbox'[j].state = "published" => outbox[j].state = "published"
                                 /\ outbox'[j].sent = outbox[j].sent + (IF j = r THEN 1 ELSE 0)
    BY <1>3, <2>1, <2>2
  <2> QED
    BY <1>1, <1>2, <1>3, <1>4, <2>2, <2>3, SendingStep
<1> QED
  BY <1>1, <1>5, <1>6

\* An idle publisher leases a batch: each claimed row gives it a number that nobody has.
LEMMA ClaimBatchStep ==
    ASSUME OInv, NEW p \in Publishers, ClaimBatch(p)
    PROVE  OInv'
<1> DEFINE n(j) == outbox[j].attempt + 1
           R(j) == [outbox[j] EXCEPT !.attempt = n(j), !.lease = clock + PublishLease]
<1>1. /\ ~ Busy(p) /\ UNCHANGED <<clock, failures, queue>>
      /\ outbox' = [j \in DOMAIN outbox |-> IF j \in Batch THEN R(j) ELSE outbox[j]]
  BY DEF ClaimBatch, ClaimedRow
<1>2. /\ Len(outbox) \in Nat /\ DOMAIN outbox = 1..Len(outbox)
      /\ \A j \in DOMAIN outbox : /\ outbox[j] \in JobRow
                                  /\ outbox[j].attempt \in Nat /\ outbox[j].sent \in Nat
  BY RowsAreRows DEF OInv
<1>3. Batch \subseteq DOMAIN outbox /\ \A j \in Batch : outbox[j].state = "waiting"
  BY DEF Batch, Claimable
<1>4. IsFiniteSet(Batch) /\ Batch \subseteq Nat \ {0}
  <2>1. 0 \in Int /\ 1 \in Int /\ Len(outbox) \in Int
    BY <1>2
  <2>2. IsFiniteSet(1..Len(outbox))
    BY <2>1, FS_Interval
  <2> QED
    BY <1>2, <1>3, <2>2, FS_Subset
<1>5. clock + PublishLease \in Nat
  BY OutboxAssumption DEF OInv, TypeOK
<1>6. ASSUME NEW j \in Batch
      PROVE  /\ R(j) \in JobRow /\ R(j).attempt = n(j) /\ R(j).sent = outbox[j].sent
             /\ R(j).state = "waiting"
  <2>1. /\ outbox[j] \in [aggregate : Aggregates, state : RowStates, attempt : Nat, lease : Nat,
                          sent : Nat]
        /\ n(j) \in Nat /\ outbox[j].state = "waiting"
    BY <1>2, <1>3 DEF JobRow
  <2> HIDE DEF n
  <2> QED
    BY <1>5, <2>1 DEF JobRow
<1> HIDE DEF R
<1>7. /\ DOMAIN outbox' = DOMAIN outbox /\ outbox' \in [1..Len(outbox) -> JobRow]
      /\ \A j \in Batch : /\ outbox'[j].attempt = n(j) /\ outbox'[j].sent = outbox[j].sent
                          /\ outbox'[j].state = "waiting"
      /\ \A j \in DOMAIN outbox \ Batch : outbox'[j] = outbox[j]
  BY <1>1, <1>2, <1>3, <1>6
<1>8. outbox' \in Seq(JobRow) /\ Len(outbox') = Len(outbox)
  BY <1>2, <1>7, FunctionIsSequence
<1>9. PICK order \in [1..Cardinality(Batch) -> Batch] :
          /\ {order[m] : m \in DOMAIN order} = Batch
          /\ publishers' = [publishers EXCEPT
               ![p] = [m \in DOMAIN order |-> [row |-> order[m],
                                               attempt |-> outbox'[order[m]].attempt,
                                               dispatched |-> FALSE]]]
  BY DEF ClaimBatch
<1> DEFINE K == 1..Cardinality(Batch)
           C(m) == [row |-> order[m], attempt |-> outbox'[order[m]].attempt, dispatched |-> FALSE]
           s == [m \in K |-> C(m)]
<1>10. /\ \A m \in K : order[m] \in Batch
       /\ \A j \in Batch : \E m \in K : order[m] = j
       /\ publishers' = [publishers EXCEPT ![p] = s]
  <2>1. DOMAIN order = K
    OBVIOUS
  <2>2. \A j \in Batch : j \in {order[m] : m \in DOMAIN order}
    BY <1>9
  <2> QED
    BY <1>9, <2>1, <2>2
<1>11. /\ \A j \in Batch : n(j) \in Nat /\ n(j) = outbox[j].attempt + 1
       /\ \A m \in K : /\ C(m) \in Claimed /\ C(m).row = order[m]
                       /\ C(m).attempt = n(order[m]) /\ ~ C(m).dispatched
  <2>1. \A j \in Batch : n(j) \in Nat /\ n(j) = outbox[j].attempt + 1
    BY <1>2, <1>3
  <2> HIDE DEF n
  <2>2. ASSUME NEW m \in K
        PROVE  /\ C(m) \in Claimed /\ C(m).row = order[m]
               /\ C(m).attempt = n(order[m]) /\ ~ C(m).dispatched
    <3>1. /\ order[m] \in Batch /\ order[m] \in Nat \ {0}
          /\ outbox'[order[m]].attempt = n(order[m]) /\ n(order[m]) \in Nat
      BY <1>4, <1>7, <1>10, <2>1
    <3> QED
      BY <3>1 DEF Claimed
  <2> QED
    BY <2>1, <2>2
<1> HIDE DEF C, n
<1>12. /\ s \in [K -> Claimed]
        /\ \A m \in K : s[m].row = order[m] /\ s[m].attempt = n(order[m]) /\ ~ s[m].dispatched
  BY <1>11
<1> HIDE DEF s
<1>13. s \in Seq(Claimed) /\ RowsDiffer(s)
  <2>1. \A j \in Batch : \E k \in 1..Cardinality(Batch) : order[k] = j
    BY <1>10
  <2>2. \A k \in 1..Cardinality(Batch) : s[k].row = order[k]
    BY <1>12
  <2>3. s \in [1..Cardinality(Batch) -> Claimed]
    BY <1>12
  <2>4. order \in [1..Cardinality(Batch) -> Batch] /\ IsFiniteSet(Batch)
    BY <1>4
  <2> HIDE DEF K
  <2> QED
    BY <2>1, <2>2, <2>3, <2>4, BatchOfClaims, Zenon
<1>14. /\ publishers' \in [Publishers -> Seq(Claimed)] /\ publishers'[p] = s
        /\ \A q \in Publishers \ {p} : publishers'[q] = publishers[q]
  BY <1>10, <1>13 DEF OInv, TypeOK
<1>15. TypeOK'
  BY <1>1, <1>8, <1>14 DEF OInv, TypeOK
<1>16. RowsOnce'
  BY <1>13, <1>14 DEF OInv, RowsOnce
<1>17. \A q \in Publishers \ {p} : Claims(q)' = Claims(q)
  BY <1>14 DEF Claims
<1>18. \A c \in Claims(p)' : \E j \in Batch : c.row = j /\ c.attempt = n(j) /\ ~ c.dispatched
  <2> SUFFICES ASSUME NEW m \in K
               PROVE  \E j \in Batch : s[m].row = j /\ s[m].attempt = n(j) /\ ~ s[m].dispatched
    BY <1>12, <1>14 DEF Claims, Elements
  <2> QED
    BY <1>10, <1>12
<1>19. \A q \in Publishers : \A c \in Claims(q) :
           /\ c.row \in DOMAIN outbox /\ c.attempt \in 1..outbox[c.row].attempt
           /\ c.dispatched => outbox[c.row].sent > 0
  BY DEF OInv, ClaimsHandedOut
<1>20. ClaimsHandedOut'
  <2> SUFFICES ASSUME NEW q \in Publishers, NEW c \in Claims(q)'
               PROVE  /\ c.row \in DOMAIN outbox'
                      /\ c.attempt \in 1..outbox'[c.row].attempt
                      /\ c.dispatched => outbox'[c.row].sent > 0
    BY DEF ClaimsHandedOut
  <2>1. CASE q = p
    <3>1. PICK j \in Batch : c.row = j /\ c.attempt = n(j) /\ ~ c.dispatched
      BY <1>18, <2>1
    <3> QED
      BY <1>2, <1>3, <1>7, <1>11, <3>1
  <2>2. CASE q # p
    <3>1. /\ c.row \in DOMAIN outbox /\ c.attempt \in 1..outbox[c.row].attempt
          /\ c.dispatched => outbox[c.row].sent > 0
      BY <1>17, <1>19, <2>2
    <3>2. CASE c.row \in Batch
      BY <1>2, <1>7, <1>11, <3>1, <3>2
    <3>3. CASE c.row \notin Batch
      BY <1>7, <3>1, <3>3
    <3> QED
      BY <3>2, <3>3
  <2> QED
    BY <2>1, <2>2
<1>21. ClaimsApart'
  <2> SUFFICES ASSUME NEW q \in Publishers, NEW u \in Publishers, q # u,
                      NEW c \in Claims(q)', NEW d \in Claims(u)', c.row = d.row
               PROVE  c.attempt # d.attempt
    BY DEF ClaimsApart
  <2>1. \A v \in Publishers \ {p} : \A e \in Claims(v), j \in Batch :
            e.row = j => e.attempt # n(j)
    BY <1>2, <1>3, <1>11, <1>19
  <2>2. CASE q = p
    BY <1>17, <1>18, <2>1, <2>2
  <2>3. CASE u = p
    BY <1>17, <1>18, <2>1, <2>3
  <2>4. CASE q # p /\ u # p
    BY <1>17, <2>4 DEF OInv, ClaimsApart
  <2> QED
    BY <2>2, <2>3, <2>4
<1>22. PublishedIsSent'
  BY <1>7 DEF OInv, PublishedIsSent
<1>23. SendBudget'
  <2> SUFFICES ASSUME NEW j \in DOMAIN outbox
               PROVE  outbox'[j].sent + Cardinality(ToSend(j)') <= outbox'[j].attempt
    BY <1>7 DEF SendBudget
  <2>1. /\ IsFiniteSet(ToSend(j)) /\ Cardinality(ToSend(j)) \in Nat
        /\ outbox[j].sent + Cardinality(ToSend(j)) <= outbox[j].attempt
    BY ToSendIsFinite DEF OInv, SendBudget
  <2>2. ASSUME NEW m \in ToSend(j)'
        PROVE  m \in ToSend(j) \/ (j \in Batch /\ m = n(j))
    <3>1. PICK q \in Publishers : \E c \in Claims(q)' : c.row = j /\ c.attempt = m /\ ~ c.dispatched
      BY DEF ToSend
    <3>2. CASE q = p
      BY <1>18, <3>1, <3>2
    <3>3. CASE q # p
      <4>1. \E c \in Claims(q) : c.row = j /\ c.attempt = m /\ ~ c.dispatched
        BY <1>17, <3>1, <3>3
      <4>2. m \in 1..outbox[j].attempt
        BY <1>19, <4>1
      <4> QED
        BY <4>1, <4>2 DEF ToSend
    <3> QED
      BY <3>2, <3>3
  <2>3. CASE j \in Batch
    <3>1. ToSend(j)' \in SUBSET (ToSend(j) \cup {n(j)})
      BY <2>2
    <3>2. /\ IsFiniteSet(ToSend(j) \cup {n(j)})
          /\ Cardinality(ToSend(j) \cup {n(j)}) <= Cardinality(ToSend(j)) + 1
          /\ Cardinality(ToSend(j) \cup {n(j)}) \in Nat
      <4> DEFINE S == ToSend(j)
                 m == n(j)
      <4>1. IsFiniteSet(S) /\ Cardinality(S) \in Nat
        BY <2>1
      <4> HIDE DEF S, m
      <4>2. /\ IsFiniteSet(S \cup {m})
            /\ Cardinality(S \cup {m}) = IF m \in S THEN Cardinality(S) ELSE Cardinality(S) + 1
        BY <4>1, FS_AddElement
      <4>3. Cardinality(S \cup {m}) <= Cardinality(S) + 1 /\ Cardinality(S \cup {m}) \in Nat
        BY <4>1, <4>2
      <4> QED
        BY <4>2, <4>3 DEF S, m
    <3>3. /\ Cardinality(ToSend(j)') <= Cardinality(ToSend(j) \cup {n(j)})
          /\ Cardinality(ToSend(j)') \in Nat
      BY <3>1, <3>2, FS_Subset, FS_CardinalityType
    <3>4. outbox'[j].sent = outbox[j].sent /\ outbox'[j].attempt = outbox[j].attempt + 1
      BY <1>7, <1>11, <2>3
    <3> QED
      BY <1>2, <2>1, <3>2, <3>3, <3>4
  <2>4. CASE j \notin Batch
    <3>1. ToSend(j)' \in SUBSET ToSend(j)
      BY <2>2, <2>4
    <3>2. Cardinality(ToSend(j)') <= Cardinality(ToSend(j)) /\ Cardinality(ToSend(j)') \in Nat
      BY <2>1, <3>1, FS_Subset, FS_CardinalityType
    <3>3. outbox'[j].sent = outbox[j].sent /\ outbox'[j].attempt = outbox[j].attempt
      BY <1>7, <2>4
    <3> QED
      BY <1>2, <2>1, <3>2, <3>3
  <2> QED
    BY <2>3, <2>4
<1> QED
  BY <1>15, <1>16, <1>20, <1>21, <1>22, <1>23 DEF OInv

-----------------------------------------------------------------------------
(* The theorems.                                                           *)

\* At first there are no rows and no claims.
LEMMA InitInvariant == Init => OInv
<1> SUFFICES ASSUME Init PROVE OInv
  OBVIOUS
<1>1. outbox = <<>> /\ outbox \in Seq(JobRow) /\ Len(outbox) = 0 /\ DOMAIN outbox = {}
  BY EmptySeq DEF Init
<1>2. \A p \in Publishers : publishers[p] = <<>> /\ publishers[p] \in Seq(Claimed)
  BY EmptySeq DEF Init
<1>3. \A p \in Publishers : RowsDiffer(publishers[p]) /\ Claims(p) = {}
  BY <1>2 DEF RowsDiffer, Claims, Elements
<1>4. TypeOK
  BY <1>1, <1>2, OutboxAssumption DEF Init, TypeOK
<1> QED
  BY <1>1, <1>3, <1>4 DEF OInv, RowsOnce, ClaimsHandedOut, ClaimsApart, PublishedIsSent, SendBudget

\* Every step keeps the invariant.
LEMMA NextInvariant ==
    ASSUME OInv, [Next]_vars
    PROVE  OInv'
<1>1. CASE UNCHANGED vars
  <2>1. RowsLeft /\ ClaimsLeft
    BY <1>1, RowsUnchanged, ClaimsStay DEF vars
  <2>2. OtherTypes
    BY <1>1 DEF vars, OInv, TypeOK, OtherTypes
  <2> QED
    BY <2>1, <2>2, QuietStep
<1>2. CASE Tick \/ \E a \in Aggregates : AddRow(a) \/ RetryRow(a) \/ Receive(a) \/ Return(a)
  BY <1>2, SurroundingsStep
<1>3. ASSUME NEW p \in Publishers,
             \/ ClaimBatch(p) \/ Dispatch(p) \/ DispatchFails(p)
             \/ MarkPublished(p) \/ MarkFailed(p) \/ Abandon(p)
      PROVE  OInv'
  BY <1>3, ClaimBatchStep, DispatchStep, DispatchFailsStep, SettleStep
<1> QED
  BY <1>1, <1>2, <1>3 DEF Next

\* The invariant holds always.
THEOREM OutboxInvariant == Spec => []OInv
<1>1. OInv /\ [Next]_vars => OInv'
  BY NextInvariant
<1> QED
  BY <1>1, InitInvariant, PTL DEF Spec

\* The table, the publishers' batches and the broker have their types, and with them
\* the CHECK constraints hold: a row that is published or failed has no lease.
THEOREM OutboxTypes == Spec => []TypeOK
<1>1. OInv => TypeOK
  BY DEF OInv
<1> QED
  BY <1>1, OutboxInvariant, PTL

\* A claim that claim_unpublished_batch hands out belongs to one publisher.
THEOREM ClaimTokens == Spec => []ClaimToken
<1>1. OInv => ClaimToken
  <2> SUFFICES ASSUME OInv, NEW p \in Publishers, NEW q \in Publishers,
                      NEW j, NEW n, HasClaim(p, j, n), HasClaim(q, j, n)
               PROVE  p = q
    BY DEF ClaimToken
  <2>1. \E c \in Claims(p) : c.row = j /\ c.attempt = n
    BY DEF HasClaim, Claims, Elements
  <2>2. \E c \in Claims(q) : c.row = j /\ c.attempt = n
    BY DEF HasClaim, Claims, Elements
  <2> QED
    BY <2>1, <2>2 DEF OInv, ClaimsApart
<1> QED
  BY <1>1, OutboxInvariant, PTL

\* No row is marked published before its message is sent, and no claim sends twice,
\* whatever crashes, broker failures, expired leases and discards come between.
THEOREM Dispatched == Spec => []DispatchedAtLeastOnce
<1>1. OInv => DispatchedAtLeastOnce
  <2> SUFFICES ASSUME OInv, NEW j \in DOMAIN outbox
               PROVE  /\ outbox[j].state = "published" => outbox[j].sent > 0
                      /\ outbox[j].sent <= outbox[j].attempt
    BY DEF DispatchedAtLeastOnce
  <2>1. /\ outbox[j].attempt \in Nat /\ outbox[j].sent \in Nat
        /\ Cardinality(ToSend(j)) \in Nat
    BY RowsAreRows, ToSendIsFinite DEF OInv
  <2>2. outbox[j].sent + Cardinality(ToSend(j)) <= outbox[j].attempt
    BY DEF OInv, SendBudget
  <2>3. outbox[j].state = "published" => outbox[j].sent > 0
    BY DEF OInv, PublishedIsSent
  <2> QED
    BY <2>1, <2>2, <2>3
<1> QED
  BY <1>1, OutboxInvariant, PTL

\* A row that differs in the messages sent only, or not at all.
SameButSent(j) == outbox'[j] = [outbox[j] EXCEPT !.sent = outbox'[j].sent]

\* A row that stays as it is differs in nothing.
LEMMA SameRow ==
    ASSUME OInv, NEW j \in DOMAIN outbox, outbox'[j] = outbox[j]
    PROVE  SameButSent(j)
<1>1. outbox[j] \in JobRow
  BY RowsAreRows DEF OInv
<1> QED
  BY <1>1 DEF SameButSent, JobRow

\* A publisher that settles its first job had the claim on its row and gives it up.
LEMMA SettlerHadClaim ==
    ASSUME OInv, NEW p \in Publishers, Busy(p), Done(p), NEW j,
           j = Job(p).row, OwnedBy(j, Job(p).attempt), outbox'[j].attempt = outbox[j].attempt
    PROVE  HasClaim(p, j, outbox[j].attempt) /\ ~ HasClaim(p, j, outbox[j].attempt)'
<1>1. Job(p) \in Claims(p) /\ Job(p).attempt = outbox[j].attempt
  BY FirstJob DEF OwnedBy
<1>2. HasClaim(p, j, outbox[j].attempt)
  BY <1>1 DEF Claims, Elements, HasClaim
<1>3. \A c \in Elements(publishers'[p]) : c.row # j
  BY DoneEffect
<1>4. ~ HasClaim(p, j, outbox[j].attempt)'
  BY <1>3 DEF Elements, HasClaim
<1> QED
  BY <1>2, <1>4

\* While the publish lease of a row is alive, claim_unpublished_batch, schedule_retry
\* and late publishers leave it as it is; only the publisher that holds the claim
\* settles it, and gives the claim up.
THEOREM LivePublishLease == Spec => LivePublishLeaseRespected
<1>1. ASSUME OInv, Next, NEW j \in DOMAIN outbox,
             outbox[j].state = "waiting", outbox[j].lease > clock, ~ SameButSent(j)
      PROVE  \E p \in Publishers : /\ HasClaim(p, j, outbox[j].attempt)
                                   /\ ~ HasClaim(p, j, outbox[j].attempt)'
  <2>1. outbox'[j] # outbox[j]
    BY <1>1, SameRow
  <2>2. clock \in Nat /\ outbox[j].lease # 0 /\ ~ Claimable(j)
    BY <1>1, RowsAreRows, OutboxAssumption DEF OInv, TypeOK, Claimable
  <2>3. ASSUME NEW a \in Aggregates, AddRow(a) \/ RetryRow(a) \/ Receive(a) \/ Return(a)
        PROVE  outbox'[j] = outbox[j]
    BY <1>1, <2>2, <2>3, EnqueueEffect, SupersedeEffect DEF AddRow, RetryRow, Receive, Return
  <2>4. ASSUME NEW p \in Publishers, ClaimBatch(p) \/ Abandon(p)
        PROVE  outbox'[j] = outbox[j]
    BY <2>2, <2>4 DEF ClaimBatch, Batch, Abandon
  <2>5. ASSUME NEW p \in Publishers, MarkPublished(p) \/ MarkFailed(p)
        PROVE  HasClaim(p, j, outbox[j].attempt) /\ ~ HasClaim(p, j, outbox[j].attempt)'
    <3>1. PICK state \in RowStates : outbox' = Settled(p, state) /\ Done(p) /\ Busy(p)
      BY <2>5 DEF MarkPublished, MarkFailed, Settle, RowStates
    <3>2. /\ outbox'[j].attempt = outbox[j].attempt
          /\ j = Job(p).row /\ OwnedBy(j, Job(p).attempt)
      BY <1>1, <2>1, <3>1, SettledRows
    <3> QED
      BY <1>1, <3>1, <3>2, SettlerHadClaim
  <2>6. ASSUME NEW p \in Publishers, Dispatch(p)
        PROVE  SameButSent(j)
    <3> DEFINE r == Job(p).row
    <3>1. r \in DOMAIN outbox /\ outbox \in [DOMAIN outbox -> JobRow]
      BY <1>1, <2>6, FirstJob, RowsAreRows DEF OInv, Dispatch
    <3>2. outbox' = [outbox EXCEPT ![r].sent = @ + 1]
      BY <2>6 DEF Dispatch
    <3> HIDE DEF r
    <3>3. outbox' = [outbox EXCEPT ![r] = SentOnce(outbox[r])]
      BY <3>1, <3>2 DEF JobRow, SentOnce
    <3>4. j = r
      BY <2>1, <3>1, <3>3
    <3>5. outbox'[j] = SentOnce(outbox[j]) /\ outbox[j] \in JobRow
      BY <3>1, <3>3, <3>4
    <3> QED
      BY <3>5, SentFields DEF SameButSent
  <2>7. ASSUME NEW p \in Publishers, DispatchFails(p)
        PROVE  HasClaim(p, j, outbox[j].attempt) /\ ~ HasClaim(p, j, outbox[j].attempt)'
    <3> DEFINE O == Settled(p, "waiting")
               r == Job(p).row
    <3>1. /\ Busy(p) /\ Done(p)
          /\ outbox' = O \/ outbox' = [O EXCEPT ![r].sent = @ + 1]
      BY <2>7 DEF DispatchFails
    <3>2. /\ O \in Seq(JobRow) /\ DOMAIN O = DOMAIN outbox
          /\ O[j].attempt = outbox[j].attempt
          /\ \/ O[j] = outbox[j]
             \/ j = r /\ OwnedBy(j, Job(p).attempt)
      BY <1>1, <3>1, SettledRows DEF RowStates
    <3>3. r \in DOMAIN outbox
      BY <1>1, <3>1, FirstJob
    <3> HIDE DEF O, r
    <3>4. O \in [DOMAIN outbox -> JobRow]
      BY <3>2, LenProperties
    <3>5. outbox' = O \/ outbox' = [O EXCEPT ![r] = SentOnce(O[r])]
      BY <3>1, <3>3, <3>4 DEF JobRow, SentOnce
    <3>6. outbox'[j] = O[j] \/ outbox'[j] = SentOnce(O[j])
      BY <3>3, <3>4, <3>5
    <3>7. O[j] \in JobRow
      BY <3>4
    <3>8. O[j] # outbox[j]
      BY <1>1, <2>1, <3>6, <3>7, SentFields DEF SameButSent
    <3>9. outbox'[j].attempt = outbox[j].attempt
      BY <3>2, <3>6, <3>7, SentFields
    <3> QED
      BY <1>1, <3>1, <3>2, <3>8, <3>9, SettlerHadClaim DEF r
  <2>8. ~ Tick
    BY <2>1 DEF Tick
  <2> QED
    BY <1>1, <2>1, <2>3, <2>4, <2>5, <2>6, <2>7, <2>8 DEF Next
<1>2. OInv /\ [Next]_vars
      => [\A j \in DOMAIN outbox :
            /\ outbox[j].state = "waiting"
            /\ outbox[j].lease > clock
            /\ outbox'[j] # [outbox[j] EXCEPT !.sent = outbox'[j].sent]
            => \E p \in Publishers : HasClaim(p, j, outbox[j].attempt)
                                     /\ ~HasClaim(p, j, outbox[j].attempt)']_vars
  BY <1>1 DEF SameButSent
<1> QED
  BY <1>2, OutboxInvariant, PTL DEF Spec, LivePublishLeaseRespected

=============================================================================
