---------------------------- MODULE PagingProofs ----------------------------
(***************************************************************************)
(* Proofs about Paging, for any loops, lists, sizes of pages and changes:   *)
(* what loops over one window yield while the list changes at the service.  *)
(***************************************************************************)
EXTENDS Paging, FiniteSetTheorems, TLAPS

Things == New \cup UNION {Range(s.list) : s \in Scenes}
Places == {"start", "ask", "asked", "land", "show", "yield", "turn", "submit", "look"} \cup Over
Answers == [items : Seq(Things), more : BOOLEAN, count : Nat, pages : Nat]
Windows == [offset : Int, items : Seq(Things), more : BOOLEAN, count : Nat, pages : Nat]
Gens(D) == [next : Nat, total : Nat, jobs : Seq(D), i : Nat \ {0}, room : Nat]
Jobs == [is : {"none", "queued", "answered", "done", "failed"}, ans : Answers]

\* The pages all() may ask for while the list never has more than top items.
Span(top) == 0 .. Ceil(top, AllSize)

Types(D) ==
    /\ kind \in [Loops -> Kinds]
    /\ remote \in Seq(Things) /\ changes \in Nat /\ fails \in Nat
    /\ window \in Windows
    /\ at \in [Loops -> Places] /\ page \in [Loops -> Int]
    /\ answer \in [Loops -> Answers] /\ got \in [Loops -> Seq(Things)]
    /\ gen \in [Loops -> Gens(D)] /\ job \in [Loops -> [D -> Jobs]]
    /\ since \in [Loops -> SUBSET Things]
    /\ grew \subseteq Loops /\ shrank \subseteq Loops /\ strange \subseteq Loops

\* The counts that all() may go by: those answered.
Snap(n, D) ==
    \/ n = window.count
    \/ \E l \in Loops : at[l] = "land" /\ n = answer[l].count
    \/ \E l \in Loops : \E p \in D : job[l][p].is = "answered" /\ n = job[l][p].ans.count

\* No count is above top, nor misses an item that is not new.
Counts(top) ==
    /\ Len(remote) + changes <= top
    /\ IsInjective(remote)
    /\ \A n \in Nat : Snap(n, Span(top)) => n <= top /\ Cardinality(Range(remote) \ New) <= n
    /\ \A l \in Loops : gen[l].total \in Span(top)

Walks(l) == kind[l] \in {"pages", "reversed"}
KindInv(l, D) ==
    /\ kind[l] = "none" => at[l] = "ended" /\ got[l] = <<>>
    /\ Walks(l) => at[l] \in {"start", "ask", "asked", "land", "show", "yield", "turn",
                              "ended", "raised", "left"}
    /\ OfAll(l) => at[l] \in {"start", "submit", "look", "ended", "raised", "index_error", "left"}
    /\ ~OfAll(l) => \A p \in D : job[l][p].is = "none"
    /\ at[l] = "start" => got[l] = <<>>

\* Jobs are those of pages submitted and not yet taken.
JobsInv(l, D) ==
    /\ IsInjective(gen[l].jobs)
    /\ \A p \in Range(gen[l].jobs) : p < gen[l].next
    /\ \A p \in D : job[l][p].is # "none" <=> p \in Range(gen[l].jobs)
    /\ gen[l].next <= gen[l].total + 1
    /\ at[l] = "start" => gen[l].next = 0 /\ gen[l].jobs = <<>>

\* Places of the list that one page of all() shows, and that the pages of a set show.
Slot(p) == (p * AllSize + 1) .. ((p + 1) * AllSize)
Slots(T, n) == {k \in 1..n : \E p \in T : k \in Slot(p)}

\* Pages that all() has yielded.
Done(l) == (0 .. gen[l].next - 1) \ Range(gen[l].jobs)

Arrived == {"answered", "done"}

\* The list of get_all has room, if no item came and none was new.
RoomInv(l, D) ==
    OfAll(l) /\ at[l] # "start" /\ l \notin grew /\ since[l] \cap New = {} =>
      /\ at[l] # "index_error" /\ Len(remote) <= gen[l].room
      /\ \A p \in D : job[l][p].is \in Arrived =>
           /\ Len(job[l][p].ans.items) <= AllSize
           /\ Len(job[l][p].ans.items) >= 1 =>
                p * AllSize + Len(job[l][p].ans.items) <= gen[l].room
      /\ Len(got[l]) <= Cardinality(Slots(Done(l), gen[l].room))

\* While the list stays, the pages of all() fit together.
SteadyInv(l, D) ==
    OfAll(l) /\ at[l] # "start" /\ l \notin grew \cup shrank =>
      /\ since[l] = Range(remote)
      /\ \A p \in D : job[l][p].is \in Arrived =>
           job[l][p].ans.items = Query(remote, p, AllSize).items
      /\ IsInjective(got[l])
      /\ Range(got[l]) = {remote[k] : k \in Slots(Done(l), Len(remote))}

\* all() does not run out of jobs before the last page is submitted.
FinishInv(l) ==
    OfAll(l) =>
      /\ at[l] = "submit" /\ gen[l].next >= 1 => gen[l].jobs # <<>>
      /\ at[l] = "look" =>
           /\ gen[l].next >= 1
           /\ gen[l].next >= 2 /\ gen[l].next <= gen[l].total =>
                Len(gen[l].jobs) >= 1 /\ (gen[l].i = 1 => Len(gen[l].jobs) >= 2)
      /\ at[l] = "ended" =>
           gen[l].jobs = <<>> /\ (gen[l].next = 1 \/ gen[l].next = gen[l].total + 1)

\* Where the loop over the window is in the list: what lies before an edge, what behind.
Before(list, e) == {list[i] : i \in {j \in 1..Len(list) : j <= e}}
Beyond(list, e) == {list[i] : i \in {j \in 1..Len(list) : j > e}}
Asking(l) == at[l] \in {"ask", "asked"}
Holding(l) == at[l] \in {"land", "show", "yield", "turn"}
Edge(l) == IF Asking(l) = (kind[l] = "pages") THEN window.offset * PageSize
                                              ELSE (window.offset + 1) * PageSize
Passed(l) == IF kind[l] = "pages" THEN Before(remote, Edge(l)) ELSE Beyond(remote, Edge(l))
Ahead(l) == IF kind[l] = "pages" THEN Beyond(remote, Edge(l)) ELSE Before(remote, Edge(l))

\* The items it is about to yield, and whether there are more.
Hand(l) == IF at[l] \in {"land", "show"} THEN answer[l].items
           ELSE IF at[l] = "yield" THEN window.items ELSE <<>>
More(l) == IF at[l] = "land" THEN answer[l].more ELSE window.more
Had(l) == Range(got[l]) \cup Range(Hand(l))
Missed(l) == (since[l] \cap Range(remote)) \ Had(l)

OffsetInv(l) ==
    Walks(l) /\ l \notin strange =>
      /\ at[l] = "asked" => page[l] = window.offset
      /\ Holding(l) => window.offset >= 0
      /\ Asking(l) /\ kind[l] = "pages" => window.offset >= 0

\* A loop yields an item once ...
OnceInv(l) ==
    Walks(l) /\ l \notin strange /\ l \notin (IF kind[l] = "pages" THEN grew ELSE shrank) =>
      /\ IsInjective(got[l])
      /\ Asking(l) \/ Holding(l) =>
           /\ IsInjective(Hand(l)) /\ Range(Hand(l)) \cap Range(got[l]) = {}
           /\ Had(l) \cap Range(remote) \subseteq Passed(l)
           /\ kind[l] = "reversed" => Had(l) \subseteq Range(remote)
      /\ at[l] = "start" /\ kind[l] = "pages" /\ window.offset = 0 =>
           /\ IsInjective(window.items)
           /\ Range(window.items) \cap Range(remote) \subseteq Before(remote, PageSize)

\* ... and leaves none out.
WholeInv(l) ==
    Walks(l) /\ l \notin strange /\ l \notin (IF kind[l] = "pages" THEN shrank ELSE grew) =>
      /\ Asking(l) \/ Holding(l) => Missed(l) \subseteq Ahead(l)
      /\ kind[l] = "pages" /\ Holding(l) /\ ~More(l) => Missed(l) = {}
      /\ at[l] = "ended" => since[l] \cap Range(remote) \subseteq Range(got[l])
      /\ at[l] = "start" /\ kind[l] = "pages" /\ window.offset = 0 =>
           /\ (since[l] \cap Range(remote)) \ Range(window.items) \subseteq Beyond(remote, PageSize)
           /\ ~window.more => since[l] \cap Range(remote) \subseteq Range(window.items)
      /\ at[l] = "start" /\ kind[l] = "reversed" =>
           Len(remote) <= window.pages * PageSize

-----------------------------------------------------------------------------
\* Sizes and pages.
LEMMA Sizes == PageSize \in Nat /\ PageSize >= 1 /\ AllSize \in Nat /\ AllSize >= 1
BY PagingAssumption

LEMMA CeilNat == \A n \in Nat : \A s \in Nat \ {0} :
                    Ceil(n, s) \in Nat /\ Ceil(n, s) * s >= n
BY DEF Ceil

LEMMA CeilGrows == \A m, n \in Nat : \A s \in Nat \ {0} : m <= n => Ceil(m, s) <= Ceil(n, s)
BY DEF Ceil

LEMMA SpanNat == ASSUME NEW top \in Nat PROVE Span(top) \subseteq Nat /\ 0 \in Span(top)
BY CeilNat, Sizes DEF Span

LEMMA SpanCeil == ASSUME NEW top \in Nat, NEW n \in Nat, n <= top
                  PROVE  Ceil(n, AllSize) \in Span(top)
BY CeilNat, CeilGrows, Sizes DEF Span

LEMMA SpanBelow == ASSUME NEW top \in Nat, NEW q \in Span(top), NEW p \in Nat, p <= q
                   PROVE  p \in Span(top)
BY CeilNat, Sizes DEF Span

LEMMA Times == \A p \in Int : \A s \in Nat :
                   p * s \in Int /\ (p + 1) * s \in Int /\ (p + 1) * s = p * s + s
OBVIOUS

LEMMA TimesNat == \A p \in Nat : \A s \in Nat : p * s \in Nat
OBVIOUS

LEMMA MinIs == ASSUME NEW m \in Int, NEW n \in Int
               PROVE  Min({m, n}) = IF m <= n THEN m ELSE n
BY DEF Min

\* Of a sequence without one of its entries.
LEMMA Removed ==
    ASSUME NEW S, NEW s \in Seq(S), NEW i \in 1..Len(s)
    PROVE  /\ RemoveAt(s, i) \in Seq(S) /\ Len(RemoveAt(s, i)) = Len(s) - 1
           /\ \A j \in 1..(Len(s) - 1) : RemoveAt(s, i)[j] = s[IF j < i THEN j ELSE j + 1]
<1> DEFINE a == SubSeq(s, 1, i - 1)
           b == SubSeq(s, i + 1, Len(s))
<1>1. a \in Seq(S) /\ Len(a) = i - 1 /\ \A j \in 1..(i - 1) : a[j] = s[j]
  OBVIOUS
<1>2. b \in Seq(S) /\ Len(b) = Len(s) - i /\ \A j \in 1..(Len(s) - i) : b[j] = s[i + j]
  OBVIOUS
<1>3. RemoveAt(s, i) = a \o b  BY DEF RemoveAt
<1> HIDE DEF a, b
<1>4. RemoveAt(s, i) \in Seq(S) /\ Len(RemoveAt(s, i)) = Len(s) - 1
  BY <1>1, <1>2, <1>3
<1>5. ASSUME NEW j \in 1..(Len(s) - 1)
      PROVE  RemoveAt(s, i)[j] = s[IF j < i THEN j ELSE j + 1]
  <2>1. CASE j < i  BY <1>1, <1>2, <1>3, <2>1
  <2>2. CASE ~(j < i)
    <3>1. j - (i - 1) \in 1..(Len(s) - i) /\ i + (j - (i - 1)) = j + 1  BY <2>2
    <3>2. (a \o b)[j] = b[j - (i - 1)]  BY <1>1, <1>2, <2>2
    <3> QED  BY <1>2, <1>3, <2>2, <3>1, <3>2
  <2> QED  BY <2>1, <2>2
<1> QED  BY <1>4, <1>5

LEMMA RangeIs == ASSUME NEW S, NEW s \in Seq(S)
                 PROVE  /\ Range(s) = {s[j] : j \in 1..Len(s)} /\ Range(s) \subseteq S
                        /\ \A x \in Range(s) : \E j \in 1..Len(s) : x = s[j]
                        /\ \A j \in 1..Len(s) : s[j] \in Range(s)
BY DEF Range

LEMMA InjectiveIs == ASSUME NEW S, NEW s \in Seq(S)
                     PROVE  IsInjective(s) <=> \A i, j \in 1..Len(s) : s[i] = s[j] => i = j
BY DEF IsInjective

LEMMA RemovedApart ==
    ASSUME NEW S, NEW s \in Seq(S), NEW i \in 1..Len(s), IsInjective(s)
    PROVE  IsInjective(RemoveAt(s, i)) /\ Range(RemoveAt(s, i)) = Range(s) \ {s[i]}
<1> DEFINE r == RemoveAt(s, i)
<1>1. /\ r \in Seq(S) /\ Len(r) = Len(s) - 1
      /\ \A j \in 1..(Len(s) - 1) : r[j] = s[IF j < i THEN j ELSE j + 1]
  BY Removed
<1>2. \A j, k \in 1..Len(s) : s[j] = s[k] => j = k  BY InjectiveIs
<1> HIDE DEF r
<1>3. IsInjective(r)
  <2>1. ASSUME NEW j \in 1..Len(r), NEW k \in 1..Len(r), r[j] = r[k]  PROVE j = k
    BY <1>1, <1>2, <2>1
  <2> QED  BY <1>1, <2>1, InjectiveIs
<1>4. Range(r) \subseteq Range(s) \ {s[i]}
  <2>1. ASSUME NEW j \in 1..Len(r)  PROVE r[j] \in Range(s) \ {s[i]}
    <3>1. PICK k \in 1..Len(s) : r[j] = s[k] /\ k # i  BY SMTT(30), <1>1
    <3> QED  BY <1>2, <3>1, RangeIs
  <2> QED  BY <1>1, <2>1, RangeIs
<1>5. Range(s) \ {s[i]} \subseteq Range(r)
  <2>1. ASSUME NEW k \in 1..Len(s), k # i  PROVE s[k] \in Range(r)
    <3>1. PICK j \in 1..Len(r) : r[j] = s[k]
      <4>1. CASE k < i  BY <1>1, <4>1
      <4>2. CASE k > i
        <5>1. k - 1 \in 1..Len(r) /\ ~(k - 1 < i) /\ (k - 1) + 1 = k  BY <1>1, <4>2
        <5> QED  BY <1>1, <5>1
      <4> QED  BY <2>1, <4>1, <4>2
    <3> QED  BY <1>1, <3>1, RangeIs
  <2>2. ASSUME NEW x \in Range(s), x # s[i]  PROVE x \in Range(r)
    <3>1. PICK k \in 1..Len(s) : x = s[k]  BY RangeIs
    <3> QED  BY <2>1, <2>2, <3>1
  <2> QED  BY <2>2
<1> QED  BY <1>3, <1>4, <1>5 DEF r
-----------------------------------------------------------------------------
\* Of a page.
Shows(q, list, p, size) ==
    /\ q = [items |-> q.items, more |-> q.more, count |-> q.count, pages |-> q.pages]
    /\ q.count = Len(list) /\ q.pages = Ceil(Len(list), size)
    /\ q.more = ((p + 1) * size < Len(list))
    /\ Len(q.items) <= size
    /\ Len(q.items) >= 1 => p * size + Len(q.items) <= Len(list)
    /\ \A j \in 1..Len(q.items) : /\ p * size + j \in 1..Len(list)
                                  /\ p * size + j <= (p + 1) * size
                                  /\ q.items[j] = list[p * size + j]
    /\ \A k \in 1..Len(list) :
         p * size < k /\ k <= (p + 1) * size =>
           k - p * size \in 1..Len(q.items) /\ q.items[k - p * size] = list[k]

LEMMA Queried ==
    ASSUME NEW S, NEW list \in Seq(S), NEW p \in Nat, NEW size \in Nat, size >= 1
    PROVE  Query(list, p, size).items \in Seq(S) /\ Shows(Query(list, p, size), list, p, size)
<1> DEFINE m == p * size
           top == (p + 1) * size
           n == Len(list)
           e == IF top <= n THEN top ELSE n
           items == SubSeq(list, m + 1, e)
<1>1. m \in Nat /\ top = m + size /\ top \in Nat  BY Times, TimesNat
<1>2. n \in Nat  OBVIOUS
<1>3. Min({top, n}) = e  BY <1>1, <1>2, MinIs
<1>4. Query(list, p, size) =
        [items |-> items, more |-> top < n, count |-> n, pages |-> Ceil(n, size)]
  BY <1>3 DEF Query
<1> HIDE DEF m, top
<1>5. e \in Nat /\ e <= n /\ e <= m + size  BY <1>1, <1>2
<1>6. items \in Seq(S) /\ Len(items) = IF m + 1 <= e THEN e - m ELSE 0
  BY <1>1, <1>2, <1>5
<1>7. \A j \in 1..Len(items) : items[j] = list[m + j]  BY SMTT(30), <1>1, <1>2, <1>5
<1>8. \A k \in 1..n : m < k /\ k <= top => k <= e  BY <1>1, <1>2
<1> HIDE DEF e, items, n
<1>9. /\ Len(items) <= size
      /\ Len(items) >= 1 => m + Len(items) <= n
  BY <1>1, <1>2, <1>5, <1>6
<1>10. \A j \in 1..Len(items) : m + j \in 1..n /\ m + j <= top /\ items[j] = list[m + j]
  BY <1>1, <1>2, <1>5, <1>6, <1>7
<1>11. \A k \in 1..n : m < k /\ k <= top =>
           k - m \in 1..Len(items) /\ items[k - m] = list[k]
  <2> SUFFICES ASSUME NEW k \in 1..n, m < k, k <= top
               PROVE  k - m \in 1..Len(items) /\ items[k - m] = list[k]
    OBVIOUS
  <2>1. k <= e  BY <1>8
  <2>2. k - m \in 1..Len(items) /\ m + (k - m) = k  BY <1>1, <1>2, <1>5, <1>6, <2>1
  <2> QED  BY <1>7, <2>2
<1> QED  BY <1>4, <1>6, <1>9, <1>10, <1>11 DEF m, top, n, Shows

LEMMA QueryType ==
    ASSUME NEW list \in Seq(Things), NEW p \in Nat, NEW size \in Nat, size >= 1
    PROVE  Query(list, p, size) \in Answers
<1> DEFINE q == Query(list, p, size)
<1>0. q.items \in Seq(Things) /\ Shows(q, list, p, size)  BY Queried
<1>1. /\ q = [items |-> q.items, more |-> q.more, count |-> q.count, pages |-> q.pages]
      /\ q.items \in Seq(Things) /\ q.count = Len(list) /\ q.pages = Ceil(Len(list), size)
      /\ q.more = ((p + 1) * size < Len(list))
  BY <1>0 DEF Shows
<1>2. q.count \in Nat /\ q.pages \in Nat /\ q.more \in BOOLEAN
  BY <1>1, CeilNat
<1> HIDE DEF q
<1>3. q \in Answers  BY <1>1, <1>2 DEF Answers
<1> QED  BY <1>3 DEF q

LEMMA NothingType == Nothing \in Answers /\ NoJob \in Jobs
<1>1. <<>> \in Seq(Things)  OBVIOUS
<1>2. Nothing \in Answers  BY <1>1, QueryType, Sizes DEF Nothing
<1> QED  BY <1>2 DEF NoJob, Jobs
-----------------------------------------------------------------------------
\* Steps of a loop over the window, and of a loop of all().
WalkStep(l) ==
    \/ BeginPages(l) \/ BeginReversed(l) \/ Ask(l) \/ Answered(l) \/ Refused(l)
    \/ Land(l) \/ Show(l) \/ Yield(l) \/ Turn(l)
AllStep(l) ==
    \/ BeginAll(l) \/ Submit(l) \/ Take(l) \/ NotYet(l) \/ AllRaises(l) \/ PassEnds(l)

LEMMA StepIs == ASSUME NEW l PROVE LoopStep(l) <=> WalkStep(l) \/ AllStep(l)
BY Zenon DEF LoopStep, WalkStep, AllStep

LEMMA RemoteItems == ASSUME NEW D, Types(D) PROVE Range(remote) \subseteq Things
BY RangeIs DEF Types

LEMMA StrangeType ==
    ASSUME NEW D, Types(D), NEW l \in Loops
    PROVE  /\ Wrote(l) => strange' \subseteq Loops
           /\ Others => /\ since' \in [Loops -> SUBSET Things]
                        /\ grew' \subseteq Loops /\ shrank' \subseteq Loops
           /\ FreshStart(l) => /\ since' \in [Loops -> SUBSET Things]
                               /\ grew' \subseteq Loops /\ shrank' \subseteq Loops
BY RemoteItems DEF Types, Wrote, Others, FreshStart

LEMMA Moved ==
    ASSUME NEW w \in Windows, NEW n \in Int
    PROVE  [w EXCEPT !.offset = n] \in Windows
BY DEF Windows

LEMMA WalkTypes ==
    ASSUME NEW D, Types(D), NEW l \in Loops, WalkStep(l) \/ Leave(l)
    PROVE  Types(D)'
<1> USE StrangeType
<1>0. window \in Windows  BY DEF Types
<1>1. CASE BeginPages(l)
  <2>1. /\ window' = [window EXCEPT !.offset = 0] \/ window' = window
        /\ Goto(l, "ask") \/ Goto(l, "yield")
        /\ strange' = (strange \cup Loops) \ {l} \/ strange' = strange
    BY <1>1 DEF BeginPages
  <2>3. window' \in Windows
    <3>1. [window EXCEPT !.offset = 0] \in Windows  BY <1>0, Moved
    <3> QED  BY <1>0, <2>1, <3>1
  <2>4. at' \in [Loops -> Places] /\ strange' \subseteq Loops  BY <2>1 DEF Types, Goto, Places
  <2>2. Others \/ FreshStart(l)  BY <1>1 DEF BeginPages
  <2> QED  BY <1>1, <2>2, <2>3, <2>4 DEF BeginPages, Types, service
<1>2. CASE BeginReversed(l)
  <2>1. window.pages - 1 \in Int  BY DEF Types, Windows
  <2>2. window' \in Windows  BY <1>0, <1>2, <2>1, Moved DEF BeginReversed
  <2>3. at' \in [Loops -> Places]  BY <1>2 DEF BeginReversed, Types, Goto, Places
  <2> QED  BY <1>2, <2>2, <2>3 DEF BeginReversed, Types, service
<1>3. CASE Ask(l)
  <2>1. at' \in [Loops -> Places] /\ page' \in [Loops -> Int]
    BY <1>3 DEF Ask, Types, Windows, Goto, Places
  <2> QED  BY <1>3, <2>1 DEF Ask, Types, service
<1>4. CASE Answered(l)
  <2>1. page[l] \in Nat  BY <1>4 DEF Answered, Types
  <2>2. Query(remote, page[l], PageSize) \in Answers  BY <2>1, QueryType, Sizes DEF Types
  <2>3. at' \in [Loops -> Places] /\ answer' \in [Loops -> Answers]
    BY <1>4, <2>2 DEF Answered, Types, Goto, Places
  <2> QED  BY <1>4, <2>3 DEF Answered, Types, service
<1>5. CASE Refused(l)
  <2>1. at' \in [Loops -> Places] /\ fails' \in Nat
    BY <1>5 DEF Refused, Types, Goto, Places, Over
  <2> QED  BY <1>5, <2>1 DEF Refused, Types
<1>6. CASE Land(l)
  <2>1. at' \in [Loops -> Places] /\ window' \in Windows
    BY <1>6 DEF Land, Processed, Types, Windows, Answers, Goto, Places
  <2> QED  BY <1>6, <2>1 DEF Land, Types, service
<1>7. CASE Show(l)
  <2>1. /\ at' \in [Loops -> Places] /\ window' \in Windows
        /\ answer' \in [Loops -> Answers]
    BY <1>7, NothingType DEF Show, Types, Windows, Answers, Goto, Places
  <2> QED  BY <1>7, <2>1 DEF Show, Types, service
<1>8. CASE Yield(l)
  <2>1. got[l] \o window.items \in Seq(Things)  BY DEF Types, Windows
  <2>2. at' \in [Loops -> Places] /\ got' \in [Loops -> Seq(Things)]
    BY <1>8, <2>1 DEF Yield, Types, Goto, Places
  <2> QED  BY <1>8, <2>2 DEF Yield, Types, service
<1>9. CASE Turn(l)
  <2>1. window.offset + 1 \in Int /\ window.offset + (-1) \in Int  BY DEF Types, Windows
  <2>2. /\ \/ window' = [window EXCEPT !.offset = window.offset + 1]
           \/ window' = [window EXCEPT !.offset = window.offset + (-1)]
           \/ window' = window
        /\ Goto(l, "ask") \/ Goto(l, "ended")
        /\ Wrote(l) \/ strange' = strange
    BY <1>9, Zenon DEF Turn
  <2>3. window' \in Windows  BY <1>0, <2>1, <2>2, Moved
  <2>4. at' \in [Loops -> Places] /\ strange' \subseteq Loops
    BY <2>2 DEF Types, Goto, Places, Over
  <2> QED  BY <1>9, <2>3, <2>4 DEF Turn, Types, service
<1>10. CASE Leave(l)
  <2>1. at' \in [Loops -> Places]  BY <1>10 DEF Leave, Types, Goto, Places, Over
  <2> QED  BY <1>10, <2>1 DEF Leave, Types, service
<1> QED  BY <1>1, <1>2, <1>3, <1>4, <1>5, <1>6, <1>7, <1>8, <1>9, <1>10 DEF WalkStep

LEMMA GenOf ==
    ASSUME NEW D, Types(D), NEW l \in Loops, NEW g \in Gens(D), gen' = [gen EXCEPT ![l] = g]
    PROVE  gen' \in [Loops -> Gens(D)]
BY DEF Types

LEMMA GenWith ==
    ASSUME NEW D, NEW g \in Gens(D), NEW js \in Seq(D), NEW n \in Nat, NEW i \in Nat \ {0}
    PROVE  /\ [g EXCEPT !.jobs = js, !.next = n, !.i = i] \in Gens(D)
           /\ [g EXCEPT !.jobs = js, !.i = i] \in Gens(D) /\ [g EXCEPT !.i = i] \in Gens(D)
BY DEF Gens

LEMMA JobOf ==
    ASSUME NEW D, Types(D), NEW l \in Loops, NEW p \in D, NEW j \in Jobs,
           job' = [job EXCEPT ![l][p] = j]
    PROVE  job' \in [Loops -> [D -> Jobs]]
BY DEF Types

LEMMA AllTypes ==
    ASSUME NEW D, D \subseteq Nat, Types(D), NEW l \in Loops, AllStep(l), JobsInv(l, D),
           MorePages(l) => gen[l].next \in D
    PROVE  Types(D)'
<1> USE StrangeType
<1>0. gen[l] \in Gens(D) /\ job[l] \in [D -> Jobs] /\ window \in Windows  BY DEF Types
<1>1. CASE BeginAll(l)
  <2>1. window.count \in Nat  BY <1>0 DEF Windows
  <2>4. Ceil(window.count, AllSize) \in Nat  BY <2>1, CeilNat, PagingAssumption
  <2>5. gen' = [gen EXCEPT ![l] = [gen[l] EXCEPT !.total = Ceil(window.count, AllSize),
                                                 !.room = window.count]]
    BY <1>1 DEF BeginAll, Counted, Types
  <2>6. [gen[l] EXCEPT !.total = Ceil(window.count, AllSize), !.room = window.count] \in Gens(D)
    BY <1>0, <2>1, <2>4 DEF Gens
  <2>2. gen' \in [Loops -> Gens(D)]  BY <2>5, <2>6, GenOf
  <2>3. at' \in [Loops -> Places]  BY <1>1 DEF BeginAll, Types, Goto, Places
  <2> QED  BY <1>1, <2>2, <2>3 DEF BeginAll, Types, service
<1>2. CASE Submit(l)
  <2>1. at' \in [Loops -> Places]  BY <1>2 DEF Submit, Types, Goto, Places
  <2>2. gen' \in [Loops -> Gens(D)] /\ job' \in [Loops -> [D -> Jobs]]
    <3>1. CASE MorePages(l)
      <4>1. gen[l].next \in D  BY <3>1
      <4>2. Append(gen[l].jobs, gen[l].next) \in Seq(D) /\ gen[l].next + 1 \in Nat
        BY <1>0, <4>1 DEF Gens
      <4> DEFINE js == Append(gen[l].jobs, gen[l].next)
                 n == gen[l].next + 1
      <4>3. gen' = [gen EXCEPT ![l] = [gen[l] EXCEPT !.jobs = js, !.next = n, !.i = 1]]
        BY <1>2, <3>1 DEF Submit, Types
      <4> HIDE DEF js, n
      <4>9. js \in Seq(D) /\ n \in Nat /\ 1 \in Nat \ {0}  BY <4>2 DEF js, n
      <4>7. [gen[l] EXCEPT !.jobs = js, !.next = n, !.i = 1] \in Gens(D)
        BY <1>0, <4>9, GenWith
      <4>4. gen' \in [Loops -> Gens(D)]  BY <4>3, <4>7, GenOf
      <4>5. job' = [job EXCEPT ![l][gen[l].next] =
                       [job[l][gen[l].next] EXCEPT !.is = "queued"]]
        BY <1>2, <3>1 DEF Submit, Types
      <4>8. [job[l][gen[l].next] EXCEPT !.is = "queued"] \in Jobs
        BY <1>0, <4>1 DEF Jobs
      <4>6. job' \in [Loops -> [D -> Jobs]]  BY <4>1, <4>5, <4>8, JobOf
      <4> QED  BY <4>4, <4>6
    <3>2. CASE ~MorePages(l)
      <4>1. gen' = [gen EXCEPT ![l] = [gen[l] EXCEPT !.i = 1]] /\ job' = job
        BY <1>2, <3>2 DEF Submit, Types
      <4>2. [gen[l] EXCEPT !.i = 1] \in Gens(D)  BY SMTT(30), <1>0 DEF Gens
      <4>3. gen' \in [Loops -> Gens(D)]  BY <4>1, <4>2, GenOf
      <4> QED  BY <4>1, <4>3 DEF Types
    <3> QED  BY <3>1, <3>2
  <2> QED  BY <1>2, <2>1, <2>2 DEF Submit, Types, service
<1>3. CASE Take(l)
  <2> DEFINE p == gen[l].jobs[gen[l].i]
  <2>1. gen[l].i \in 1..Len(gen[l].jobs) /\ p \in D
    BY <1>0, <1>3 DEF Take, Looking, Gens
  <2>2. Seen(l).ans.items \in Seq(Things)
    BY <1>0, <2>1 DEF Seen, Jobs, Answers
  <2>3. got[l] \o Seen(l).ans.items \in Seq(Things)  BY <2>2 DEF Types
  <2>4. got' \in [Loops -> Seq(Things)]  BY <1>3, <2>3 DEF Take, Types
  <2>10. gen[l].jobs \in Seq(D) /\ gen[l].i + 1 \in Nat \ {0}  BY <1>0 DEF Gens
  <2>5. RemoveAt(gen[l].jobs, gen[l].i) \in Seq(D)  BY <2>1, <2>10, Removed
  <2>6. gen' = [gen EXCEPT ![l] = [gen[l] EXCEPT !.jobs = RemoveAt(gen[l].jobs, gen[l].i),
                                                 !.i = gen[l].i + 1]]
    BY <1>3 DEF Take, Taken, Types
  <2>11. [gen[l] EXCEPT !.jobs = RemoveAt(gen[l].jobs, gen[l].i), !.i = gen[l].i + 1] \in Gens(D)
    BY <1>0, <2>5, <2>10 DEF Gens
  <2>7. gen' \in [Loops -> Gens(D)]  BY <2>6, <2>11, GenOf
  <2>8. job' = [job EXCEPT ![l][p] = NoJob]  BY <1>3 DEF Take
  <2> HIDE DEF p
  <2>9. job' \in [Loops -> [D -> Jobs]]  BY <2>1, <2>8, NothingType DEF Types
  <2> QED  BY <1>3, <2>4, <2>7, <2>9 DEF Take, Types, service
<1>4. CASE NotYet(l)
  <2>1. gen' = [gen EXCEPT ![l] = [gen[l] EXCEPT !.i = gen[l].i + 1]]
    BY <1>4 DEF NotYet, Types
  <2>4. gen[l].i + 1 \in Nat \ {0} /\ gen[l].jobs \in Seq(D)  BY <1>0 DEF Gens
  <2>3. [gen[l] EXCEPT !.i = gen[l].i + 1] \in Gens(D)  BY <1>0, <2>4, GenWith
  <2>2. gen' \in [Loops -> Gens(D)]  BY <2>1, <2>3, GenOf
  <2> QED  BY <1>4, <2>2 DEF NotYet, Types, service
<1>5. CASE AllRaises(l)
  <2>1. at' \in [Loops -> Places]  BY <1>5 DEF AllRaises, Types, Goto, Places, Over
  <2> QED  BY <1>5, <2>1 DEF AllRaises, Types, service
<1>6. CASE PassEnds(l)
  <2>1. at' \in [Loops -> Places]  BY <1>6 DEF PassEnds, Types, Goto, Places, Over
  <2> QED  BY <1>6, <2>1 DEF PassEnds, Types, service
<1> QED  BY <1>1, <1>2, <1>3, <1>4, <1>5, <1>6 DEF AllStep

LEMMA JobTypes ==
    ASSUME NEW D, D \subseteq Nat, Types(D), NEW l \in Loops, NEW p \in D, JobStep(l, p)
    PROVE  Types(D)'
<1> USE StrangeType
<1>0. job[l] \in [D -> Jobs] /\ job[l][p] \in Jobs  BY DEF Types
<1>1. CASE JobAnswered(l, p)
  <2>1. Query(remote, p, AllSize) \in Answers  BY QueryType, Sizes DEF Types
  <2>2. job' \in [Loops -> [D -> Jobs]]
    <3>1. CASE job' = [job EXCEPT ![l][p] = [is |-> "answered",
                                             ans |-> Query(remote, p, AllSize)]]
      <4>1. [is |-> "answered", ans |-> Query(remote, p, AllSize)] \in Jobs
        BY <2>1 DEF Jobs
      <4> QED  BY <3>1, <4>1, JobOf
    <3>2. CASE job' = [job EXCEPT ![l][p].is = "failed"]
      <4>1. [job[l][p] EXCEPT !.is = "failed"] \in Jobs  BY <1>0 DEF Jobs
      <4>2. job' = [job EXCEPT ![l][p] = [job[l][p] EXCEPT !.is = "failed"]]
        BY <3>2 DEF Types
      <4> QED  BY <4>1, <4>2, JobOf
    <3> QED  BY <1>1, <3>1, <3>2 DEF JobAnswered
  <2>3. fails' \in Nat  BY <1>1 DEF JobAnswered, Types
  <2> QED  BY <1>1, <2>2, <2>3 DEF JobAnswered, Types
<1>2. CASE JobLands(l, p)
  <2>3. job' = [job EXCEPT ![l][p] = [job[l][p] EXCEPT !.is = "done"]]
    BY <1>2 DEF JobLands, Types
  <2>4. [job[l][p] EXCEPT !.is = "done"] \in Jobs  BY <1>0 DEF Jobs
  <2>1. job' \in [Loops -> [D -> Jobs]]  BY <2>3, <2>4, JobOf
  <2>2. window' \in Windows
    <3>1. job[l][p].ans \in Answers  BY <1>0 DEF Jobs
    <3> QED  BY <1>2, <3>1 DEF JobLands, Processed, Types, Windows, Answers
  <2> QED  BY <1>2, <2>1, <2>2 DEF JobLands, Types, service
<1> QED  BY <1>1, <1>2 DEF JobStep

LEMMA OthersTypes ==
    ASSUME NEW D, Types(D), (\E x \in New : Publish(x)) \/ (\E i \in DOMAIN remote : Withdraw(i))
    PROVE  Types(D)'
<1>1. ASSUME NEW x \in New, Publish(x)  PROVE Types(D)'
  <2>1. x \in Things  BY DEF Things
  <2>2. <<x>> \o remote \in Seq(Things) /\ Append(remote, x) \in Seq(Things)
    BY <2>1 DEF Types
  <2>3. remote' \in Seq(Things)  BY <1>1, <2>2 DEF Publish
  <2>4. changes' \in Nat  BY <1>1 DEF Publish, Types
  <2> QED  BY <1>1, <2>3, <2>4 DEF Publish, Types
<1>2. ASSUME NEW i \in DOMAIN remote, Withdraw(i)  PROVE Types(D)'
  <2>1. i \in 1..Len(remote)  BY DEF Types
  <2>2. remote \in Seq(Things)  BY DEF Types
  <2>3. remote' \in Seq(Things)  BY <1>2, <2>1, <2>2, Removed DEF Withdraw
  <2>4. changes' \in Nat  BY <1>2 DEF Withdraw, Types
  <2> QED  BY <1>2, <2>3, <2>4 DEF Withdraw, Types
<1> QED  BY <1>1, <1>2
-----------------------------------------------------------------------------
\* A step of one loop leaves the others where they are, but for the window.
Same(k) ==
    /\ kind'[k] = kind[k] /\ at'[k] = at[k] /\ page'[k] = page[k] /\ answer'[k] = answer[k]
    /\ got'[k] = got[k] /\ gen'[k] = gen[k] /\ job'[k] = job[k] /\ since'[k] = since[k]
    /\ (k \in grew' <=> k \in grew) /\ (k \in shrank' <=> k \in shrank)
    /\ k \in strange => k \in strange'
    /\ k \notin strange' => window' = window
Still == remote' = remote /\ changes' = changes /\ kind' = kind

LEMMA SameHistory ==
    ASSUME NEW D, Types(D), NEW l \in Loops, NEW k \in Loops \ {l}
    PROVE  /\ Wrote(l) => k \in strange'
           /\ strange' = (strange \cup Loops) \ {l} => k \in strange'
           /\ Others \/ FreshStart(l) =>
                /\ since'[k] = since[k]
                /\ (k \in grew' <=> k \in grew) /\ (k \in shrank' <=> k \in shrank)
BY DEF Types, Wrote, Others, FreshStart

LEMMA WalkApart ==
    ASSUME NEW D, Types(D), NEW l \in Loops, WalkStep(l) \/ Leave(l)
    PROVE  Still /\ \A k \in Loops \ {l} : Same(k)
<1>1. Still
  BY Zenon DEF Still, service, WalkStep, BeginPages, BeginReversed, Ask, Answered, Refused,
               Land, Show, Yield, Turn, Leave
<1>2. ASSUME NEW k \in Loops \ {l}  PROVE Same(k)
  <2>0. kind' = kind  BY <1>1 DEF Still
  <2>1. at'[k] = at[k]
    BY DEF WalkStep, Leave, BeginPages, BeginReversed, Ask, Answered, Refused,
           Land, Show, Yield, Turn, Goto, Types
  <2>2. page'[k] = page[k] /\ gen'[k] = gen[k] /\ job'[k] = job[k]
    BY DEF WalkStep, Leave, BeginPages, BeginReversed, Ask, Answered, Refused,
           Land, Show, Yield, Turn, Types
  <2>3. answer'[k] = answer[k] /\ got'[k] = got[k]
    BY DEF WalkStep, Leave, BeginPages, BeginReversed, Ask, Answered, Refused,
           Land, Show, Yield, Turn, Types
  <2>4. Others \/ FreshStart(l)
    BY Zenon DEF WalkStep, Leave, BeginPages, BeginReversed, Ask, Answered, Refused,
           Land, Show, Yield, Turn
  <2>5. \/ Wrote(l) \/ strange' = (strange \cup Loops) \ {l}
        \/ strange' = strange /\ window' = window
    BY Zenon DEF WalkStep, Leave, BeginPages, BeginReversed, Ask, Answered, Refused,
           Land, Show, Yield, Turn
  <2>6. (k \in strange => k \in strange') /\ (k \notin strange' => window' = window)
    BY <2>5, SameHistory, Zenon
  <2>7. /\ since'[k] = since[k]
        /\ (k \in grew' <=> k \in grew) /\ (k \in shrank' <=> k \in shrank)
    BY <2>4, SameHistory, Zenon
  <2> QED  BY <2>0, <2>1, <2>2, <2>3, <2>6, <2>7, Zenon DEF Same
<1> QED  BY <1>1, <1>2

LEMMA AllApart ==
    ASSUME NEW D, Types(D), NEW l \in Loops, AllStep(l)
    PROVE  /\ Still /\ window' = window /\ strange' = strange
           /\ \A k \in Loops \ {l} : Same(k)
<1>1. Still /\ window' = window /\ strange' = strange
  BY Zenon DEF Still, service, AllStep, BeginAll, Submit, Take, NotYet, AllRaises, PassEnds
<1>2. ASSUME NEW k \in Loops \ {l}  PROVE Same(k)
  <2>0. kind' = kind  BY <1>1 DEF Still
  <2>1. at'[k] = at[k]
    BY DEF AllStep, BeginAll, Submit, Take, NotYet, AllRaises, PassEnds, Goto, Types
  <2>2. page' = page /\ answer' = answer
    BY Zenon DEF AllStep, BeginAll, Submit, Take, NotYet, AllRaises, PassEnds
  <2>3. gen'[k] = gen[k]
    BY DEF AllStep, BeginAll, Submit, Take, NotYet, AllRaises, PassEnds, Types
  <2>4. job'[k] = job[k]
    BY DEF AllStep, BeginAll, Submit, Take, NotYet, AllRaises, PassEnds, Types
  <2>5. got'[k] = got[k]
    BY DEF AllStep, BeginAll, Submit, Take, NotYet, AllRaises, PassEnds, Types
  <2>6. Others \/ FreshStart(l)
    BY Zenon DEF AllStep, BeginAll, Submit, Take, NotYet, AllRaises, PassEnds
  <2>7. /\ since'[k] = since[k]
        /\ (k \in grew' <=> k \in grew) /\ (k \in shrank' <=> k \in shrank)
    BY <2>6, SameHistory, Zenon
  <2> QED  BY <1>1, <2>0, <2>1, <2>2, <2>3, <2>4, <2>5, <2>7, Zenon DEF Same
<1> QED  BY <1>1, <1>2

LEMMA JobApart ==
    ASSUME NEW D, Types(D), NEW l \in Loops, NEW p \in D, JobStep(l, p)
    PROVE  /\ Still /\ \A k \in Loops \ {l} : Same(k)
           /\ at' = at /\ page' = page /\ answer' = answer /\ got' = got /\ gen' = gen
           /\ since' = since /\ grew' = grew /\ shrank' = shrank
<1>1. /\ Still /\ at' = at /\ page' = page /\ answer' = answer /\ got' = got /\ gen' = gen
      /\ since' = since /\ grew' = grew /\ shrank' = shrank
  BY Zenon DEF Still, service, JobStep, JobAnswered, JobLands, Others
<1>2. ASSUME NEW k \in Loops \ {l}  PROVE Same(k)
  <2>1. job'[k] = job[k]  BY DEF JobStep, JobAnswered, JobLands, Types
  <2>2. Wrote(l) \/ (strange' = strange /\ window' = window)
    BY Zenon DEF JobStep, JobAnswered, JobLands
  <2>3. (k \in strange => k \in strange') /\ (k \notin strange' => window' = window)
    BY <2>2, SameHistory, Zenon
  <2> QED  BY <1>1, <2>1, <2>3, Zenon DEF Same, Still
<1> QED  BY <1>1, <1>2, Zenon

LEMMA OthersApart ==
    ASSUME (\E x \in New : Publish(x)) \/ (\E i \in DOMAIN remote : Withdraw(i))
    PROVE  /\ kind' = kind /\ window' = window /\ at' = at /\ page' = page /\ answer' = answer
           /\ got' = got /\ gen' = gen /\ job' = job /\ since' = since /\ strange' = strange
           /\ changes > 0 /\ changes' = changes - 1
BY Zenon DEF Publish, Withdraw
-----------------------------------------------------------------------------
\* Where loops of each kind can be, and which jobs they have.
LEMMA KindSame ==
    ASSUME NEW D, NEW k \in Loops, Same(k)
    PROVE  /\ KindInv(k, D) => KindInv(k, D)'
           /\ JobsInv(k, D) => JobsInv(k, D)'
           /\ OfAll(k)' = OfAll(k) /\ Walks(k)' = Walks(k)
BY DEF Same, KindInv, JobsInv, OfAll, Walks

LEMMA WalkPlace ==
    ASSUME NEW D, Types(D), NEW l \in Loops, WalkStep(l)
    PROVE  /\ at[l] \in {"start", "ask", "asked", "land", "show", "yield", "turn"}
           /\ at[l] = "start" => Walks(l)
           /\ at'[l] \in {"ask", "asked", "land", "show", "yield", "turn", "ended", "raised"}
           /\ gen' = gen /\ job' = job /\ kind' = kind
<1>1. gen' = gen /\ job' = job /\ kind' = kind
  BY Zenon DEF WalkStep, service, BeginPages, BeginReversed, Ask, Answered, Refused, Land,
               Show, Yield, Turn
<1>2. at'[l] \in {"ask", "asked", "land", "show", "yield", "turn", "ended", "raised"}
  BY DEF WalkStep, BeginPages, BeginReversed, Ask, Answered, Refused, Land,
         Show, Yield, Turn, Goto, Types
<1>3. /\ at[l] \in {"start", "ask", "asked", "land", "show", "yield", "turn"}
      /\ at[l] = "start" => Walks(l)
  BY DEF WalkStep, BeginPages, BeginReversed, Ask, Answered, Refused, Land, Show, Yield, Turn,
         Walks
<1> QED  BY <1>1, <1>2, <1>3

LEMMA AllPlace ==
    ASSUME NEW D, Types(D), NEW l \in Loops, AllStep(l)
    PROVE  /\ at[l] \in {"start", "submit", "look"}
           /\ at[l] = "start" => OfAll(l)
           /\ at'[l] \in {"submit", "look", "ended", "raised", "index_error"}
           /\ kind' = kind
<1>1. kind' = kind
  BY Zenon DEF AllStep, BeginAll, Submit, Take, NotYet, AllRaises, PassEnds
<1>2. at'[l] \in {"submit", "look", "ended", "raised", "index_error"}
  BY DEF AllStep, BeginAll, Submit, Take, NotYet, AllRaises, PassEnds, Looking, Goto, Types
<1>3. at[l] \in {"start", "submit", "look"} /\ (at[l] = "start" => OfAll(l))
  BY DEF AllStep, BeginAll, Submit, Take, NotYet, AllRaises, PassEnds, Looking
<1> QED  BY <1>1, <1>2, <1>3

LEMMA KindIs == ASSUME NEW D, Types(D), NEW l \in Loops
                PROVE  /\ ~(Walks(l) /\ OfAll(l))
                       /\ (kind[l] = "none" => ~Walks(l) /\ ~OfAll(l))
                       /\ Walks(l) \/ OfAll(l) \/ kind[l] = "none"
BY DEF Types, Kinds, Walks, OfAll

LEMMA KindStep ==
    ASSUME NEW D, Types(D), NEW l \in Loops, KindInv(l, D),
           \/ WalkStep(l) \/ Leave(l) \/ AllStep(l) \/ \E p \in D : JobStep(l, p)
    PROVE  KindInv(l, D)'
<1>1. CASE WalkStep(l)
  <2>1. Walks(l) /\ ~OfAll(l) /\ kind[l] # "none"
    <3>1. /\ at[l] \in {"start", "ask", "asked", "land", "show", "yield", "turn"}
          /\ at[l] = "start" => Walks(l)
      BY <1>1, WalkPlace
    <3>2. /\ ~(Walks(l) /\ OfAll(l)) /\ kind[l] = "none" => ~Walks(l) /\ ~OfAll(l)
          /\ Walks(l) \/ OfAll(l) \/ kind[l] = "none"
      BY KindIs
    <3> QED  BY <3>1, <3>2 DEF KindInv, Walks, OfAll
  <2>2. Walks(l)' = Walks(l) /\ OfAll(l)' = OfAll(l) /\ kind' = kind
    BY <1>1, WalkPlace DEF Walks, OfAll
  <2> QED  BY <1>1, <2>1, <2>2, WalkPlace DEF KindInv
<1>2. CASE AllStep(l)
  <2>1. OfAll(l) /\ ~Walks(l) /\ kind[l] # "none"
    <3>1. at[l] \in {"start", "submit", "look"} /\ (at[l] = "start" => OfAll(l))
      BY <1>2, AllPlace
    <3>2. /\ ~(Walks(l) /\ OfAll(l)) /\ kind[l] = "none" => ~Walks(l) /\ ~OfAll(l)
          /\ Walks(l) \/ OfAll(l) \/ kind[l] = "none"
      BY KindIs
    <3> QED  BY <3>1, <3>2 DEF KindInv, Walks, OfAll
  <2>2. Walks(l)' = Walks(l) /\ OfAll(l)' = OfAll(l) /\ kind' = kind
    BY <1>2, AllPlace DEF Walks, OfAll
  <2> QED  BY <1>2, <2>1, <2>2, AllPlace DEF KindInv
<1>3. CASE Leave(l)
  <2>1. /\ at[l] \in {"turn", "look"} /\ at'[l] = "left" /\ job' = job /\ kind' = kind
    BY <1>3 DEF Leave, Goto, Types
  <2>2. Walks(l)' = Walks(l) /\ OfAll(l)' = OfAll(l)
    BY <2>1 DEF Walks, OfAll
  <2> QED  BY <2>1, <2>2 DEF KindInv
<1>4. ASSUME NEW p \in D, JobStep(l, p)  PROVE KindInv(l, D)'
  <2>1. at' = at /\ got' = got /\ kind' = kind  BY <1>4, JobApart DEF Still
  <2>2. job[l][p].is # "none"  BY <1>4 DEF JobStep, JobAnswered, JobLands
  <2>3. OfAll(l)  BY <2>2 DEF KindInv
  <2>4. Walks(l)' = Walks(l) /\ OfAll(l)' = OfAll(l)  BY <2>1 DEF Walks, OfAll
  <2> QED  BY <2>1, <2>3, <2>4 DEF KindInv
<1> QED  BY <1>1, <1>2, <1>3, <1>4

LEMMA AppendedApart ==
    ASSUME NEW S, NEW s \in Seq(S), NEW x \in S, x \notin Range(s), IsInjective(s)
    PROVE  IsInjective(Append(s, x)) /\ Range(Append(s, x)) = Range(s) \cup {x}
<1> DEFINE t == Append(s, x)
<1>1. /\ t \in Seq(S) /\ Len(t) = Len(s) + 1 /\ t[Len(s) + 1] = x
      /\ \A j \in 1..Len(s) : t[j] = s[j]
  OBVIOUS
<1>2. \A i, j \in 1..Len(s) : s[i] = s[j] => i = j  BY InjectiveIs
<1>3. \A j \in 1..Len(s) : s[j] \in Range(s)  BY RangeIs
<1> HIDE DEF t
<1>4. \A i, j \in 1..Len(t) : t[i] = t[j] => i = j  BY <1>1, <1>2, <1>3
<1>5. IsInjective(t)  BY <1>1, <1>4, InjectiveIs
<1>6. Range(t) \subseteq Range(s) \cup {x}
  <2>1. \A j \in 1..Len(t) : t[j] \in Range(s) \cup {x}  BY <1>1, <1>3
  <2> QED  BY <1>1, <2>1, RangeIs
<1>7. Range(s) \cup {x} \subseteq Range(t)
  <2>1. \A j \in 1..Len(s) : s[j] \in Range(t)
    <3>1. \A j \in 1..Len(s) : j \in 1..Len(t) /\ t[j] = s[j]  BY <1>1
    <3> QED  BY <1>1, <3>1, RangeIs
  <2>2. x \in Range(t)
    <3>1. Len(s) + 1 \in 1..Len(t)  BY <1>1
    <3> QED  BY <1>1, <3>1, RangeIs
  <2> QED  BY <2>1, <2>2, RangeIs
<1> QED  BY <1>5, <1>6, <1>7 DEF t

\* What the steps of all() do to its own jobs.
Begins(l) ==
    /\ at[l] = "start" /\ at'[l] = "submit" /\ job' = job /\ got' = got
    /\ gen'[l].next = gen[l].next /\ gen'[l].jobs = gen[l].jobs
    /\ gen'[l].total = Ceil(window.count, AllSize) /\ gen'[l].room = window.count
    /\ since'[l] = Range(remote) /\ l \notin grew' /\ l \notin shrank'

LEMMA BeginIs ==
    ASSUME NEW D, Types(D), NEW l \in Loops, BeginAll(l)
    PROVE  Begins(l)
<1>1. gen[l] \in Gens(D)  BY DEF Types
<1> QED  BY <1>1 DEF BeginAll, Types, Gens, Goto, Counted, FreshStart, Begins

Submits(l, D) ==
    /\ at[l] = "submit" /\ at'[l] = "look" /\ got' = got
    /\ since' = since /\ grew' = grew /\ shrank' = shrank
    /\ gen'[l].total = gen[l].total /\ gen'[l].room = gen[l].room /\ gen'[l].i = 1
    /\ MorePages(l) =>
         /\ gen'[l].next = gen[l].next + 1
         /\ gen'[l].jobs = Append(gen[l].jobs, gen[l].next)
         /\ job'[l][gen[l].next].is = "queued"
         /\ \A p \in D : p # gen[l].next => job'[l][p] = job[l][p]
    /\ ~MorePages(l) =>
         gen'[l].next = gen[l].next /\ gen'[l].jobs = gen[l].jobs /\ job' = job

LEMMA SubmitIs ==
    ASSUME NEW D, Types(D), NEW l \in Loops, Submit(l), MorePages(l) => gen[l].next \in D
    PROVE  Submits(l, D)
<1>0. gen[l] \in Gens(D) /\ job[l] \in [D -> Jobs]  BY DEF Types
<1>1. /\ at[l] = "submit" /\ at'[l] = "look" /\ got' = got
      /\ since' = since /\ grew' = grew /\ shrank' = shrank
  BY DEF Submit, Goto, Others, Types
<1>2. CASE MorePages(l)
  <2>1. gen[l].next \in D  BY <1>2
  <2>2. gen' = [gen EXCEPT ![l] = [gen[l] EXCEPT !.jobs = Append(gen[l].jobs, gen[l].next),
                                                 !.next = gen[l].next + 1, !.i = 1]]
    BY <1>2 DEF Submit, Types
  <2>3. gen'[l] = [gen[l] EXCEPT !.jobs = Append(gen[l].jobs, gen[l].next),
                                 !.next = gen[l].next + 1, !.i = 1]
    BY <2>2 DEF Types
  <2>4. job' = [job EXCEPT ![l][gen[l].next] = [job[l][gen[l].next] EXCEPT !.is = "queued"]]
    BY <1>2 DEF Submit, Types
  <2>5. job[l][gen[l].next] \in Jobs  BY <1>0, <2>1
  <2>6. /\ job'[l][gen[l].next] = [job[l][gen[l].next] EXCEPT !.is = "queued"]
        /\ \A p \in D : p # gen[l].next => job'[l][p] = job[l][p]
    BY <2>1, <2>4 DEF Types
  <2>7. job'[l][gen[l].next].is = "queued"  BY <2>5, <2>6 DEF Jobs
  <2> QED  BY <1>0, <1>1, <1>2, <2>3, <2>6, <2>7 DEF Gens, Submits
<1>3. CASE ~MorePages(l)
  <2>1. gen'[l] = [gen[l] EXCEPT !.i = 1] /\ job' = job
    BY <1>3 DEF Submit, Types
  <2> QED  BY <1>0, <1>1, <1>3, <2>1 DEF Gens, Submits
<1> QED  BY <1>2, <1>3

Takes(l, p, D) ==
    /\ gen[l].i \in 1..Len(gen[l].jobs) /\ p \in D /\ at[l] = "look" /\ at' = at
    /\ job[l][p].is = "done" /\ ~TooMany(l)
    /\ got'[l] = got[l] \o job[l][p].ans.items
    /\ gen'[l].next = gen[l].next /\ gen'[l].total = gen[l].total
    /\ gen'[l].room = gen[l].room /\ gen'[l].i = gen[l].i + 1
    /\ gen'[l].jobs = RemoveAt(gen[l].jobs, gen[l].i)
    /\ job'[l][p] = NoJob /\ \A q \in D : q # p => job'[l][q] = job[l][q]
    /\ since' = since /\ grew' = grew /\ shrank' = shrank

LEMMA TakeIs ==
    ASSUME NEW D, Types(D), NEW l \in Loops, Take(l), NEW p, p = gen[l].jobs[gen[l].i]
    PROVE  Takes(l, p, D)
<1>0. gen[l] \in Gens(D) /\ job[l] \in [D -> Jobs]  BY DEF Types
<1>1. gen[l].i \in 1..Len(gen[l].jobs) /\ p \in D /\ at[l] = "look"
  BY <1>0 DEF Take, Looking, Gens
<1>2. /\ at' = at /\ job[l][p].is = "done" /\ ~TooMany(l)
      /\ since' = since /\ grew' = grew /\ shrank' = shrank
  BY DEF Take, Seen, Others
<1>3. got'[l] = got[l] \o job[l][p].ans.items  BY DEF Take, Seen, Types
<1>4. gen'[l] = [gen[l] EXCEPT !.jobs = RemoveAt(gen[l].jobs, gen[l].i), !.i = gen[l].i + 1]
  BY DEF Take, Taken, Types
<1>5. /\ gen'[l].next = gen[l].next /\ gen'[l].total = gen[l].total
      /\ gen'[l].room = gen[l].room /\ gen'[l].i = gen[l].i + 1
      /\ gen'[l].jobs = RemoveAt(gen[l].jobs, gen[l].i)
  BY <1>0, <1>4 DEF Gens
<1>6. job' = [job EXCEPT ![l][p] = NoJob]  BY DEF Take
<1>7. job'[l][p] = NoJob /\ \A q \in D : q # p => job'[l][q] = job[l][q]
  BY <1>1, <1>6 DEF Types
<1> QED  BY <1>1, <1>2, <1>3, <1>5, <1>7 DEF Takes

Looks(l) ==
    /\ at[l] = "look" /\ job' = job /\ got' = got
    /\ gen'[l].next = gen[l].next /\ gen'[l].total = gen[l].total
    /\ gen'[l].room = gen[l].room /\ gen'[l].jobs = gen[l].jobs
    /\ since' = since /\ grew' = grew /\ shrank' = shrank

LEMMA LookIs ==
    ASSUME NEW D, Types(D), NEW l \in Loops, NotYet(l) \/ AllRaises(l) \/ PassEnds(l)
    PROVE  Looks(l)
<1>0. gen[l] \in Gens(D)  BY DEF Types
<1>1. /\ at[l] = "look" /\ job' = job /\ got' = got
      /\ since' = since /\ grew' = grew /\ shrank' = shrank
  BY Zenon DEF NotYet, AllRaises, PassEnds, Looking, Others
<1>2. gen'[l] = [gen[l] EXCEPT !.i = gen[l].i + 1] \/ gen' = gen
  BY DEF NotYet, AllRaises, PassEnds, Types
<1>3. /\ gen'[l].next = gen[l].next /\ gen'[l].total = gen[l].total
      /\ gen'[l].room = gen[l].room /\ gen'[l].jobs = gen[l].jobs
  BY <1>0, <1>2 DEF Gens
<1> QED  BY <1>1, <1>3 DEF Looks

Works(l, p, D) ==
    /\ \A q \in D : q # p => job'[l][q] = job[l][q]
    /\ \/ /\ job[l][p].is = "queued"
          /\ \/ /\ job'[l][p] = [is |-> "answered", ans |-> Query(remote, p, AllSize)]
                /\ window' = window
             \/ job'[l][p].is = "failed" /\ window' = window
       \/ /\ job[l][p].is = "answered" /\ job'[l][p].is = "done"
          /\ job'[l][p].ans = job[l][p].ans /\ window'.count = job[l][p].ans.count

LEMMA JobIs ==
    ASSUME NEW D, Types(D), NEW l \in Loops, NEW p \in D, JobStep(l, p)
    PROVE  Works(l, p, D)
<1>0. job[l] \in [D -> Jobs] /\ job[l][p] \in Jobs /\ window \in Windows  BY DEF Types
<1>1. \A q \in D : q # p => job'[l][q] = job[l][q]
  BY DEF JobStep, JobAnswered, JobLands, Types
<1>2. CASE JobAnswered(l, p)
  <2>1. window' = window /\ job[l][p].is = "queued"  BY <1>2 DEF JobAnswered
  <2>2. CASE job' = [job EXCEPT ![l][p] = [is |-> "answered", ans |-> Query(remote, p, AllSize)]]
    <3>1. job'[l][p] = [is |-> "answered", ans |-> Query(remote, p, AllSize)]
      BY <2>2 DEF Types
    <3> QED  BY <1>1, <2>1, <3>1 DEF Works
  <2>3. CASE job' = [job EXCEPT ![l][p].is = "failed"]
    <3>1. job'[l][p] = [job[l][p] EXCEPT !.is = "failed"]  BY <2>3 DEF Types
    <3>2. job'[l][p].is = "failed"  BY <1>0, <3>1 DEF Jobs
    <3> QED  BY <1>1, <2>1, <3>2 DEF Works
  <2> QED  BY <1>2, <2>2, <2>3 DEF JobAnswered
<1>3. CASE JobLands(l, p)
  <2>1. job'[l][p] = [job[l][p] EXCEPT !.is = "done"]  BY <1>3 DEF JobLands, Types
  <2>2. job'[l][p].is = "done" /\ job'[l][p].ans = job[l][p].ans  BY <1>0, <2>1 DEF Jobs
  <2>3. window'.count = job[l][p].ans.count
    BY <1>0, <1>3 DEF JobLands, Processed, Windows
  <2>4. job[l][p].is = "answered"  BY <1>3 DEF JobLands
  <2> QED  BY <1>1, <2>2, <2>3, <2>4 DEF Works
<1> QED  BY <1>2, <1>3 DEF JobStep

LEMMA JobsStep ==
    ASSUME NEW D, D \subseteq Nat, Types(D), NEW l \in Loops, JobsInv(l, D),
           MorePages(l) => gen[l].next \in D,
           WalkStep(l) \/ Leave(l) \/ AllStep(l) \/ \E p \in D : JobStep(l, p)
    PROVE  JobsInv(l, D)'
<1>0. gen[l] \in Gens(D) /\ job[l] \in [D -> Jobs]  BY DEF Types
<1>1. gen[l].jobs \in Seq(D) /\ gen[l].next \in Nat /\ gen[l].total \in Nat
  BY <1>0 DEF Gens
<1>2. CASE WalkStep(l) \/ Leave(l)
  <2>1. gen' = gen /\ job' = job /\ at'[l] # "start"
    <3>1. CASE WalkStep(l)  BY <3>1, WalkPlace
    <3>2. CASE Leave(l)  BY <3>2 DEF Leave, Goto, Types
    <3> QED  BY <1>2, <3>1, <3>2
  <2> QED  BY <2>1 DEF JobsInv
<1>3. CASE BeginAll(l)
  <2>0. Begins(l)  BY <1>3, BeginIs
  <2>1. /\ at[l] = "start" /\ at'[l] # "start" /\ job' = job
        /\ gen'[l].next = gen[l].next /\ gen'[l].jobs = gen[l].jobs
        /\ gen'[l].total = Ceil(window.count, AllSize)
    BY <2>0 DEF Begins
  <2>2. window.count \in Nat  BY DEF Types, Windows
  <2>3. gen'[l].total \in Nat  BY <2>1, <2>2, CeilNat, PagingAssumption
  <2>4. gen[l].next = 0  BY <2>1 DEF JobsInv
  <2>5. gen'[l].next <= gen'[l].total + 1  BY <2>1, <2>3, <2>4
  <2> QED  BY <2>1, <2>5 DEF JobsInv
<1>4. CASE Submit(l)
  <2>0. Submits(l, D)  BY <1>4, SubmitIs
  <2>1. /\ at'[l] = "look" /\ gen'[l].total = gen[l].total
        /\ MorePages(l) =>
             /\ gen'[l].next = gen[l].next + 1
             /\ gen'[l].jobs = Append(gen[l].jobs, gen[l].next)
             /\ job'[l][gen[l].next].is = "queued"
             /\ \A p \in D : p # gen[l].next => job'[l][p] = job[l][p]
        /\ ~MorePages(l) =>
             gen'[l].next = gen[l].next /\ gen'[l].jobs = gen[l].jobs /\ job' = job
    BY <2>0 DEF Submits
  <2>2. CASE MorePages(l)
    <3>1. gen[l].next \in D /\ gen[l].next <= gen[l].total  BY <2>2 DEF MorePages
    <3>2. \A p \in Range(gen[l].jobs) : p \in Nat /\ p < gen[l].next
      BY <1>1, RangeIs DEF JobsInv
    <3>3. gen[l].next \notin Range(gen[l].jobs)  BY <1>1, <3>2
    <3>4. /\ IsInjective(gen'[l].jobs)
          /\ Range(gen'[l].jobs) = Range(gen[l].jobs) \cup {gen[l].next}
      <4>1. IsInjective(gen[l].jobs)  BY DEF JobsInv
      <4>2. /\ IsInjective(Append(gen[l].jobs, gen[l].next))
            /\ Range(Append(gen[l].jobs, gen[l].next)) = Range(gen[l].jobs) \cup {gen[l].next}
        BY <1>1, <3>1, <3>3, <4>1, AppendedApart
      <4> QED  BY <2>1, <2>2, <4>2
    <3>5. \A p \in Range(gen'[l].jobs) : p < gen'[l].next
      BY <1>1, <2>1, <2>2, <3>2, <3>4
    <3>6. \A p \in D : job'[l][p].is # "none" <=> p \in Range(gen'[l].jobs)
      BY <2>1, <2>2, <3>4 DEF JobsInv
    <3>7. gen'[l].next <= gen'[l].total + 1  BY <1>1, <2>1, <2>2, <3>1
    <3> QED  BY <2>1, <3>4, <3>5, <3>6, <3>7 DEF JobsInv
  <2>3. CASE ~MorePages(l)  BY <2>1, <2>3 DEF JobsInv
  <2> QED  BY <2>2, <2>3
<1>5. CASE Take(l)
  <2> DEFINE i == gen[l].i
  <2>0. PICK p : p = gen[l].jobs[gen[l].i]  OBVIOUS
  <2>5. Takes(l, p, D)  BY <1>5, <2>0, TakeIs
  <2>1. /\ i \in 1..Len(gen[l].jobs) /\ p \in D /\ at[l] = "look" /\ at' = at
        /\ gen'[l].next = gen[l].next /\ gen'[l].total = gen[l].total
        /\ gen'[l].jobs = RemoveAt(gen[l].jobs, i)
        /\ job'[l][p] = NoJob /\ \A q \in D : q # p => job'[l][q] = job[l][q]
    BY <2>5 DEF Takes
  <2>2. /\ IsInjective(gen'[l].jobs)
        /\ Range(gen'[l].jobs) = Range(gen[l].jobs) \ {p}
    BY <1>1, <2>0, <2>1, RemovedApart DEF JobsInv
  <2> HIDE DEF i
  <2>3. \A q \in D : job'[l][q].is # "none" <=> q \in Range(gen'[l].jobs)
    BY <2>1, <2>2 DEF JobsInv, NoJob
  <2> QED  BY <2>1, <2>2, <2>3 DEF JobsInv
<1>6. CASE NotYet(l) \/ AllRaises(l) \/ PassEnds(l)
  <2>0. Looks(l)  BY <1>6, LookIs
  <2>1. /\ at[l] = "look" /\ job' = job /\ gen'[l].next = gen[l].next
        /\ gen'[l].total = gen[l].total /\ gen'[l].jobs = gen[l].jobs
    BY <2>0 DEF Looks
  <2>2. at'[l] # "start"
    <3>1. AllStep(l)  BY <1>6 DEF AllStep
    <3> QED  BY <3>1, AllPlace
  <2> QED  BY <2>1, <2>2 DEF JobsInv
<1>7. ASSUME NEW p \in D, JobStep(l, p)  PROVE JobsInv(l, D)'
  <2>1. at' = at /\ gen' = gen  BY <1>7, JobApart
  <2>2. ASSUME NEW q \in D  PROVE job'[l][q].is # "none" <=> job[l][q].is # "none"
    <3>1. CASE q # p
      <4>0. Works(l, p, D)  BY <1>7, JobIs
      <4>2. \A r \in D : r # p => job'[l][r] = job[l][r]  BY <4>0 DEF Works
      <4>1. job'[l][q] = job[l][q]  BY <3>1, <4>2
      <4> QED  BY <4>1
    <3>2. CASE q = p
      <4>1. \/ job[l][p].is = "queued" /\ job'[l][p].is \in {"answered", "failed"}
            \/ job[l][p].is = "answered" /\ job'[l][p].is = "done"
        <5>0. Works(l, p, D)  BY <1>7, JobIs
        <5>1. \/ /\ job[l][p].is = "queued"
                 /\ \/ job'[l][p] = [is |-> "answered", ans |-> Query(remote, p, AllSize)]
                    \/ job'[l][p].is = "failed"
              \/ job[l][p].is = "answered" /\ job'[l][p].is = "done"
          BY <5>0 DEF Works
        <5> QED  BY <5>1
      <4> QED  BY <3>2, <4>1
    <3> QED  BY <3>1, <3>2
  <2> QED  BY <2>1, <2>2 DEF JobsInv
<1> QED  BY <1>2, <1>3, <1>4, <1>5, <1>6, <1>7 DEF AllStep
-----------------------------------------------------------------------------
\* What a step may count.
LEMMA SnapStep ==
    ASSUME NEW D, D \subseteq Nat, Types(D), NEW l \in Loops,
           MorePages(l) => gen[l].next \in D,
           WalkStep(l) \/ Leave(l) \/ AllStep(l) \/ (\E p \in D : JobStep(l, p)),
           NEW n \in Nat, Snap(n, D)'
    PROVE  Snap(n, D) \/ n = Len(remote)
<1>0. gen[l] \in Gens(D) /\ job[l] \in [D -> Jobs] /\ window \in Windows  BY DEF Types
<1>1. PICK k \in Loops : \/ n = window'.count
                         \/ at'[k] = "land" /\ n = answer'[k].count
                         \/ \E p \in D : job'[k][p].is = "answered" /\ n = job'[k][p].ans.count
  BY DEF Snap
<1>2. CASE k # l /\ n # window'.count
  <2>1. Same(k)  BY <1>2, WalkApart, AllApart, JobApart
  <2>2. at'[k] = at[k] /\ answer'[k] = answer[k] /\ job'[k] = job[k]  BY <2>1 DEF Same
  <2> QED  BY <1>1, <1>2, <2>2 DEF Snap
<1>3. CASE (k = l \/ n = window'.count) /\ WalkStep(l)
  <2>1. job' = job  BY <1>3, WalkPlace
  <2>2. CASE at'[k] = "land" /\ n = answer'[k].count /\ k = l
    <3>1. Answered(l)
      BY <1>3, <2>2 DEF WalkStep, BeginPages, BeginReversed, Ask, Refused,
         Land, Show, Yield, Turn, Goto, Types
    <3>2. answer'[l] = Query(remote, page[l], PageSize)  BY <3>1 DEF Answered, Types
    <3>3. answer'[l].count = Len(remote)  BY <3>2 DEF Query
    <3> QED  BY <2>2, <3>3
  <2>3. CASE n = window'.count
    <3>1. \/ window'.count = window.count
          \/ at[l] = "land" /\ window'.count = answer[l].count
      BY <1>0, <1>3 DEF WalkStep, BeginPages, BeginReversed, Ask, Answered, Refused, Processed,
         Land, Show, Yield, Turn, Windows
    <3> QED  BY <2>3, <3>1 DEF Snap
  <2> QED  BY <1>1, <1>3, <2>1, <2>2, <2>3 DEF Snap
<1>4. CASE (k = l \/ n = window'.count) /\ Leave(l)
  <2>1. window' = window /\ answer' = answer /\ job' = job /\ at'[l] = "left"
    BY <1>4 DEF Leave, Goto, Types
  <2> QED  BY <1>1, <1>4, <2>1 DEF Snap
<1>5. CASE (k = l \/ n = window'.count) /\ AllStep(l)
  <2>1. window' = window /\ at'[l] # "land"  BY <1>5, AllApart, AllPlace
  <2>2. CASE n = window'.count  BY <2>1, <2>2 DEF Snap
  <2>3. ASSUME NEW p \in D, job'[l][p].is = "answered", n = job'[l][p].ans.count
        PROVE  Snap(n, D)
    <3>1. job'[l][p] = job[l][p]
      <4>1. CASE BeginAll(l)
        <5>1. Begins(l)  BY <4>1, BeginIs
        <5> QED  BY <5>1 DEF Begins
      <4>2. CASE Submit(l)
        <5>0. Submits(l, D)  BY <4>2, SubmitIs
        <5>1. /\ MorePages(l) => /\ job'[l][gen[l].next].is = "queued"
                                 /\ \A q \in D : q # gen[l].next => job'[l][q] = job[l][q]
              /\ ~MorePages(l) => job' = job
          BY <5>0 DEF Submits
        <5> QED  BY <2>3, <5>1
      <4>3. CASE Take(l)
        <5>0. PICK r : r = gen[l].jobs[gen[l].i]  OBVIOUS
        <5>2. Takes(l, r, D)  BY <4>3, <5>0, TakeIs
        <5>1. job'[l][r] = NoJob /\ \A q \in D : q # r => job'[l][q] = job[l][q]
          BY <5>2 DEF Takes
        <5> QED  BY <2>3, <5>1 DEF NoJob
      <4>4. CASE NotYet(l) \/ AllRaises(l) \/ PassEnds(l)
        <5>1. Looks(l)  BY <4>4, LookIs
        <5> QED  BY <5>1 DEF Looks
      <4> QED  BY <1>5, <4>1, <4>2, <4>3, <4>4 DEF AllStep
    <3> QED  BY <2>3, <3>1 DEF Snap
  <2> QED  BY <1>1, <1>5, <2>1, <2>2, <2>3
<1>6. ASSUME NEW p \in D, JobStep(l, p), k = l \/ n = window'.count
      PROVE  Snap(n, D) \/ n = Len(remote)
  <2>1. at' = at /\ answer' = answer  BY <1>6, JobApart
  <2>0. Works(l, p, D)  BY <1>6, JobIs
  <2>2. /\ \A q \in D : q # p => job'[l][q] = job[l][q]
        /\ \/ /\ job[l][p].is = "queued"
              /\ \/ /\ job'[l][p] = [is |-> "answered", ans |-> Query(remote, p, AllSize)]
                    /\ window' = window
                 \/ job'[l][p].is = "failed" /\ window' = window
           \/ /\ job[l][p].is = "answered" /\ job'[l][p].is = "done"
              /\ job'[l][p].ans = job[l][p].ans /\ window'.count = job[l][p].ans.count
    BY <2>0 DEF Works
  <2>3. CASE n = window'.count  BY <2>2, <2>3 DEF Snap
  <2>4. ASSUME NEW q \in D, k = l, job'[l][q].is = "answered", n = job'[l][q].ans.count
        PROVE  Snap(n, D) \/ n = Len(remote)
    <3>1. CASE q # p  BY <2>2, <2>4, <3>1 DEF Snap
    <3>2. CASE q = p
      <4>1. job'[l][q] = [is |-> "answered", ans |-> Query(remote, p, AllSize)]
        BY <2>2, <2>4, <3>2
      <4> QED  BY <2>4, <4>1 DEF Query
    <3> QED  BY <3>1, <3>2
  <2>5. CASE at'[k] = "land" /\ n = answer'[k].count  BY <2>1, <2>5 DEF Snap
  <2> QED  BY <1>1, <1>6, <2>3, <2>4, <2>5
<1> QED  BY <1>1, <1>2, <1>3, <1>4, <1>5, <1>6

LEMMA LenIsCard ==
    ASSUME NEW S, NEW s \in Seq(S), IsInjective(s)
    PROVE  IsFiniteSet(Range(s)) /\ Cardinality(Range(s)) = Len(s)
<1>1. Len(s) \in Nat  OBVIOUS
<1>2. IsFiniteSet(1..Len(s)) /\ Cardinality(1..Len(s)) = Len(s)
  <2>1. 1 \in Int /\ Len(s) \in Int  BY <1>1
  <2>2. /\ IsFiniteSet(1..Len(s))
        /\ Cardinality(1..Len(s)) = IF 1 > Len(s) THEN 0 ELSE Len(s) - 1 + 1
    BY <2>1, FS_Interval, Zenon
  <2> QED  BY <1>1, <2>2
<1>3. s \in [1..Len(s) -> Range(s)]  BY DEF Range
<1>4. s \in Injection(1..Len(s), Range(s))  BY <1>3 DEF Injection
<1>5. s \in Surjection(1..Len(s), Range(s))  BY <1>3 DEF Surjection, Range
<1>6. ExistsBijection(1..Len(s), Range(s))  BY <1>4, <1>5 DEF ExistsBijection, Bijection
<1> QED  BY <1>2, <1>6, FS_Bijection

\* Items that are not new are not more than all.
LEMMA OldItems ==
    ASSUME NEW D, Types(D), IsInjective(remote)
    PROVE  /\ IsFiniteSet(Range(remote) \ New) /\ Cardinality(Range(remote) \ New) \in Nat
           /\ Cardinality(Range(remote) \ New) <= Len(remote)
           /\ Range(remote) \cap New = {} => Cardinality(Range(remote) \ New) = Len(remote)
<1>1. remote \in Seq(Things)  BY DEF Types
<1>2. IsFiniteSet(Range(remote)) /\ Cardinality(Range(remote)) = Len(remote)
  BY <1>1, LenIsCard
<1>3. Range(remote) \ New \in SUBSET Range(remote)  OBVIOUS
<1>4. /\ IsFiniteSet(Range(remote) \ New)
      /\ Cardinality(Range(remote) \ New) <= Cardinality(Range(remote))
  BY <1>2, <1>3, FS_Subset
<1>5. Cardinality(Range(remote) \ New) \in Nat  BY <1>4, FS_CardinalityType
<1>6. Range(remote) \cap New = {} => Range(remote) \ New = Range(remote)  OBVIOUS
<1> QED  BY <1>2, <1>4, <1>5, <1>6

LEMMA Fits ==
    ASSUME NEW top \in Nat, Types(Span(top)), Counts(top), NEW l \in Loops, MorePages(l)
    PROVE  gen[l].next \in Span(top)
<1>1. gen[l].next \in Nat  BY DEF Types, Gens
<1>2. gen[l].total \in Span(top)  BY DEF Counts
<1>3. gen[l].next <= gen[l].total  BY DEF MorePages
<1> QED  BY <1>1, <1>2, <1>3, SpanBelow

LEMMA TotalStep ==
    ASSUME NEW top \in Nat, Types(Span(top)), Counts(top), NEW l \in Loops,
           \/ WalkStep(l) \/ Leave(l) \/ AllStep(l) \/ \E p \in Span(top) : JobStep(l, p)
    PROVE  gen'[l].total \in Span(top)
<1>0. gen[l].total \in Span(top)  BY DEF Counts
<1>1. CASE WalkStep(l) \/ Leave(l) \/ \E p \in Span(top) : JobStep(l, p)
  <2>1. gen' = gen
    <3>1. CASE WalkStep(l)  BY <3>1, WalkPlace
    <3>2. CASE Leave(l)  BY <3>2 DEF Leave
    <3>3. CASE \E p \in Span(top) : JobStep(l, p)  BY <3>3, JobApart
    <3> QED  BY <1>1, <3>1, <3>2, <3>3
  <2> QED  BY <1>0, <2>1
<1>2. CASE BeginAll(l)
  <2>1. Begins(l)  BY <1>2, BeginIs
  <2>2. window.count \in Nat  BY DEF Types, Windows
  <2>3. window.count <= top  BY <2>2 DEF Counts, Snap
  <2>4. Ceil(window.count, AllSize) \in Span(top)  BY <2>2, <2>3, SpanCeil
  <2> QED  BY <2>1, <2>4 DEF Begins
<1>3. CASE Submit(l)
  <2>1. Submits(l, Span(top))  BY <1>3, SubmitIs, Fits
  <2> QED  BY <1>0, <2>1 DEF Submits
<1>4. CASE Take(l)
  <2>1. PICK p : p = gen[l].jobs[gen[l].i]  OBVIOUS
  <2>2. Takes(l, p, Span(top))  BY <1>4, <2>1, TakeIs
  <2> QED  BY <1>0, <2>2 DEF Takes
<1>5. CASE NotYet(l) \/ AllRaises(l) \/ PassEnds(l)
  <2>1. Looks(l)  BY <1>5, LookIs
  <2> QED  BY <1>0, <2>1 DEF Looks
<1> QED  BY <1>1, <1>2, <1>3, <1>4, <1>5 DEF AllStep

LEMMA CountsLoop ==
    ASSUME NEW top \in Nat, Types(Span(top)), Counts(top), NEW l \in Loops,
           \/ WalkStep(l) \/ Leave(l) \/ AllStep(l) \/ \E p \in Span(top) : JobStep(l, p)
    PROVE  Counts(top)'
<1>1. Still /\ \A k \in Loops \ {l} : Same(k)  BY WalkApart, AllApart, JobApart
<1>2. remote' = remote /\ changes' = changes  BY <1>1 DEF Still
<1>3. ASSUME NEW n \in Nat, Snap(n, Span(top))'
      PROVE  n <= top /\ Cardinality(Range(remote) \ New) <= n
  <2>1. Snap(n, Span(top)) \/ n = Len(remote)
    BY <1>3, SnapStep, SpanNat, Fits
  <2>2. CASE Snap(n, Span(top))  BY <2>2 DEF Counts
  <2>3. CASE n = Len(remote)
    <3>1. Cardinality(Range(remote) \ New) <= Len(remote)  BY OldItems DEF Counts
    <3>2. Len(remote) <= top  BY DEF Counts, Types
    <3> QED  BY <2>3, <3>1, <3>2
  <2> QED  BY <2>1, <2>2, <2>3
<1>4. ASSUME NEW k \in Loops  PROVE gen'[k].total \in Span(top)
  <2>1. CASE k = l  BY <2>1, TotalStep
  <2>2. CASE k # l
    <3>1. gen'[k] = gen[k]  BY <1>1, <2>2 DEF Same
    <3> QED  BY <3>1 DEF Counts
  <2> QED  BY <2>1, <2>2
<1>5. Len(remote) + changes <= top /\ IsInjective(remote)  BY DEF Counts
<1> QED  BY <1>2, <1>3, <1>4, <1>5 DEF Counts
-----------------------------------------------------------------------------
\* What others do to the list.
LEMMA PrependedApart ==
    ASSUME NEW S, NEW s \in Seq(S), NEW x \in S, x \notin Range(s), IsInjective(s)
    PROVE  /\ IsInjective(<<x>> \o s) /\ Range(<<x>> \o s) = Range(s) \cup {x}
           /\ Len(<<x>> \o s) = Len(s) + 1
           /\ \A i \in 1..Len(s) : (<<x>> \o s)[i + 1] = s[i]
<1> DEFINE t == <<x>> \o s
<1>1. /\ t \in Seq(S) /\ Len(t) = Len(s) + 1 /\ t[1] = x
      /\ \A j \in 1..Len(s) : t[j + 1] = s[j]
  OBVIOUS
<1>2. \A i, j \in 1..Len(s) : s[i] = s[j] => i = j  BY InjectiveIs
<1>3. \A j \in 1..Len(s) : s[j] \in Range(s)  BY RangeIs
<1> HIDE DEF t
<1>4. \A j \in 1..Len(t) : j = 1 \/ (j - 1 \in 1..Len(s) /\ t[j] = s[j - 1])
  <2>1. ASSUME NEW j \in 1..Len(t), j # 1  PROVE j - 1 \in 1..Len(s) /\ t[j] = s[j - 1]
    <3>1. j - 1 \in 1..Len(s) /\ (j - 1) + 1 = j  BY <1>1, <2>1
    <3> QED  BY <1>1, <3>1
  <2> QED  BY <2>1
<1>5. ASSUME NEW i \in 1..Len(t), NEW j \in 1..Len(t), t[i] = t[j]  PROVE i = j
  <2>1. CASE i = 1 /\ j = 1  BY <2>1
  <2>2. CASE i # 1 /\ j # 1
    <3>1. i - 1 \in 1..Len(s) /\ j - 1 \in 1..Len(s) /\ s[i - 1] = s[j - 1]
      BY <1>4, <1>5, <2>2
    <3>2. i - 1 = j - 1  BY <1>2, <3>1
    <3> QED  BY <3>2
  <2>3. CASE i = 1 /\ j # 1  BY <1>1, <1>3, <1>4, <1>5, <2>3
  <2>4. CASE i # 1 /\ j = 1  BY <1>1, <1>3, <1>4, <1>5, <2>4
  <2> QED  BY <2>1, <2>2, <2>3, <2>4
<1>6. IsInjective(t)  BY <1>1, <1>5, InjectiveIs
<1>7. Range(t) \subseteq Range(s) \cup {x}
  <2>1. \A j \in 1..Len(t) : t[j] \in Range(s) \cup {x}  BY <1>1, <1>3, <1>4
  <2> QED  BY <1>1, <2>1, RangeIs
<1>8. Range(s) \cup {x} \subseteq Range(t)
  <2>1. \A j \in 1..Len(s) : s[j] \in Range(t)
    <3>1. \A j \in 1..Len(s) : j + 1 \in 1..Len(t) /\ t[j + 1] = s[j]  BY <1>1
    <3> QED  BY <1>1, <3>1, RangeIs
  <2>2. x \in Range(t)
    <3>1. 1 \in 1..Len(t)  BY <1>1
    <3> QED  BY <1>1, <3>1, RangeIs
  <2>3. \A y \in Range(s) : y \in Range(t)  BY <2>1, RangeIs
  <2> QED  BY <2>2, <2>3
<1> QED  BY <1>1, <1>6, <1>7, <1>8 DEF t

Comes(x) ==
    /\ x \in New /\ x \notin Range(remote)
    /\ \A l \in Loops : x \notin since[l] /\ x \notin Range(got[l])
    /\ IsInjective(remote') /\ Range(remote') = Range(remote) \cup {x}
    /\ Len(remote') = Len(remote) + 1 /\ grew' = Loops /\ shrank' = shrank
    /\ \/ \A i \in 1..Len(remote) : remote'[i] = remote[i]
       \/ \A i \in 1..Len(remote) : remote'[i + 1] = remote[i]

LEMMA PublishIs ==
    ASSUME NEW D, Types(D), IsInjective(remote), NEW x \in New, Publish(x)
    PROVE  Comes(x)
<1>1. /\ x \in New /\ x \notin Range(remote) /\ grew' = Loops /\ shrank' = shrank
      /\ \A l \in Loops : x \notin since[l] /\ x \notin Range(got[l])
  BY DEF Publish
<1>2. remote \in Seq(Things) /\ x \in Things  BY DEF Types, Things
<1>3. CASE remote' = <<x>> \o remote
  <2>1. /\ IsInjective(<<x>> \o remote) /\ Range(<<x>> \o remote) = Range(remote) \cup {x}
        /\ Len(<<x>> \o remote) = Len(remote) + 1
        /\ \A i \in 1..Len(remote) : (<<x>> \o remote)[i + 1] = remote[i]
    BY <1>1, <1>2, PrependedApart
  <2> QED  BY <1>1, <1>3, <2>1 DEF Comes
<1>4. CASE remote' = Append(remote, x)
  <2>1. IsInjective(Append(remote, x)) /\ Range(Append(remote, x)) = Range(remote) \cup {x}
    BY <1>1, <1>2, AppendedApart
  <2>2. /\ Len(Append(remote, x)) = Len(remote) + 1
        /\ \A i \in 1..Len(remote) : Append(remote, x)[i] = remote[i]
    BY <1>2
  <2> QED  BY <1>1, <1>4, <2>1, <2>2 DEF Comes
<1> QED  BY <1>3, <1>4 DEF Publish

Goes(i) ==
    /\ i \in 1..Len(remote)
    /\ IsInjective(remote') /\ Range(remote') = Range(remote) \ {remote[i]}
    /\ Len(remote') = Len(remote) - 1 /\ shrank' = Loops /\ grew' = grew
    /\ \A j \in 1..(Len(remote) - 1) : remote'[j] = remote[IF j < i THEN j ELSE j + 1]

LEMMA WithdrawIs ==
    ASSUME NEW D, Types(D), IsInjective(remote), NEW i \in DOMAIN remote, Withdraw(i)
    PROVE  Goes(i)
<1>1. remote \in Seq(Things) /\ i \in 1..Len(remote)  BY DEF Types
<1>2. remote' = RemoveAt(remote, i) /\ shrank' = Loops /\ grew' = grew  BY DEF Withdraw
<1> QED  BY <1>1, <1>2, Removed, RemovedApart DEF Goes

LEMMA CountsOthers ==
    ASSUME NEW top \in Nat, Types(Span(top)), Counts(top),
           (\E x \in New : Publish(x)) \/ (\E i \in DOMAIN remote : Withdraw(i))
    PROVE  Counts(top)'
<1>1. /\ window' = window /\ at' = at /\ answer' = answer /\ gen' = gen /\ job' = job
      /\ changes > 0 /\ changes' = changes - 1
  BY OthersApart
<1>2. \A n \in Nat : Snap(n, Span(top))' <=> Snap(n, Span(top))  BY <1>1 DEF Snap
<1>3. IsInjective(remote) /\ remote \in Seq(Things) /\ changes \in Nat  BY DEF Counts, Types
<1>4. /\ IsInjective(remote') /\ Range(remote') \ New \subseteq Range(remote) \ New
      /\ Len(remote') <= Len(remote) + 1
  <2>1. ASSUME NEW x \in New, Publish(x)
        PROVE  /\ IsInjective(remote') /\ Range(remote') \ New \subseteq Range(remote) \ New
               /\ Len(remote') <= Len(remote) + 1
    <3>1. Comes(x)  BY <1>3, <2>1, PublishIs
    <3>2. Len(remote') = Len(remote) + 1  BY <3>1 DEF Comes
    <3>3. Len(remote') <= Len(remote) + 1  BY <1>3, <3>2
    <3> QED  BY <3>1, <3>3 DEF Comes
  <2>2. ASSUME NEW i \in DOMAIN remote, Withdraw(i)
        PROVE  /\ IsInjective(remote') /\ Range(remote') \ New \subseteq Range(remote) \ New
               /\ Len(remote') <= Len(remote) + 1
    <3>1. Goes(i)  BY <1>3, <2>2, WithdrawIs
    <3>2. Len(remote') = Len(remote) - 1  BY <3>1 DEF Goes
    <3>3. Len(remote') <= Len(remote) + 1  BY <1>3, <3>2
    <3> QED  BY <3>1, <3>3 DEF Goes
  <2> QED  BY <2>1, <2>2
<1>5. Cardinality(Range(remote') \ New) <= Cardinality(Range(remote) \ New)
  <2>1. IsFiniteSet(Range(remote) \ New)  BY <1>3, OldItems
  <2>2. Range(remote') \ New \in SUBSET (Range(remote) \ New)  BY <1>4
  <2> QED  BY <2>1, <2>2, FS_Subset
<1>6. Cardinality(Range(remote') \ New) \in Nat /\ Cardinality(Range(remote) \ New) \in Nat
  <2>1. IsFiniteSet(Range(remote) \ New)  BY <1>3, OldItems
  <2>2. Range(remote') \ New \in SUBSET (Range(remote) \ New)  BY <1>4
  <2>3. IsFiniteSet(Range(remote') \ New)  BY <2>1, <2>2, FS_Subset
  <2> QED  BY <2>1, <2>3, FS_CardinalityType
<1>7. ASSUME NEW n \in Nat, Snap(n, Span(top))'
      PROVE  n <= top /\ Cardinality(Range(remote') \ New) <= n
  <2>1. n <= top /\ Cardinality(Range(remote) \ New) <= n  BY <1>2, <1>7 DEF Counts
  <2> QED  BY <1>5, <1>6, <2>1
<1>8. Len(remote') + changes' <= top
  <2>1. Len(remote) + changes <= top  BY DEF Counts
  <2>2. Len(remote') \in Nat
    <3>1. Types(Span(top))'  BY OthersTypes
    <3> QED  BY <3>1 DEF Types
  <2> QED  BY <1>1, <1>3, <1>4, <2>1, <2>2
<1> QED  BY <1>1, <1>4, <1>7, <1>8 DEF Counts
-----------------------------------------------------------------------------
\* Pages do not overlap.
LEMMA SlotOnce ==
    ASSUME NEW p \in Nat, NEW q \in Nat, NEW k \in Slot(p), k \in Slot(q)
    PROVE  p = q
<1>1. ASSUME NEW a \in Nat, NEW b \in Nat, a < b, NEW s \in Nat  PROVE (a + 1) * s <= b * s
  <2>1. b - (a + 1) \in Nat  BY <1>1
  <2>2. (b - (a + 1)) * s \in Nat  BY <2>1, TimesNat
  <2>3. b * s = (a + 1) * s + (b - (a + 1)) * s  BY <2>1
  <2> QED  BY <2>2, <2>3
<1>2. p * AllSize \in Int /\ (p + 1) * AllSize \in Int /\ q * AllSize \in Int
      /\ (q + 1) * AllSize \in Int
  BY Times, Sizes
<1>3. p * AllSize < k /\ k <= (p + 1) * AllSize /\ q * AllSize < k /\ k <= (q + 1) * AllSize
      /\ k \in Int
  BY <1>2 DEF Slot
<1>4. ~(p < q)
  <2>1. p < q => (p + 1) * AllSize <= q * AllSize  BY <1>1, Sizes
  <2> QED  BY <1>2, <1>3, <2>1
<1>5. ~(q < p)
  <2>1. q < p => (q + 1) * AllSize <= p * AllSize  BY <1>1, Sizes
  <2> QED  BY <1>2, <1>3, <2>1
<1> QED  BY <1>4, <1>5

\* Every place is on a page.
LEMMA SlotOf ==
    ASSUME NEW t \in Nat, NEW k \in Nat, k >= 1, k <= (t + 1) * AllSize
    PROVE  \E p \in 0..t : k \in Slot(p)
<1> DEFINE p == (k - 1) \div AllSize
<1>1. AllSize \in Nat \ {0}  BY PagingAssumption
<1>2. p \in Nat /\ p * AllSize <= k - 1 /\ k - 1 < (p + 1) * AllSize  BY <1>1
<1>3. (p + 1) * AllSize \in Int /\ p * AllSize \in Int /\ (t + 1) * AllSize \in Int
  BY <1>1, <1>2, Times
<1> HIDE DEF p
<1>4. k \in Slot(p)  BY <1>2, <1>3 DEF Slot
<1>5. ~(t < p)
  <2>1. SUFFICES ASSUME t < p  PROVE FALSE  OBVIOUS
  <2>2. p - (t + 1) \in Nat  BY <1>2, <2>1
  <2>3. (p - (t + 1)) * AllSize \in Nat  BY <1>1, <2>2, TimesNat
  <2>4. p * AllSize = (t + 1) * AllSize + (p - (t + 1)) * AllSize  BY <1>1, <1>2
  <2> QED  BY <1>2, <1>3, <2>3, <2>4
<1> QED  BY <1>2, <1>4, <1>5

LEMMA SlotsFinite ==
    ASSUME NEW T, NEW n \in Nat
    PROVE  /\ IsFiniteSet(Slots(T, n)) /\ Cardinality(Slots(T, n)) \in Nat
           /\ Cardinality(Slots(T, n)) <= n
<1>1. IsFiniteSet(1..n) /\ Cardinality(1..n) = n  BY FS_Interval
<1>2. Slots(T, n) \in SUBSET (1..n)  BY DEF Slots
<1>3. IsFiniteSet(Slots(T, n)) /\ Cardinality(Slots(T, n)) <= n  BY <1>1, <1>2, FS_Subset
<1> QED  BY <1>3, FS_CardinalityType

\* One page more makes room for its items.
LEMMA SlotsMore ==
    ASSUME NEW T \in SUBSET Nat, NEW p \in Nat, p \notin T, NEW n \in Nat, NEW m \in Nat,
           m <= AllSize, m >= 1 => p * AllSize + m <= n
    PROVE  Cardinality(Slots(T, n)) + m <= Cardinality(Slots(T \cup {p}, n))
<1> DEFINE b == p * AllSize
           I == (b + 1) .. (b + m)
           A == Slots(T, n)
           B == Slots(T \cup {p}, n)
<1>1. b \in Nat /\ AllSize \in Nat /\ (p + 1) * AllSize = b + AllSize
  BY Sizes, Times, TimesNat
<1>2. Slot(p) = (b + 1) .. (b + AllSize)  BY <1>1 DEF Slot
<1> HIDE DEF b
<1>3. IsFiniteSet(I) /\ Cardinality(I) = m
  <2>1. b + 1 \in Int /\ b + m \in Int  BY <1>1
  <2>2. IsFiniteSet(I) /\ Cardinality(I) = IF b + 1 > b + m THEN 0 ELSE (b + m) - (b + 1) + 1
    BY <2>1, FS_Interval
  <2> QED  BY <1>1, <2>2
<1>4. I \subseteq Slot(p) /\ I \subseteq 1..n  BY <1>1, <1>2 DEF b
<1>5. I \subseteq B  BY <1>4 DEF Slots
<1>6. A \subseteq B  BY DEF Slots
<1>7. A \cap I = {}
  <2>1. \A k \in A : k \notin Slot(p)  BY SlotOnce DEF Slots
  <2> QED  BY <1>4, <2>1
<1>8. IsFiniteSet(A) /\ IsFiniteSet(B) /\ Cardinality(A) \in Nat /\ Cardinality(B) \in Nat
  BY SlotsFinite
<1> HIDE DEF I, A, B
<1>9. Cardinality(A \cup I) = Cardinality(A) + Cardinality(I) - Cardinality(A \cap I)
  BY <1>3, <1>8, FS_Union
<1>10. Cardinality(A \cup I) = Cardinality(A) + m
  <2>1. Cardinality(A \cap I) = 0  BY <1>7, FS_EmptySet
  <2> QED  BY <1>3, <1>8, <1>9, <2>1
<1>11. A \cup I \in SUBSET B  BY <1>5, <1>6
<1>12. Cardinality(A \cup I) <= Cardinality(B)  BY <1>8, <1>11, FS_Subset
<1> QED  BY <1>10, <1>12 DEF A, B

LEMMA DoneSubmit ==
    ASSUME NEW D, D \subseteq Nat, Types(D), NEW l \in Loops, JobsInv(l, D), Submits(l, D),
           MorePages(l) => gen[l].next \in D
    PROVE  Done(l)' = Done(l)
<1>1. gen[l].jobs \in Seq(D) /\ gen[l].next \in Nat  BY DEF Types, Gens
<1>2. CASE MorePages(l)
  <2>1. gen'[l].next = gen[l].next + 1 /\ gen'[l].jobs = Append(gen[l].jobs, gen[l].next)
    BY <1>2 DEF Submits
  <2>2. IsInjective(gen[l].jobs) /\ gen[l].next \in D  BY <1>2 DEF JobsInv
  <2>3. gen[l].next \notin Range(gen[l].jobs)
    <3>1. \A p \in Range(gen[l].jobs) : p < gen[l].next  BY DEF JobsInv
    <3> QED  BY <1>1, <3>1
  <2>4. Range(Append(gen[l].jobs, gen[l].next)) = Range(gen[l].jobs) \cup {gen[l].next}
    BY <1>1, <2>2, <2>3, AppendedApart
  <2>5. (0 .. (gen[l].next + 1) - 1) \ {gen[l].next} = 0 .. gen[l].next - 1  BY <1>1
  <2> QED  BY <2>1, <2>4, <2>5 DEF Done
<1>3. CASE ~MorePages(l)  BY <1>3 DEF Submits, Done
<1> QED  BY <1>2, <1>3

LEMMA DoneTake ==
    ASSUME NEW D, D \subseteq Nat, Types(D), NEW l \in Loops, JobsInv(l, D),
           NEW p, p = gen[l].jobs[gen[l].i], Takes(l, p, D)
    PROVE  Done(l)' = Done(l) \cup {p} /\ p \notin Done(l) /\ p \in Nat
<1>1. gen[l].jobs \in Seq(D) /\ gen[l].next \in Nat  BY DEF Types, Gens
<1>2. /\ gen[l].i \in 1..Len(gen[l].jobs) /\ p \in D /\ gen'[l].next = gen[l].next
      /\ gen'[l].jobs = RemoveAt(gen[l].jobs, gen[l].i)
  BY DEF Takes
<1>3. IsInjective(gen[l].jobs)  BY DEF JobsInv
<1>4. Range(gen'[l].jobs) = Range(gen[l].jobs) \ {p}  BY <1>1, <1>2, <1>3, RemovedApart
<1>5. p \in Range(gen[l].jobs)  BY <1>1, <1>2, RangeIs
<1>6. p < gen[l].next /\ p \in Nat  BY <1>2, <1>5 DEF JobsInv
<1>7. p \in 0 .. gen[l].next - 1  BY <1>1, <1>6
<1> QED  BY <1>2, <1>4, <1>5, <1>6, <1>7 DEF Done

LEMMA DoneSame ==
    ASSUME NEW l, gen'[l].next = gen[l].next, gen'[l].jobs = gen[l].jobs
    PROVE  Done(l)' = Done(l)
BY DEF Done

LEMMA DoneNat == ASSUME NEW D, Types(D), NEW l \in Loops PROVE Done(l) \in SUBSET Nat
<1>1. gen[l].next \in Nat  BY DEF Types, Gens
<1> QED  BY <1>1 DEF Done

\* Of an answer that arrived.
LEMMA ArrivedIs ==
    ASSUME NEW D, Types(D), NEW l \in Loops, NEW p \in D
    PROVE  job[l][p].ans.items \in Seq(Things) /\ Len(job[l][p].ans.items) \in Nat
<1>1. job[l][p] \in Jobs  BY DEF Types
<1>2. job[l][p].ans.items \in Seq(Things)
  <2>1. job[l][p].ans \in Answers  BY <1>1 DEF Jobs
  <2> QED  BY <2>1 DEF Answers
<1>3. \A s \in Seq(Things) : Len(s) \in Nat  OBVIOUS
<1> QED  BY <1>2, <1>3, Zenon

LEMMA WorkArrives ==
    ASSUME NEW D, D \subseteq Nat, Types(D), NEW l \in Loops, NEW p \in D, Works(l, p, D),
           NEW q \in D, job'[l][q].is \in Arrived
    PROVE  \/ job[l][q].is \in Arrived /\ job'[l][q].ans = job[l][q].ans
           \/ job'[l][q].ans = Query(remote, q, AllSize)
<1>1. CASE q # p
  <2>1. job'[l][q] = job[l][q]  BY <1>1 DEF Works
  <2> QED  BY <2>1
<1>2. CASE q = p
  <2>1. \/ job'[l][p] = [is |-> "answered", ans |-> Query(remote, p, AllSize)]
        \/ job'[l][p].is = "failed"
        \/ /\ job[l][p].is = "answered" /\ job'[l][p].ans = job[l][p].ans
    BY DEF Works
  <2>2. job'[l][p].is # "failed"  BY <1>2 DEF Arrived
  <2> QED  BY <1>2, <2>1, <2>2 DEF Arrived
<1> QED  BY <1>1, <1>2
-----------------------------------------------------------------------------
\* The room of get_all.
LEMMA RoomBegin ==
    ASSUME NEW top \in Nat, Types(Span(top)), Counts(top), NEW l \in Loops,
           KindInv(l, Span(top)), JobsInv(l, Span(top)), BeginAll(l)
    PROVE  RoomInv(l, Span(top))'
<1> DEFINE D == Span(top)
<1>1. Begins(l) /\ remote' = remote
  <2>1. AllStep(l)  BY DEF AllStep
  <2> QED  BY <2>1, BeginIs, AllApart DEF Still
<1>2. SUFFICES ASSUME Range(remote) \cap New = {}  PROVE RoomInv(l, D)'
  <2>1. since'[l] = Range(remote)  BY <1>1 DEF Begins
  <2> QED  BY <2>1 DEF RoomInv
<1>3. at[l] = "start" /\ at'[l] = "submit" /\ job' = job /\ got' = got /\ gen'[l].room = window.count
  BY <1>1 DEF Begins
<1>4. window.count \in Nat  BY DEF Types, Windows
<1>5. Len(remote) <= window.count
  <2>1. Cardinality(Range(remote) \ New) <= window.count  BY <1>4 DEF Counts, Snap
  <2>2. Cardinality(Range(remote) \ New) = Len(remote)  BY <1>2, OldItems DEF Counts
  <2> QED  BY <2>1, <2>2
<1>6. \A p \in D : job[l][p].is = "none"
  <2>1. gen[l].jobs = <<>>  BY <1>3 DEF JobsInv
  <2>2. Range(gen[l].jobs) = {}  BY <2>1 DEF Range
  <2> QED  BY <2>2 DEF JobsInv
<1>7. got[l] = <<>>  BY <1>3 DEF KindInv
<1>8. Len(got'[l]) <= Cardinality(Slots(Done(l)', window.count))
  <2>1. Cardinality(Slots(Done(l)', window.count)) \in Nat  BY <1>4, SlotsFinite
  <2>2. Len(got'[l]) = 0  BY <1>3, <1>7
  <2> QED  BY <2>1, <2>2
<1> QED  BY <1>1, <1>3, <1>5, <1>6, <1>8 DEF RoomInv, Arrived

LEMMA RoomTake ==
    ASSUME NEW D, D \subseteq Nat, Types(D), NEW l \in Loops, JobsInv(l, D),
           KindInv(l, D), RoomInv(l, D), Take(l)
    PROVE  RoomInv(l, D)'
<1>1. PICK p : p = gen[l].jobs[gen[l].i]  OBVIOUS
<1>2. Takes(l, p, D)  BY <1>1, TakeIs
<1>3. /\ p \in D /\ at[l] = "look" /\ at' = at /\ job[l][p].is = "done"
      /\ got'[l] = got[l] \o job[l][p].ans.items /\ gen'[l].room = gen[l].room
      /\ job'[l][p] = NoJob /\ (\A q \in D : q # p => job'[l][q] = job[l][q])
      /\ since' = since /\ grew' = grew
  BY <1>2 DEF Takes
<1>4. AllStep(l)  BY DEF AllStep
<1>5. remote' = remote /\ kind' = kind  BY <1>4, AllApart DEF Still
<1>6. OfAll(l)' = OfAll(l)  BY <1>5 DEF OfAll
<1>7. SUFFICES ASSUME OfAll(l), l \notin grew, since[l] \cap New = {}
               PROVE  RoomInv(l, D)'
  BY <1>3, <1>6 DEF RoomInv
<1> DEFINE m == Len(job[l][p].ans.items)
<1>8. /\ Len(remote) <= gen[l].room
      /\ \A q \in D : job[l][q].is \in Arrived =>
           /\ Len(job[l][q].ans.items) <= AllSize
           /\ Len(job[l][q].ans.items) >= 1 =>
                q * AllSize + Len(job[l][q].ans.items) <= gen[l].room
      /\ Len(got[l]) <= Cardinality(Slots(Done(l), gen[l].room))
  BY <1>3, <1>7 DEF RoomInv
<1>9. m <= AllSize /\ (m >= 1 => p * AllSize + m <= gen[l].room)
  BY <1>3, <1>8 DEF Arrived
<1>10. m \in Nat /\ got[l] \in Seq(Things) /\ job[l][p].ans.items \in Seq(Things)
  BY <1>3, ArrivedIs DEF Types
<1>11. gen[l].room \in Nat  BY DEF Types, Gens
<1>12. Len(got'[l]) = Len(got[l]) + m  BY <1>3, <1>10
<1>13. Done(l)' = Done(l) \cup {p} /\ p \notin Done(l) /\ p \in Nat
  BY <1>1, <1>2, DoneTake
<1>14. Cardinality(Slots(Done(l), gen[l].room)) + m
         <= Cardinality(Slots(Done(l) \cup {p}, gen[l].room))
  <2>1. Done(l) \in SUBSET Nat  BY DoneNat
  <2> HIDE DEF m
  <2> QED  BY <1>9, <1>10, <1>11, <1>13, <2>1, SlotsMore
<1>15. Len(got'[l]) <= Cardinality(Slots(Done(l)', gen[l].room))
  <2>1. /\ Cardinality(Slots(Done(l), gen[l].room)) \in Nat
        /\ Cardinality(Slots(Done(l) \cup {p}, gen[l].room)) \in Nat
    BY <1>11, SlotsFinite
  <2>2. Len(got[l]) \in Nat  BY <1>10
  <2> HIDE DEF m
  <2>3. Len(got[l]) + m <= Cardinality(Slots(Done(l) \cup {p}, gen[l].room))
    BY <1>8, <1>10, <1>14, <2>1, <2>2
  <2> QED  BY <1>12, <1>13, <2>3
<1>16. ASSUME NEW q \in D, job'[l][q].is \in Arrived  PROVE job'[l][q] = job[l][q]
  <2>1. job'[l][p].is = "none"  BY <1>3 DEF NoJob
  <2>2. q # p  BY <1>16, <2>1 DEF Arrived
  <2> QED  BY <1>3, <2>2
<1> QED  BY <1>3, <1>5, <1>8, <1>15, <1>16 DEF RoomInv

LEMMA RoomRaises ==
    ASSUME NEW D, D \subseteq Nat, Types(D), NEW l \in Loops, JobsInv(l, D),
           RoomInv(l, D), AllRaises(l)
    PROVE  RoomInv(l, D)'
<1>1. Looks(l)  BY LookIs
<1>2. AllStep(l)  BY DEF AllStep
<1>3. remote' = remote /\ kind' = kind  BY <1>2, AllApart DEF Still
<1>4. OfAll(l)' = OfAll(l)  BY <1>3 DEF OfAll
<1>5. /\ at[l] = "look" /\ job' = job /\ got' = got /\ gen'[l].room = gen[l].room
      /\ since' = since /\ grew' = grew
  BY <1>1 DEF Looks
<1>6. Done(l)' = Done(l)  BY <1>1, DoneSame DEF Looks
<1>7. SUFFICES ASSUME OfAll(l), l \notin grew, since[l] \cap New = {}
               PROVE  at'[l] # "index_error"
  <2>1. at[l] # "start"  BY <1>5
  <2> QED  BY <1>3, <1>4, <1>5, <1>6, <1>7, <2>1 DEF RoomInv
<1>8. SUFFICES ASSUME Seen(l).is = "done", TooMany(l)  PROVE FALSE
  BY DEF AllRaises, Goto, Types
<1>9. PICK p : p = gen[l].jobs[gen[l].i]  OBVIOUS
<1>10. gen[l].i \in 1..Len(gen[l].jobs) /\ gen[l].jobs \in Seq(D)
  BY DEF AllRaises, Looking, Types, Gens
<1>11. p \in D /\ p \in Range(gen[l].jobs)  BY <1>9, <1>10, RangeIs
<1>12. job[l][p].is = "done"  BY <1>8, <1>9 DEF Seen
<1> DEFINE m == Len(job[l][p].ans.items)
<1>13. /\ m <= AllSize /\ (m >= 1 => p * AllSize + m <= gen[l].room)
       /\ Len(got[l]) <= Cardinality(Slots(Done(l), gen[l].room))
  BY <1>5, <1>7, <1>11, <1>12 DEF RoomInv, Arrived
<1>14. m \in Nat /\ got[l] \in Seq(Things) /\ job[l][p].ans.items \in Seq(Things)
  BY <1>11, ArrivedIs DEF Types
<1>15. gen[l].room \in Nat /\ Done(l) \in SUBSET Nat /\ p \in Nat
  BY <1>11, DoneNat DEF Types, Gens
<1>16. p \notin Done(l)  BY <1>11 DEF Done
<1>17. Len(got[l]) + m > gen[l].room
  <2>1. Len(got[l] \o job[l][p].ans.items) > gen[l].room  BY <1>8, <1>9 DEF TooMany, Seen
  <2>2. Len(got[l] \o job[l][p].ans.items) = Len(got[l]) + Len(job[l][p].ans.items)
    BY <1>14
  <2> QED  BY <2>1, <2>2
<1> HIDE DEF m
<1>18. Cardinality(Slots(Done(l), gen[l].room)) + m
         <= Cardinality(Slots(Done(l) \cup {p}, gen[l].room))
  BY <1>13, <1>14, <1>15, <1>16, SlotsMore
<1>19. /\ Cardinality(Slots(Done(l), gen[l].room)) \in Nat
       /\ Cardinality(Slots(Done(l) \cup {p}, gen[l].room)) \in Nat
       /\ Cardinality(Slots(Done(l) \cup {p}, gen[l].room)) <= gen[l].room
  BY <1>15, SlotsFinite
<1>20. Len(got[l]) \in Nat  BY <1>14
<1> QED  BY <1>13, <1>14, <1>15, <1>17, <1>18, <1>19, <1>20

LEMMA RoomWork ==
    ASSUME NEW D, D \subseteq Nat, Types(D), NEW l \in Loops, RoomInv(l, D),
           NEW p \in D, JobStep(l, p)
    PROVE  RoomInv(l, D)'
<1>1. Works(l, p, D)  BY JobIs
<1>2. /\ remote' = remote /\ kind' = kind /\ at' = at /\ got' = got /\ gen' = gen
      /\ since' = since /\ grew' = grew
  BY JobApart DEF Still
<1>3. OfAll(l)' = OfAll(l) /\ Done(l)' = Done(l)  BY <1>2 DEF OfAll, Done
<1>4. SUFFICES ASSUME RoomInv(l, D), OfAll(l), at[l] # "start", l \notin grew,
                      since[l] \cap New = {}
               PROVE  RoomInv(l, D)'
  BY <1>2, <1>3 DEF RoomInv
<1>5. ASSUME NEW q \in D, job'[l][q].is \in Arrived
      PROVE  /\ Len(job'[l][q].ans.items) <= AllSize
             /\ Len(job'[l][q].ans.items) >= 1 =>
                  q * AllSize + Len(job'[l][q].ans.items) <= gen[l].room
  <2>1. CASE job[l][q].is \in Arrived /\ job'[l][q].ans = job[l][q].ans
    BY <1>4, <2>1 DEF RoomInv
  <2>2. CASE job'[l][q].ans = Query(remote, q, AllSize)
    <3>1. remote \in Seq(Things) /\ q \in Nat  BY DEF Types
    <3>2. /\ Query(remote, q, AllSize).items \in Seq(Things)
          /\ Len(Query(remote, q, AllSize).items) <= AllSize
          /\ Len(Query(remote, q, AllSize).items) >= 1 =>
               q * AllSize + Len(Query(remote, q, AllSize).items) <= Len(remote)
      <4>1. /\ Query(remote, q, AllSize).items \in Seq(Things)
            /\ Shows(Query(remote, q, AllSize), remote, q, AllSize)
        BY <3>1, Queried, Sizes
      <4> QED  BY <4>1 DEF Shows
    <3>3. Len(remote) <= gen[l].room  BY <1>4 DEF RoomInv
    <3>4. Len(remote) \in Nat /\ gen[l].room \in Nat /\ q * AllSize \in Nat
          /\ Len(Query(remote, q, AllSize).items) \in Nat
      BY <3>1, <3>2, TimesNat, Sizes DEF Types, Gens
    <3> QED  BY <2>2, <3>2, <3>3, <3>4
  <2> QED  BY <1>1, <1>5, <2>1, <2>2, WorkArrives
<1> QED  BY <1>2, <1>3, <1>4, <1>5 DEF RoomInv

LEMMA RoomSame ==
    ASSUME NEW D, NEW k \in Loops, Same(k), remote' = remote, RoomInv(k, D)
    PROVE  RoomInv(k, D)'
<1>1. OfAll(k)' = OfAll(k) /\ Done(k)' = Done(k)  BY DEF Same, OfAll, Done
<1> QED  BY <1>1 DEF Same, RoomInv

LEMMA RoomStep ==
    ASSUME NEW top \in Nat, Types(Span(top)), Counts(top), NEW l \in Loops,
           KindInv(l, Span(top)), JobsInv(l, Span(top)), RoomInv(l, Span(top)),
           \/ WalkStep(l) \/ Leave(l) \/ AllStep(l) \/ \E p \in Span(top) : JobStep(l, p)
    PROVE  RoomInv(l, Span(top))'
<1> DEFINE D == Span(top)
<1>0. D \subseteq Nat  BY SpanNat
<1> HIDE DEF D
<1>1. CASE WalkStep(l)
  <2>1. ~OfAll(l)
    <3>1. /\ at[l] \in {"start", "ask", "asked", "land", "show", "yield", "turn"}
          /\ at[l] = "start" => Walks(l)
      BY <1>1, WalkPlace
    <3>2. ~(Walks(l) /\ OfAll(l))  BY DEF Walks, OfAll
    <3> QED  BY <3>1, <3>2 DEF KindInv, OfAll, Walks
  <2>2. kind' = kind  BY <1>1, WalkPlace
  <2>3. ~OfAll(l)'  BY <2>1, <2>2 DEF OfAll
  <2> QED  BY <2>3 DEF RoomInv
<1>2. CASE Leave(l)
  <2>1. /\ at[l] \in {"turn", "look"} /\ at'[l] = "left" /\ job' = job /\ kind' = kind
        /\ got' = got /\ gen' = gen /\ remote' = remote /\ since' = since /\ grew' = grew
    BY <1>2 DEF Leave, Goto, Types, Others, service
  <2>2. OfAll(l)' = OfAll(l) /\ Done(l)' = Done(l)  BY <2>1 DEF OfAll, Done
  <2> QED  BY <2>1, <2>2 DEF RoomInv
<1>3. CASE BeginAll(l)  BY <1>3, RoomBegin
<1>4. CASE Submit(l)
  <2>0. Submits(l, Span(top))  BY <1>4, SubmitIs, Fits
  <2>1. /\ at[l] = "submit" /\ at'[l] = "look" /\ got' = got /\ gen'[l].room = gen[l].room
        /\ since' = since /\ grew' = grew
    BY <2>0 DEF Submits
  <2>2. remote' = remote /\ kind' = kind
    <3>1. AllStep(l)  BY <1>4 DEF AllStep
    <3> QED  BY <3>1, AllApart DEF Still
  <2>3. Done(l)' = Done(l)  BY <2>0, DoneSubmit, Fits, SpanNat
  <2>4. OfAll(l)' = OfAll(l)  BY <2>2 DEF OfAll
  <2>5. ASSUME NEW p \in Span(top), job'[l][p].is \in Arrived  PROVE job'[l][p] = job[l][p]
    BY <2>0, <2>5 DEF Submits, Arrived
  <2> QED  BY <2>1, <2>2, <2>3, <2>4, <2>5 DEF RoomInv
<1>5. CASE Take(l)  BY <1>5, RoomTake, SpanNat
<1>6. CASE AllRaises(l)  BY <1>6, RoomRaises, SpanNat
<1>7. CASE NotYet(l) \/ PassEnds(l)
  <2>0. Looks(l)  BY <1>7, LookIs
  <2>1. /\ at[l] = "look" /\ got' = got /\ gen'[l].room = gen[l].room /\ job' = job
        /\ since' = since /\ grew' = grew
    BY <2>0 DEF Looks
  <2>2. remote' = remote /\ kind' = kind
    <3>1. AllStep(l)  BY <1>7 DEF AllStep
    <3> QED  BY <3>1, AllApart DEF Still
  <2>3. Done(l)' = Done(l)  BY <2>0, DoneSame DEF Looks
  <2>4. OfAll(l)' = OfAll(l)  BY <2>2 DEF OfAll
  <2>5. at'[l] # "index_error"  BY <1>7 DEF NotYet, PassEnds, Looking, Goto, Types
  <2> QED  BY <2>1, <2>2, <2>3, <2>4, <2>5 DEF RoomInv
<1>8. ASSUME NEW p \in Span(top), JobStep(l, p)  PROVE RoomInv(l, Span(top))'
  BY <1>8, RoomWork, SpanNat
<1> QED  BY <1>1, <1>2, <1>3, <1>4, <1>5, <1>6, <1>7, <1>8 DEF AllStep

LEMMA RoomOthers ==
    ASSUME NEW D, Types(D), IsInjective(remote), NEW l \in Loops, RoomInv(l, D),
           (\E x \in New : Publish(x)) \/ (\E i \in DOMAIN remote : Withdraw(i))
    PROVE  RoomInv(l, D)'
<1>1. /\ kind' = kind /\ at' = at /\ got' = got /\ gen' = gen /\ job' = job /\ since' = since
  BY OthersApart
<1>2. OfAll(l)' = OfAll(l) /\ Done(l)' = Done(l)  BY <1>1 DEF OfAll, Done
<1>3. ASSUME NEW x \in New, Publish(x)  PROVE RoomInv(l, D)'
  <2>1. l \in grew'  BY <1>3 DEF Publish
  <2> QED  BY <2>1 DEF RoomInv
<1>4. ASSUME NEW i \in DOMAIN remote, Withdraw(i)  PROVE RoomInv(l, D)'
  <2>1. Goes(i)  BY <1>4, WithdrawIs
  <2>2. Len(remote') = Len(remote) - 1 /\ grew' = grew  BY <2>1 DEF Goes
  <2>3. Len(remote) \in Nat /\ gen[l].room \in Nat  BY DEF Types, Gens
  <2>4. Len(remote) <= gen[l].room => Len(remote') <= gen[l].room  BY <2>2, <2>3
  <2> QED  BY <1>1, <1>2, <2>2, <2>4 DEF RoomInv
<1> QED  BY <1>3, <1>4
-----------------------------------------------------------------------------
\* Of pages of a list without repetition.
LEMMA ConcatApart ==
    ASSUME NEW S, NEW a \in Seq(S), NEW b \in Seq(S), IsInjective(a), IsInjective(b),
           Range(a) \cap Range(b) = {}
    PROVE  IsInjective(a \o b)
<1> DEFINE c == a \o b
<1>1. /\ c \in Seq(S) /\ Len(c) = Len(a) + Len(b) /\ \A i \in 1..Len(a) : c[i] = a[i]
      /\ \A i \in 1..Len(c) : i > Len(a) => c[i] = b[i - Len(a)]
  OBVIOUS
<1>2. /\ \A i, j \in 1..Len(a) : a[i] = a[j] => i = j
      /\ \A i, j \in 1..Len(b) : b[i] = b[j] => i = j
  BY InjectiveIs
<1>3. (\A i \in 1..Len(a) : a[i] \in Range(a)) /\ (\A i \in 1..Len(b) : b[i] \in Range(b))
  BY RangeIs
<1>4. Len(a) \in Nat /\ Len(b) \in Nat  OBVIOUS
<1> HIDE DEF c
<1>5. \A i \in 1..Len(c) : \/ i \in 1..Len(a) /\ c[i] = a[i]
                           \/ i - Len(a) \in 1..Len(b) /\ c[i] = b[i - Len(a)] /\ i > Len(a)
  BY <1>1, <1>4
<1>6. ASSUME NEW i \in 1..Len(c), NEW j \in 1..Len(c), c[i] = c[j]  PROVE i = j
  <2>1. CASE i \in 1..Len(a) /\ c[i] = a[i] /\ j \in 1..Len(a) /\ c[j] = a[j]
    BY <1>2, <1>6, <2>1
  <2>2. CASE /\ i - Len(a) \in 1..Len(b) /\ c[i] = b[i - Len(a)]
             /\ j - Len(a) \in 1..Len(b) /\ c[j] = b[j - Len(a)]
    <3>1. i - Len(a) = j - Len(a)  BY <1>2, <1>6, <2>2
    <3> QED  BY <1>1, <1>4, <3>1
  <2>3. CASE /\ i \in 1..Len(a) /\ c[i] = a[i]
             /\ j - Len(a) \in 1..Len(b) /\ c[j] = b[j - Len(a)]
    BY <1>3, <1>6, <2>3
  <2>4. CASE /\ j \in 1..Len(a) /\ c[j] = a[j]
             /\ i - Len(a) \in 1..Len(b) /\ c[i] = b[i - Len(a)]
    BY <1>3, <1>6, <2>4
  <2> QED  BY <1>5, <2>1, <2>2, <2>3, <2>4
<1>7. IsInjective(c)  BY <1>1, <1>6, InjectiveIs
<1> QED  BY <1>7 DEF c

LEMMA ConcatRange ==
    ASSUME NEW S, NEW a \in Seq(S), NEW b \in Seq(S)
    PROVE  Range(a \o b) = Range(a) \cup Range(b)
<1> DEFINE c == a \o b
<1>1. /\ c \in Seq(S) /\ Len(c) = Len(a) + Len(b) /\ \A i \in 1..Len(a) : c[i] = a[i]
      /\ \A i \in 1..Len(b) : c[i + Len(a)] = b[i]
      /\ \A i \in 1..Len(c) : i > Len(a) => c[i] = b[i - Len(a)]
  OBVIOUS
<1>2. Len(a) \in Nat /\ Len(b) \in Nat  OBVIOUS
<1> HIDE DEF c
<1>3. ASSUME NEW i \in 1..Len(c)  PROVE c[i] \in Range(a) \cup Range(b)
  <2>1. CASE i <= Len(a)
    <3>1. i \in 1..Len(a)  BY <1>1, <1>2, <2>1
    <3> QED  BY <1>1, <3>1, RangeIs
  <2>2. CASE i > Len(a)
    <3>1. i - Len(a) \in 1..Len(b)  BY <1>1, <1>2, <2>2
    <3>2. c[i] = b[i - Len(a)]  BY <1>1, <2>2
    <3> QED  BY <3>1, <3>2, RangeIs
  <2> QED  BY <1>2, <2>1, <2>2
<1>4. \A i \in 1..Len(a) : a[i] \in Range(c)
  <2>1. \A i \in 1..Len(a) : i \in 1..Len(c) /\ c[i] = a[i]  BY <1>1, <1>2
  <2> QED  BY <1>1, <2>1, RangeIs
<1>5. \A i \in 1..Len(b) : b[i] \in Range(c)
  <2>1. \A i \in 1..Len(b) : i + Len(a) \in 1..Len(c) /\ c[i + Len(a)] = b[i]  BY <1>1, <1>2
  <2> QED  BY <1>1, <2>1, RangeIs
<1>6. \A x \in Range(c) : x \in Range(a) \cup Range(b)  BY <1>1, <1>3, RangeIs
<1>7. (\A x \in Range(a) : x \in Range(c)) /\ (\A x \in Range(b) : x \in Range(c))
  BY <1>4, <1>5, RangeIs
<1> QED  BY <1>6, <1>7 DEF c

\* The places of page p of a list.
PageOf(list, p, size) == {list[k] : k \in {j \in 1..Len(list) : p * size < j /\ j <= (p + 1) * size}}

LEMMA PageApart ==
    ASSUME NEW S, NEW list \in Seq(S), IsInjective(list), NEW p \in Nat,
           NEW size \in Nat, size >= 1
    PROVE  /\ IsInjective(Query(list, p, size).items)
           /\ Range(Query(list, p, size).items) = PageOf(list, p, size)
<1> DEFINE q == Query(list, p, size)
<1>0. q.items \in Seq(S) /\ Shows(q, list, p, size)  BY Queried
<1> HIDE DEF q
<1> DEFINE m == p * size
           top == (p + 1) * size
<1>1. /\ q.items \in Seq(S)
      /\ \A j \in 1..Len(q.items) : /\ m + j \in 1..Len(list) /\ m + j <= top
                                    /\ q.items[j] = list[m + j]
      /\ \A k \in 1..Len(list) : m < k /\ k <= top =>
           k - m \in 1..Len(q.items) /\ q.items[k - m] = list[k]
  BY <1>0 DEF Shows
<1>2. m \in Nat  BY TimesNat
<1>3. \A i, j \in 1..Len(list) : list[i] = list[j] => i = j  BY InjectiveIs
<1> HIDE DEF m, top
<1>4. IsInjective(q.items)
  <2>1. ASSUME NEW i \in 1..Len(q.items), NEW j \in 1..Len(q.items), q.items[i] = q.items[j]
        PROVE  i = j
    <3>1. m + i = m + j  BY <1>1, <1>3, <2>1
    <3> QED  BY <1>1, <1>2, <3>1
  <2> QED  BY <1>1, <2>1, InjectiveIs
<1>5. ASSUME NEW j \in 1..Len(q.items)
      PROVE  \E k \in 1..Len(list) : m < k /\ k <= top /\ q.items[j] = list[k]
  <2>1. m < m + j  BY <1>1, <1>2
  <2> QED  BY <1>1, <2>1
<1>6. Range(q.items) = {list[k] : k \in {j \in 1..Len(list) : m < j /\ j <= top}}
  <2>1. ASSUME NEW x \in Range(q.items)
        PROVE  \E k \in 1..Len(list) : m < k /\ k <= top /\ x = list[k]
    <3>1. PICK j \in 1..Len(q.items) : x = q.items[j]  BY <1>1, RangeIs
    <3> QED  BY <1>5, <3>1
  <2>2. \A k \in 1..Len(list) : m < k /\ k <= top => list[k] \in Range(q.items)
    BY <1>1, RangeIs
  <2> QED  BY <2>1, <2>2
<1> QED  BY <1>4, <1>6 DEF q, m, top, PageOf

LEMMA SlotPage ==
    ASSUME NEW S, NEW list \in Seq(S), NEW p \in Nat
    PROVE  PageOf(list, p, AllSize) = {list[k] : k \in Slots({p}, Len(list))}
<1>1. p * AllSize \in Int /\ (p + 1) * AllSize \in Int  BY Times, Sizes
<1>2. \A k \in 1..Len(list) : k \in Slot(p) <=> p * AllSize < k /\ k <= (p + 1) * AllSize
  BY <1>1 DEF Slot
<1>3. {j \in 1..Len(list) : p * AllSize < j /\ j <= (p + 1) * AllSize} = Slots({p}, Len(list))
  BY <1>2 DEF Slots
<1> QED  BY <1>3 DEF PageOf

LEMMA SlotsApart ==
    ASSUME NEW T \in SUBSET Nat, NEW p \in Nat, p \notin T, NEW n \in Nat
    PROVE  Slots(T, n) \cap Slots({p}, n) = {}
BY SlotOnce DEF Slots
-----------------------------------------------------------------------------
\* all() while the list stays.
LEMMA WalksNotAll ==
    ASSUME NEW D, Types(D), NEW l \in Loops, KindInv(l, D), WalkStep(l)
    PROVE  ~OfAll(l) /\ Walks(l) /\ kind' = kind
<1>1. /\ at[l] \in {"start", "ask", "asked", "land", "show", "yield", "turn"}
      /\ at[l] = "start" => Walks(l)
  BY WalkPlace
<1>2. /\ ~(Walks(l) /\ OfAll(l)) /\ kind[l] = "none" => ~Walks(l) /\ ~OfAll(l)
      /\ Walks(l) \/ OfAll(l) \/ kind[l] = "none"
  BY KindIs
<1>3. ~OfAll(l) /\ Walks(l)  BY <1>1, <1>2 DEF KindInv, OfAll, Walks
<1>4. kind' = kind  BY WalkPlace
<1> QED  BY <1>3, <1>4

LEMMA AllStays == ASSUME NEW D, Types(D), NEW l \in Loops, AllStep(l)
                  PROVE  remote' = remote /\ kind' = kind /\ OfAll(l)' = OfAll(l)
<1>1. remote' = remote /\ kind' = kind  BY AllApart DEF Still
<1> QED  BY <1>1 DEF OfAll

LeaveIs(l) ==
    /\ at[l] \in {"turn", "look"} /\ at'[l] = "left" /\ job' = job /\ kind' = kind
    /\ got' = got /\ gen' = gen /\ remote' = remote /\ since' = since /\ grew' = grew
    /\ shrank' = shrank /\ window' = window /\ answer' = answer /\ strange' = strange
    /\ changes' = changes

LEMMA Left == ASSUME NEW D, Types(D), NEW l \in Loops, Leave(l) PROVE LeaveIs(l)
BY DEF Leave, Goto, Types, Others, service, LeaveIs

LEMMA SteadyTake ==
    ASSUME NEW D, D \subseteq Nat, Types(D), IsInjective(remote), NEW l \in Loops,
           JobsInv(l, D), SteadyInv(l, D), Take(l)
    PROVE  SteadyInv(l, D)'
<1>1. PICK p : p = gen[l].jobs[gen[l].i]  OBVIOUS
<1>2. Takes(l, p, D)  BY <1>1, TakeIs
<1>3. /\ p \in D /\ at[l] = "look" /\ at' = at /\ job[l][p].is = "done"
      /\ got'[l] = got[l] \o job[l][p].ans.items
      /\ job'[l][p] = NoJob /\ (\A q \in D : q # p => job'[l][q] = job[l][q])
      /\ since' = since /\ grew' = grew /\ shrank' = shrank
  BY <1>2 DEF Takes
<1>4. AllStep(l)  BY DEF AllStep
<1>5. remote' = remote /\ kind' = kind /\ OfAll(l)' = OfAll(l)  BY <1>4, AllStays
<1>6. SUFFICES ASSUME OfAll(l), l \notin grew \cup shrank  PROVE SteadyInv(l, D)'
  BY <1>3, <1>5 DEF SteadyInv
<1>7. /\ since[l] = Range(remote)
      /\ \A q \in D : job[l][q].is \in Arrived =>
           job[l][q].ans.items = Query(remote, q, AllSize).items
      /\ IsInjective(got[l])
      /\ Range(got[l]) = {remote[k] : k \in Slots(Done(l), Len(remote))}
  BY <1>3, <1>6 DEF SteadyInv
<1>8. Done(l)' = Done(l) \cup {p} /\ p \notin Done(l) /\ p \in Nat
  BY <1>1, <1>2, DoneTake
<1>9. PICK b : b = job[l][p].ans.items  OBVIOUS
<1>10. b = Query(remote, p, AllSize).items /\ b \in Seq(Things)
  BY <1>3, <1>7, <1>9, ArrivedIs DEF Arrived
<1>11. remote \in Seq(Things) /\ got[l] \in Seq(Things)  BY DEF Types
<1>12. IsInjective(b) /\ Range(b) = PageOf(remote, p, AllSize)
  BY <1>8, <1>10, <1>11, PageApart, Sizes
<1>13. Range(b) = {remote[k] : k \in Slots({p}, Len(remote))}
  BY <1>8, <1>11, <1>12, SlotPage
<1>14. Slots(Done(l), Len(remote)) \cap Slots({p}, Len(remote)) = {}
  <2>1. Done(l) \in SUBSET Nat /\ Len(remote) \in Nat  BY <1>11, DoneNat
  <2> QED  BY <1>8, <2>1, SlotsApart
<1>15. Range(got[l]) \cap Range(b) = {}
  <2>1. \A i, j \in 1..Len(remote) : remote[i] = remote[j] => i = j  BY <1>11, InjectiveIs
  <2>2. /\ Slots(Done(l), Len(remote)) \subseteq 1..Len(remote)
        /\ Slots({p}, Len(remote)) \subseteq 1..Len(remote)
    BY DEF Slots
  <2>3. ASSUME NEW x \in Range(got[l]), x \in Range(b)  PROVE FALSE
    <3>1. PICK i \in Slots(Done(l), Len(remote)) : x = remote[i]  BY <1>7
    <3>2. PICK j \in Slots({p}, Len(remote)) : x = remote[j]  BY <1>13, <2>3
    <3>3. i = j  BY <2>1, <2>2, <3>1, <3>2
    <3> QED  BY <1>14, <3>3
  <2> QED  BY <2>3
<1>16. IsInjective(got[l] \o b)  BY <1>7, <1>10, <1>11, <1>12, <1>15, ConcatApart
<1>17. Range(got[l] \o b) = Range(got[l]) \cup Range(b)
  BY <1>10, <1>11, ConcatRange
<1>18. Range(got[l] \o b) = {remote[k] : k \in Slots(Done(l) \cup {p}, Len(remote))}
  <2>1. Slots(Done(l) \cup {p}, Len(remote))
          = Slots(Done(l), Len(remote)) \cup Slots({p}, Len(remote))
    BY DEF Slots
  <2> QED  BY <1>7, <1>13, <1>17, <2>1
<1>19. ASSUME NEW q \in D, job'[l][q].is \in Arrived  PROVE job'[l][q] = job[l][q]
  <2>1. job'[l][p].is = "none"  BY <1>3 DEF NoJob
  <2>2. q # p  BY <1>19, <2>1 DEF Arrived
  <2> QED  BY <1>3, <2>2
<1>20. \A q \in D : job'[l][q].is \in Arrived =>
         job'[l][q].ans.items = Query(remote, q, AllSize).items
  BY <1>7, <1>19
<1>21. got'[l] = got[l] \o b  BY <1>3, <1>9
<1> QED  BY ZenonT(40), <1>3, <1>5, <1>7, <1>8, <1>16, <1>18, <1>20, <1>21 DEF SteadyInv

LEMMA SteadyBegin ==
    ASSUME NEW D, Types(D), NEW l \in Loops, KindInv(l, D), JobsInv(l, D), BeginAll(l)
    PROVE  SteadyInv(l, D)'
<1>1. Begins(l)  BY BeginIs
<1>2. AllStep(l)  BY DEF AllStep
<1>3. remote' = remote  BY <1>2, AllStays
<1>4. /\ at[l] = "start" /\ at'[l] = "submit" /\ job' = job /\ got' = got
      /\ gen'[l].next = gen[l].next /\ since'[l] = Range(remote)
  BY <1>1 DEF Begins
<1>5. gen[l].next = 0 /\ gen[l].jobs = <<>> /\ got[l] = <<>>
  BY <1>4 DEF JobsInv, KindInv
<1>6. \A p \in D : job[l][p].is = "none"
  <2>1. Range(gen[l].jobs) = {}  BY <1>5 DEF Range
  <2> QED  BY <2>1 DEF JobsInv
<1>7. Done(l)' = {}  BY <1>4, <1>5 DEF Done
<1>8. IsInjective(got'[l]) /\ Range(got'[l]) = {}  BY <1>4, <1>5 DEF IsInjective, Range
<1>9. Slots({}, Len(remote)) = {}  BY DEF Slots
<1> QED  BY <1>3, <1>4, <1>6, <1>7, <1>8, <1>9 DEF SteadyInv, Arrived

LEMMA SteadySame ==
    ASSUME NEW D, NEW k \in Loops, Same(k), remote' = remote, SteadyInv(k, D)
    PROVE  SteadyInv(k, D)'
<1>1. OfAll(k)' = OfAll(k) /\ Done(k)' = Done(k)  BY DEF Same, OfAll, Done
<1>2. k \in grew' \cup shrank' <=> k \in grew \cup shrank  BY DEF Same
<1> QED  BY <1>1, <1>2 DEF Same, SteadyInv

LEMMA SteadyStep ==
    ASSUME NEW D, D \subseteq Nat, Types(D), IsInjective(remote), NEW l \in Loops,
           KindInv(l, D), JobsInv(l, D), SteadyInv(l, D), MorePages(l) => gen[l].next \in D,
           \/ WalkStep(l) \/ Leave(l) \/ AllStep(l) \/ \E p \in D : JobStep(l, p)
    PROVE  SteadyInv(l, D)'
<1>1. CASE WalkStep(l)
  <2>1. ~OfAll(l) /\ kind' = kind  BY <1>1, WalksNotAll
  <2> QED  BY <2>1 DEF SteadyInv, OfAll
<1>2. CASE Leave(l)
  <2>1. LeaveIs(l)  BY <1>2, Left
  <2>2. OfAll(l)' = OfAll(l) /\ Done(l)' = Done(l)  BY <2>1 DEF LeaveIs, OfAll, Done
  <2>3. /\ at[l] # "start" /\ job' = job /\ got' = got /\ remote' = remote /\ since' = since
        /\ grew' = grew /\ shrank' = shrank
    BY <2>1 DEF LeaveIs
  <2> QED  BY <2>2, <2>3 DEF SteadyInv
<1>3. CASE BeginAll(l)  BY <1>3, SteadyBegin
<1>4. CASE Submit(l)
  <2>0. Submits(l, D)  BY <1>4, SubmitIs
  <2>1. /\ at[l] = "submit" /\ got' = got /\ since' = since /\ grew' = grew /\ shrank' = shrank
    BY <2>0 DEF Submits
  <2>2. AllStep(l)  BY <1>4 DEF AllStep
  <2>3. Done(l)' = Done(l)  BY <2>0, DoneSubmit
  <2>4. remote' = remote /\ OfAll(l)' = OfAll(l)  BY <2>2, AllStays
  <2>5. ASSUME NEW p \in D, job'[l][p].is \in Arrived  PROVE job'[l][p] = job[l][p]
    BY <2>0, <2>5 DEF Submits, Arrived
  <2> QED  BY <2>1, <2>3, <2>4, <2>5 DEF SteadyInv
<1>5. CASE Take(l)  BY <1>5, SteadyTake
<1>6. CASE NotYet(l) \/ AllRaises(l) \/ PassEnds(l)
  <2>0. Looks(l)  BY <1>6, LookIs
  <2>1. /\ at[l] = "look" /\ got' = got /\ job' = job
        /\ since' = since /\ grew' = grew /\ shrank' = shrank
    BY <2>0 DEF Looks
  <2>2. AllStep(l)  BY <1>6 DEF AllStep
  <2>3. Done(l)' = Done(l)  BY <2>0, DoneSame DEF Looks
  <2>4. remote' = remote /\ OfAll(l)' = OfAll(l)  BY <2>2, AllStays
  <2> QED  BY <2>1, <2>3, <2>4 DEF SteadyInv
<1>7. ASSUME NEW p \in D, JobStep(l, p)  PROVE SteadyInv(l, D)'
  <2>1. Works(l, p, D)  BY <1>7, JobIs
  <2>2. /\ remote' = remote /\ kind' = kind /\ at' = at /\ got' = got /\ gen' = gen
        /\ since' = since /\ grew' = grew /\ shrank' = shrank
    BY <1>7, JobApart DEF Still
  <2>3. OfAll(l)' = OfAll(l) /\ Done(l)' = Done(l)  BY <2>2 DEF OfAll, Done
  <2>4. ASSUME OfAll(l), at[l] # "start", l \notin grew \cup shrank,
               NEW q \in D, job'[l][q].is \in Arrived
        PROVE  job'[l][q].ans.items = Query(remote, q, AllSize).items
    <3>1. \/ job[l][q].is \in Arrived /\ job'[l][q].ans = job[l][q].ans
          \/ job'[l][q].ans = Query(remote, q, AllSize)
      BY <2>1, <2>4, WorkArrives
    <3> QED  BY <2>4, <3>1 DEF SteadyInv
  <2> QED  BY <2>2, <2>3, <2>4 DEF SteadyInv
<1> QED  BY <1>1, <1>2, <1>3, <1>4, <1>5, <1>6, <1>7 DEF AllStep

LEMMA SteadyOthers ==
    ASSUME NEW D, NEW l \in Loops,
           (\E x \in New : Publish(x)) \/ (\E i \in DOMAIN remote : Withdraw(i))
    PROVE  SteadyInv(l, D)'
<1>1. l \in grew' \cup shrank'  BY DEF Publish, Withdraw
<1> QED  BY <1>1 DEF SteadyInv
-----------------------------------------------------------------------------
\* all() submits every page.
LEMMA FinishSame ==
    ASSUME NEW k \in Loops, Same(k), FinishInv(k)
    PROVE  FinishInv(k)'
<1>1. OfAll(k)' = OfAll(k)  BY DEF Same, OfAll
<1> QED  BY <1>1 DEF Same, FinishInv

LEMMA FinishStep ==
    ASSUME NEW D, D \subseteq Nat, Types(D), NEW l \in Loops,
           KindInv(l, D), JobsInv(l, D), FinishInv(l), MorePages(l) => gen[l].next \in D,
           \/ WalkStep(l) \/ Leave(l) \/ AllStep(l) \/ \E p \in D : JobStep(l, p)
    PROVE  FinishInv(l)'
<1>0. /\ gen[l].next \in Nat /\ gen[l].total \in Nat /\ gen[l].i \in Nat \ {0}
      /\ gen[l].jobs \in Seq(D)
  BY DEF Types, Gens
<1>1. CASE WalkStep(l)
  <2>1. ~OfAll(l) /\ kind' = kind  BY <1>1, WalksNotAll
  <2> QED  BY <2>1 DEF FinishInv, OfAll
<1>2. CASE Leave(l)
  <2>1. LeaveIs(l)  BY <1>2, Left
  <2> QED  BY <2>1 DEF LeaveIs, FinishInv
<1>3. CASE BeginAll(l)
  <2>1. Begins(l)  BY <1>3, BeginIs
  <2>2. at[l] = "start" /\ at'[l] = "submit" /\ gen'[l].next = gen[l].next
    BY <2>1 DEF Begins
  <2>3. gen[l].next = 0  BY <2>2 DEF JobsInv
  <2> QED  BY <2>2, <2>3 DEF FinishInv
<1>4. CASE Submit(l)
  <2>0. Submits(l, D)  BY <1>4, SubmitIs
  <2>1. AllStep(l)  BY <1>4 DEF AllStep
  <2>2. OfAll(l)' = OfAll(l)  BY <2>1, AllStays
  <2>3. at[l] = "submit" /\ at'[l] = "look" /\ gen'[l].total = gen[l].total
    BY <2>0 DEF Submits
  <2>4. CASE MorePages(l)
    <3>1. gen'[l].next = gen[l].next + 1 /\ gen'[l].jobs = Append(gen[l].jobs, gen[l].next)
      BY <2>0, <2>4 DEF Submits
    <3>2. Len(gen'[l].jobs) = Len(gen[l].jobs) + 1 /\ Len(gen[l].jobs) \in Nat
      BY <1>0, <3>1
    <3>3. OfAll(l) /\ gen[l].next >= 1 => Len(gen[l].jobs) >= 1
      <4>1. OfAll(l) /\ gen[l].next >= 1 => gen[l].jobs # <<>>  BY <2>3 DEF FinishInv
      <4> QED  BY <1>0, <4>1
    <3> QED  BY <1>0, <2>2, <2>3, <3>1, <3>2, <3>3 DEF FinishInv
  <2>5. CASE ~MorePages(l)
    <3>1. gen'[l].next = gen[l].next /\ ~(gen[l].next <= gen[l].total)
      BY <2>0, <2>5 DEF Submits, MorePages
    <3> QED  BY <1>0, <2>2, <2>3, <3>1 DEF FinishInv
  <2> QED  BY <2>4, <2>5
<1>5. CASE Take(l)
  <2>0. PICK p : p = gen[l].jobs[gen[l].i]  OBVIOUS
  <2>1. Takes(l, p, D)  BY <1>5, <2>0, TakeIs
  <2>2. AllStep(l)  BY <1>5 DEF AllStep
  <2>3. OfAll(l)' = OfAll(l)  BY <2>2, AllStays
  <2>4. /\ at[l] = "look" /\ at' = at /\ gen'[l].next = gen[l].next
        /\ gen'[l].total = gen[l].total /\ gen'[l].i = gen[l].i + 1
        /\ gen[l].i \in 1..Len(gen[l].jobs) /\ gen'[l].jobs = RemoveAt(gen[l].jobs, gen[l].i)
    BY <2>1 DEF Takes
  <2>5. Len(gen'[l].jobs) = Len(gen[l].jobs) - 1  BY <1>0, <2>4, Removed
  <2>6. Len(gen[l].jobs) \in Nat  BY <1>0
  <2> QED  BY <1>0, <2>3, <2>4, <2>5, <2>6 DEF FinishInv
<1>6. CASE NotYet(l)
  <2>0. Looks(l)  BY <1>6, LookIs
  <2>1. AllStep(l)  BY <1>6 DEF AllStep
  <2>2. OfAll(l)' = OfAll(l)  BY <2>1, AllStays
  <2>3. /\ at[l] = "look" /\ at' = at /\ gen'[l].i = gen[l].i + 1 /\ gen[l].i <= Len(gen[l].jobs)
    BY <1>6 DEF NotYet, Looking, Types, Gens
  <2>4. /\ gen'[l].next = gen[l].next /\ gen'[l].total = gen[l].total
        /\ gen'[l].jobs = gen[l].jobs
    BY <2>0 DEF Looks
  <2> QED  BY <1>0, <2>2, <2>3, <2>4 DEF FinishInv
<1>7. CASE AllRaises(l)
  <2>1. at'[l] \in {"raised", "index_error"}  BY <1>7 DEF AllRaises, Goto, Types
  <2> QED  BY <2>1 DEF FinishInv
<1>8. CASE PassEnds(l)
  <2>1. /\ at[l] = "look" /\ gen' = gen /\ kind' = kind
        /\ at'[l] = IF gen[l].jobs = <<>> THEN "ended" ELSE "submit"
    BY <1>8 DEF PassEnds, Goto, Types
  <2>2. OfAll(l)' = OfAll(l)  BY <2>1 DEF OfAll
  <2>3. OfAll(l) /\ gen[l].jobs = <<>> => gen[l].next = 1 \/ gen[l].next = gen[l].total + 1
    <3>1. gen[l].next <= gen[l].total + 1  BY DEF JobsInv
    <3>2. gen[l].jobs = <<>> => Len(gen[l].jobs) = 0  OBVIOUS
    <3> QED  BY <1>0, <2>1, <3>1, <3>2 DEF FinishInv
  <2> QED  BY <2>1, <2>2, <2>3 DEF FinishInv
<1>9. ASSUME NEW p \in D, JobStep(l, p)  PROVE FinishInv(l)'
  <2>1. kind' = kind /\ at' = at /\ gen' = gen  BY <1>9, JobApart DEF Still
  <2> QED  BY <2>1 DEF FinishInv, OfAll
<1> QED  BY <1>1, <1>2, <1>3, <1>4, <1>5, <1>6, <1>7, <1>8, <1>9 DEF AllStep

(***************************************************************************)
(* A loop over the window and the places of the list.                       *)
(***************************************************************************)
LEMMA SplitAt ==
    ASSUME NEW S, NEW list \in Seq(S), NEW e \in Int
    PROVE  /\ Before(list, e) \cup Beyond(list, e) = Range(list)
           /\ IsInjective(list) => Before(list, e) \cap Beyond(list, e) = {}
           /\ e <= 0 => Before(list, e) = {}
           /\ e >= Len(list) => Beyond(list, e) = {} /\ Before(list, e) = Range(list)
<1>1. Range(list) = {list[j] : j \in 1..Len(list)}  BY RangeIs
<1>2. Len(list) \in Nat  OBVIOUS
<1>3. Before(list, e) \cup Beyond(list, e) = Range(list)  BY <1>1, <1>2 DEF Before, Beyond
<1>4. ASSUME IsInjective(list)  PROVE Before(list, e) \cap Beyond(list, e) = {}
  <2>1. \A i, j \in 1..Len(list) : list[i] = list[j] => i = j  BY <1>4, InjectiveIs
  <2>2. ASSUME NEW x \in Before(list, e), x \in Beyond(list, e)  PROVE FALSE
    <3>1. PICK i \in 1..Len(list) : i <= e /\ x = list[i]  BY DEF Before
    <3>2. PICK j \in 1..Len(list) : j > e /\ x = list[j]  BY <2>2 DEF Beyond
    <3>3. i = j  BY <2>1, <3>1, <3>2
    <3>4. i \in Int  BY <1>2
    <3> QED  BY <3>1, <3>2, <3>3, <3>4
  <2> QED  BY <2>2
<1>5. ASSUME e <= 0  PROVE Before(list, e) = {}  BY <1>5 DEF Before
<1>6. ASSUME e >= Len(list)  PROVE Beyond(list, e) = {}  BY <1>2, <1>6 DEF Beyond
<1> QED  BY <1>3, <1>4, <1>5, <1>6

LEMMA PageMoves ==
    ASSUME NEW S, NEW list \in Seq(S), NEW p \in Nat, NEW size \in Nat
    PROVE  /\ Before(list, (p + 1) * size) = Before(list, p * size) \cup PageOf(list, p, size)
           /\ Beyond(list, p * size) = Beyond(list, (p + 1) * size) \cup PageOf(list, p, size)
<1>1. p * size \in Int /\ (p + 1) * size \in Int /\ (p + 1) * size = p * size + size  BY Times
<1>2. PICK a \in Int, b \in Int : a = p * size /\ b = (p + 1) * size /\ a <= b  BY <1>1
<1>3. PageOf(list, p, size) = {list[k] : k \in {j \in 1..Len(list) : a < j /\ j <= b}}
  BY <1>2 DEF PageOf
<1>4. Before(list, b) = Before(list, a) \cup PageOf(list, p, size)
  <2>1. \A j \in 1..Len(list) : j <= b <=> (j <= a \/ (a < j /\ j <= b))  BY <1>2
  <2> QED  BY <1>3, <2>1 DEF Before
<1>5. Beyond(list, a) = Beyond(list, b) \cup PageOf(list, p, size)
  <2>1. \A j \in 1..Len(list) : j > a <=> (j > b \/ (a < j /\ j <= b))  BY <1>2
  <2> QED  BY <1>3, <2>1 DEF Beyond
<1> QED  BY <1>2, <1>4, <1>5

\* The page a loop is handed, at the edge it stands at.
LEMMA PageAtEdge ==
    ASSUME NEW S, NEW list \in Seq(S), IsInjective(list), NEW p \in Nat,
           NEW size \in Nat, size >= 1, NEW X
    PROVE  /\ PageOf(list, p, size) \subseteq Range(list)
           /\ X \cap Range(list) \subseteq Before(list, p * size) =>
                /\ X \cap PageOf(list, p, size) = {}
                /\ (X \cup PageOf(list, p, size)) \cap Range(list)
                      \subseteq Before(list, (p + 1) * size)
           /\ X \cap Range(list) \subseteq Beyond(list, (p + 1) * size) =>
                /\ X \cap PageOf(list, p, size) = {}
                /\ (X \cup PageOf(list, p, size)) \cap Range(list)
                      \subseteq Beyond(list, p * size)
           /\ X \subseteq Beyond(list, p * size) =>
                X \ PageOf(list, p, size) \subseteq Beyond(list, (p + 1) * size)
           /\ X \subseteq Before(list, (p + 1) * size) =>
                X \ PageOf(list, p, size) \subseteq Before(list, p * size)
<1>1. p * size \in Int /\ (p + 1) * size \in Int  BY Times
<1>2. PICK a \in Int, b \in Int : a = p * size /\ b = (p + 1) * size  BY <1>1
<1>3. /\ Before(list, b) = Before(list, a) \cup PageOf(list, p, size)
      /\ Beyond(list, a) = Beyond(list, b) \cup PageOf(list, p, size)
  BY <1>2, PageMoves
<1>4. /\ Before(list, a) \cup Beyond(list, a) = Range(list)
      /\ Before(list, a) \cap Beyond(list, a) = {}
  BY SplitAt
<1>5. /\ Before(list, b) \cup Beyond(list, b) = Range(list)
      /\ Before(list, b) \cap Beyond(list, b) = {}
  BY SplitAt
<1> DEFINE Pg == PageOf(list, p, size)
           Ba == Before(list, a)  Ya == Beyond(list, a)
           Bb == Before(list, b)  Yb == Beyond(list, b)  R == Range(list)
<1>6. /\ Bb = Ba \cup Pg /\ Ya = Yb \cup Pg /\ Ba \cup Ya = R /\ Ba \cap Ya = {}
      /\ Bb \cup Yb = R /\ Bb \cap Yb = {}
  BY <1>3, <1>4, <1>5
<1> HIDE DEF Pg, Ba, Ya, Bb, Yb, R
<1>7. Pg \subseteq R  BY <1>6
<1>8. X \cap R \subseteq Ba => X \cap Pg = {} /\ (X \cup Pg) \cap R \subseteq Bb  BY <1>6
<1>9. X \cap R \subseteq Yb => X \cap Pg = {} /\ (X \cup Pg) \cap R \subseteq Ya  BY <1>6
<1>10. X \subseteq Ya => X \ Pg \subseteq Yb  BY <1>6
<1>11. X \subseteq Bb => X \ Pg \subseteq Ba  BY <1>6
<1> USE DEF Pg, Ba, Ya, Bb, Yb, R
<1> QED  BY <1>2, <1>7, <1>8, <1>9, <1>10, <1>11

(***************************************************************************)
(* The steps of a loop over the window, when no other loop wrote it.        *)
(***************************************************************************)
WalkInv(l) == OffsetInv(l) /\ OnceInv(l) /\ WholeInv(l)

\* What every step leaves of the loop and its list.
Stable(l) ==
    /\ remote' = remote /\ kind' = kind /\ since' = since /\ grew' = grew /\ shrank' = shrank
    /\ (l \in strange' <=> l \in strange)

Looked(l) ==
    /\ at[l] = "start" /\ kind[l] = "pages" /\ kind' = kind /\ remote' = remote
    /\ got' = got /\ answer' = answer
    /\ \/ /\ window.offset = 0 /\ at'[l] = "yield" /\ Stable(l) /\ window' = window
       \/ /\ at'[l] = "ask" /\ window'.offset = 0 /\ since'[l] = Range(remote)

LEMMA BeginPagesIs ==
    ASSUME NEW D, Types(D), NEW l \in Loops, BeginPages(l)
    PROVE  Looked(l)
<1>1. /\ at[l] = "start" /\ kind[l] = "pages" /\ kind' = kind /\ remote' = remote
      /\ got' = got /\ answer' = answer
  BY DEF BeginPages, service
<1>2. CASE window.offset = 0
  <2>1. window' = window /\ strange' = strange /\ Goto(l, "yield") /\ Others
    BY <1>2 DEF BeginPages
  <2>2. at'[l] = "yield"  BY <2>1 DEF Goto, Types
  <2>3. since' = since /\ grew' = grew /\ shrank' = shrank  BY <2>1 DEF Others
  <2> QED  BY <1>1, <1>2, <2>1, <2>2, <2>3 DEF Looked, Stable
<1>3. CASE window.offset # 0
  <2>1. window' = [window EXCEPT !.offset = 0] /\ FreshStart(l) /\ Goto(l, "ask")
    BY <1>3 DEF BeginPages
  <2>2. at'[l] = "ask"  BY <2>1 DEF Goto, Types
  <2>3. since'[l] = Range(remote)  BY <2>1 DEF FreshStart, Types
  <2>4. window'.offset = 0  BY <2>1 DEF Types, Windows
  <2> QED  BY <1>1, <2>2, <2>3, <2>4 DEF Looked
<1> QED  BY <1>2, <1>3

Reverses(l) ==
    /\ at[l] = "start" /\ kind[l] = "reversed" /\ Stable(l) /\ got' = got
    /\ at'[l] = "ask" /\ window'.offset = window.pages - 1

LEMMA BeginReversedIs ==
    ASSUME NEW D, Types(D), NEW l \in Loops, BeginReversed(l)
    PROVE  Reverses(l)
<1>1. /\ at[l] = "start" /\ kind[l] = "reversed" /\ kind' = kind /\ remote' = remote
      /\ got' = got
  BY DEF BeginReversed, service
<1>2. Goto(l, "ask") /\ Wrote(l) /\ Others  BY DEF BeginReversed
<1>3. at'[l] = "ask"  BY <1>2 DEF Goto, Types
<1>4. l \in strange' <=> l \in strange  BY <1>2 DEF Wrote
<1>5. window'.offset = window.pages - 1  BY DEF BeginReversed, Types, Windows
<1> QED  BY <1>1, <1>2, <1>3, <1>4, <1>5 DEF Reverses, Stable, Others

Asks(l) ==
    /\ at[l] = "ask" /\ at'[l] = "asked" /\ Stable(l) /\ page'[l] = window.offset
    /\ window' = window /\ answer' = answer /\ got' = got

LEMMA AskIs ==
    ASSUME NEW D, Types(D), NEW l \in Loops, Ask(l)
    PROVE  Asks(l)
<1>1. /\ at[l] = "ask" /\ kind' = kind /\ remote' = remote /\ window' = window
      /\ answer' = answer /\ got' = got /\ strange' = strange
  BY DEF Ask, service
<1>2. Goto(l, "asked") /\ Others /\ page' = [page EXCEPT ![l] = window.offset]  BY DEF Ask
<1>3. at'[l] = "asked" /\ page'[l] = window.offset  BY <1>2 DEF Goto, Types
<1> QED  BY <1>1, <1>2, <1>3 DEF Asks, Stable, Others

Hears(l) ==
    /\ at[l] = "asked" /\ at'[l] = "land" /\ Stable(l) /\ page[l] >= 0
    /\ answer'[l] = Query(remote, page[l], PageSize) /\ window' = window /\ got' = got

LEMMA AnsweredIs ==
    ASSUME NEW D, Types(D), NEW l \in Loops, Answered(l)
    PROVE  Hears(l)
<1>1. /\ at[l] = "asked" /\ page[l] >= 0 /\ kind' = kind /\ remote' = remote
      /\ window' = window /\ got' = got /\ strange' = strange
  BY DEF Answered, service
<1>2. Goto(l, "land") /\ Others  BY DEF Answered
<1>3. answer'[l] = Query(remote, page[l], PageSize)  BY DEF Answered, Types
<1>4. at'[l] = "land"  BY <1>2 DEF Goto, Types
<1> QED  BY <1>1, <1>2, <1>3, <1>4 DEF Hears, Stable, Others

Lands(l) ==
    /\ at[l] = "land" /\ at'[l] = "show" /\ Stable(l) /\ window'.offset = window.offset
    /\ window'.more = answer[l].more /\ answer' = answer /\ got' = got

LEMMA LandIs ==
    ASSUME NEW D, Types(D), NEW l \in Loops, Land(l)
    PROVE  Lands(l)
<1>1. /\ at[l] = "land" /\ kind' = kind /\ remote' = remote /\ answer' = answer /\ got' = got
  BY DEF Land, service
<1>2. Goto(l, "show") /\ Others /\ Wrote(l)  BY DEF Land
<1>3. window'.offset = window.offset /\ window'.more = answer[l].more
  BY DEF Land, Processed, Types, Windows
<1>4. at'[l] = "show" /\ (l \in strange' <=> l \in strange)  BY <1>2 DEF Goto, Wrote, Types
<1> QED  BY <1>1, <1>2, <1>3, <1>4 DEF Lands, Stable, Others

Displays(l) ==
    /\ at[l] = "show" /\ at'[l] = "yield" /\ Stable(l) /\ window'.offset = window.offset
    /\ window'.more = window.more /\ window'.items = answer[l].items /\ got' = got

LEMMA ShowIs ==
    ASSUME NEW D, Types(D), NEW l \in Loops, Show(l)
    PROVE  Displays(l)
<1>1. /\ at[l] = "show" /\ kind' = kind /\ remote' = remote /\ got' = got
  BY DEF Show, service
<1>2. Goto(l, "yield") /\ Others /\ Wrote(l)  BY DEF Show
<1>3. /\ window'.offset = window.offset /\ window'.more = window.more
      /\ window'.items = answer[l].items
  BY DEF Show, Types, Windows
<1>4. at'[l] = "yield" /\ (l \in strange' <=> l \in strange)  BY <1>2 DEF Goto, Wrote, Types
<1> QED  BY <1>1, <1>2, <1>3, <1>4 DEF Displays, Stable, Others

Yields(l) ==
    /\ at[l] = "yield" /\ at'[l] = "turn" /\ Stable(l) /\ window' = window
    /\ l \notin strange => got'[l] = got[l] \o window.items

LEMMA YieldIs ==
    ASSUME NEW D, Types(D), NEW l \in Loops, Yield(l)
    PROVE  Yields(l)
<1>1. /\ at[l] = "yield" /\ kind' = kind /\ remote' = remote /\ window' = window
      /\ strange' = strange
  BY DEF Yield, service
<1>2. Goto(l, "turn") /\ Others  BY DEF Yield
<1>3. l \notin strange => got'[l] = got[l] \o window.items  BY DEF Yield, Undisturbed, Types
<1>4. at'[l] = "turn"  BY <1>2 DEF Goto, Types
<1> QED  BY <1>1, <1>2, <1>3, <1>4 DEF Yields, Stable, Others

Turns(l) ==
    /\ at[l] = "turn" /\ Stable(l) /\ got' = got
    /\ \/ /\ at'[l] = "ended"
          /\ IF kind[l] = "pages" THEN ~window.more ELSE window.offset = 0
       \/ /\ at'[l] = "ask"
          /\ window'.offset = IF kind[l] = "pages" THEN window.offset + 1 ELSE window.offset - 1

LEMMA TurnIs ==
    ASSUME NEW D, Types(D), NEW l \in Loops, Turn(l)
    PROVE  Turns(l)
<1>1. /\ at[l] = "turn" /\ kind' = kind /\ remote' = remote /\ got' = got
  BY DEF Turn, service
<1>2. Others  BY DEF Turn
<1>3. \/ /\ IF kind[l] = "pages" THEN ~window.more ELSE window.offset = 0
         /\ Goto(l, "ended") /\ strange' = strange
      \/ /\ window' = [window EXCEPT !.offset = @ + (IF kind[l] = "pages" THEN 1 ELSE -1)]
         /\ Goto(l, "ask") /\ Wrote(l)
  BY DEF Turn
<1>4. CASE /\ IF kind[l] = "pages" THEN ~window.more ELSE window.offset = 0
           /\ Goto(l, "ended") /\ strange' = strange
  <2>1. at'[l] = "ended"  BY <1>4 DEF Goto, Types
  <2> QED  BY <1>1, <1>2, <1>4, <2>1 DEF Turns, Stable, Others
<1>5. CASE /\ window' = [window EXCEPT !.offset = @ + (IF kind[l] = "pages" THEN 1 ELSE -1)]
           /\ Goto(l, "ask") /\ Wrote(l)
  <2>1. at'[l] = "ask" /\ (l \in strange' <=> l \in strange)  BY <1>5 DEF Goto, Wrote, Types
  <2>2. window'.offset = IF kind[l] = "pages" THEN window.offset + 1 ELSE window.offset - 1
    BY <1>5 DEF Types, Windows
  <2> QED  BY <1>1, <1>2, <2>1, <2>2 DEF Turns, Stable, Others
<1> QED  BY <1>3, <1>4, <1>5

LEMMA WalkVoid ==
    ASSUME NEW l, ~Walks(l)' \/ l \in strange'
    PROVE  WalkInv(l)'
BY DEF WalkInv, OffsetInv, OnceInv, WholeInv

LEMMA NoItems == Range(<<>>) = {} /\ IsInjective(<<>>)
BY DEF Range, IsInjective

LEMMA WalkBegins ==
    ASSUME NEW D, Types(D), NEW l \in Loops, KindInv(l, D), WalkInv(l), BeginPages(l)
    PROVE  WalkInv(l)'
<1>1. Looked(l)  BY BeginPagesIs
<1>2. got'[l] = <<>>  BY <1>1 DEF Looked, KindInv
<1>3. Walks(l) /\ kind[l] = "pages" /\ kind'[l] = "pages" /\ remote' = remote /\ at[l] = "start"
  BY <1>1 DEF Looked, Walks
<1>4. PageSize \in Int /\ 0 * PageSize = 0 /\ (0 + 1) * PageSize = PageSize  BY Sizes
<1>5. CASE at'[l] = "ask"
  <2>1. /\ Asking(l)' /\ ~Holding(l)' /\ at'[l] = "ask" /\ window'.offset = 0
        /\ since'[l] = Range(remote)
    BY <1>1, <1>5 DEF Looked, Asking, Holding
  <2>2. Hand(l)' = <<>>  BY <1>5 DEF Hand
  <2>3. Had(l)' = {}  BY <1>2, <2>2, NoItems DEF Had
  <2>4. Edge(l)' = 0  BY <1>3, <1>4, <2>1 DEF Edge
  <2>5. Before(remote, 0) = {} /\ Beyond(remote, 0) = Range(remote)
    <3>1. remote \in Seq(Things) /\ 0 \in Int  BY DEF Types
    <3>2. Before(remote, 0) = {}  BY <3>1, SplitAt
    <3>3. Before(remote, 0) \cup Beyond(remote, 0) = Range(remote)  BY <3>1, SplitAt
    <3> QED  BY <3>2, <3>3
  <2>6. Passed(l)' = {} /\ Ahead(l)' = Range(remote)
    BY <1>3, <2>4, <2>5 DEF Passed, Ahead
  <2>7. Missed(l)' = Range(remote)  BY <1>3, <2>1, <2>3 DEF Missed
  <2>8. OffsetInv(l)'  BY <2>1 DEF OffsetInv
  <2>9. OnceInv(l)'
    <3>1. IsInjective(got[l])' /\ IsInjective(Hand(l))'  BY <1>2, <2>2, NoItems
    <3>2. (Range(Hand(l)) \cap Range(got[l]))' = {}  BY <1>2, NoItems
    <3>3. at'[l] # "start" /\ (Had(l) \cap Range(remote))' \subseteq Passed(l)'  BY <2>1, <2>3
    <3> QED  BY <1>3, <3>1, <3>2, <3>3 DEF OnceInv
  <2>10. WholeInv(l)'
    BY <1>3, <2>1, <2>6, <2>7 DEF WholeInv
  <2> QED  BY <2>8, <2>9, <2>10 DEF WalkInv
<1>6. CASE window.offset = 0 /\ at'[l] = "yield" /\ Stable(l) /\ window' = window /\ l \notin strange
  <2>1. ~Asking(l)' /\ Holding(l)'  BY <1>6 DEF Asking, Holding
  <2>2. Hand(l)' = window.items  BY <1>6 DEF Hand
  <2>3. Had(l)' = Range(window.items)  BY <1>2, <2>2, NoItems DEF Had
  <2>4. Edge(l)' = PageSize  BY <1>3, <1>4, <1>6, <2>1 DEF Edge
  <2>5. Passed(l)' = Before(remote, PageSize) /\ Ahead(l)' = Beyond(remote, PageSize)
    BY <1>3, <2>4 DEF Passed, Ahead
  <2>6. Missed(l)' = (since[l] \cap Range(remote)) \ Range(window.items)
    BY <1>6, <2>3 DEF Missed, Stable
  <2>7. More(l)' = window.more  BY <1>6 DEF More
  <2>8. OffsetInv(l)'  BY <1>6, <2>1 DEF OffsetInv
  <2>9. OnceInv(l)'
    <3>1. CASE l \in grew'  BY <1>3, <3>1 DEF OnceInv
    <3>2. CASE l \notin grew'
      <4>1. l \notin grew  BY <3>2, <1>6 DEF Stable
      <4>2. /\ IsInjective(window.items)
            /\ Range(window.items) \cap Range(remote) \subseteq Before(remote, PageSize)
        BY <1>3, <1>6, <4>1 DEF WalkInv, OnceInv
      <4>3. Had(l)' \cap Range(remote') \subseteq Passed(l)'
        BY <1>3, <2>3, <2>5, <4>2
      <4> QED  BY <1>2, <1>3, <1>6, <2>2, <4>2, <4>3, NoItems DEF OnceInv
    <3> QED  BY <3>1, <3>2
  <2>10. WholeInv(l)'
    <3>1. CASE l \in shrank'  BY <1>3, <3>1 DEF WholeInv
    <3>2. CASE l \notin shrank'
      <4>1. l \notin shrank  BY <3>2, <1>6 DEF Stable
      <4>2. /\ (since[l] \cap Range(remote)) \ Range(window.items) \subseteq Beyond(remote, PageSize)
            /\ ~window.more => since[l] \cap Range(remote) \subseteq Range(window.items)
        BY <1>3, <1>6, <4>1 DEF WalkInv, WholeInv
      <4>3. Missed(l)' \subseteq Ahead(l)' /\ (~More(l)' => Missed(l)' = {})
        BY <2>5, <2>6, <2>7, <4>2
      <4> QED  BY <1>3, <1>6, <4>3 DEF WholeInv
    <3> QED  BY <3>1, <3>2
  <2> QED  BY <2>8, <2>9, <2>10 DEF WalkInv
<1>7. CASE Stable(l) /\ l \in strange
  <2>1. l \in strange'  BY <1>7 DEF Stable
  <2> QED  BY <2>1, WalkVoid
<1> QED  BY <1>1, <1>5, <1>6, <1>7 DEF Looked

LEMMA WalkReverses ==
    ASSUME NEW D, Types(D), NEW l \in Loops, KindInv(l, D), WalkInv(l), BeginReversed(l)
    PROVE  WalkInv(l)'
<1>1. Reverses(l)  BY BeginReversedIs
<1>2. /\ got'[l] = <<>> /\ Walks(l) /\ kind[l] = "reversed" /\ kind'[l] = "reversed"
      /\ at[l] = "start" /\ at'[l] = "ask" /\ remote' = remote
      /\ since' = since /\ grew' = grew /\ (l \in strange' <=> l \in strange)
      /\ window'.offset = window.pages - 1
  BY <1>1 DEF Reverses, KindInv, Walks, Stable
<1>3. CASE l \in strange'  BY <1>3, WalkVoid
<1>4. CASE l \notin strange'
  <2>1. Asking(l)' /\ ~Holding(l)'  BY <1>2 DEF Asking, Holding
  <2>2. Hand(l)' = <<>>  BY <1>2 DEF Hand
  <2>3. Had(l)' = {}  BY <1>2, <2>2, NoItems DEF Had
  <2>4. OffsetInv(l)'  BY <1>2, <2>1 DEF OffsetInv
  <2>5. OnceInv(l)'  BY <1>2, <2>2, <2>3, NoItems DEF OnceInv
  <2>6. WholeInv(l)'
    <3>1. CASE l \in grew'  BY <1>2, <3>1 DEF WholeInv
    <3>2. CASE l \notin grew'
      <4>1. Len(remote) <= window.pages * PageSize
        BY <1>2, <1>4, <3>2 DEF WalkInv, WholeInv
      <4>2. window.pages \in Int  BY DEF Types, Windows
      <4>3. (window.pages - 1) + 1 = window.pages  BY <4>2
      <4>4. Edge(l)' = window.pages * PageSize  BY <1>2, <2>1, <4>3 DEF Edge
      <4>5. window.pages * PageSize \in Int  BY <4>2, Times, Sizes
      <4>6. Before(remote, window.pages * PageSize) = Range(remote)
        BY SplitAt, <4>1, <4>5 DEF Types
      <4>7. Ahead(l)' = Range(remote)  BY <1>2, <4>4, <4>6 DEF Ahead
      <4>8. Missed(l)' \subseteq Ahead(l)'  BY <1>2, <4>7 DEF Missed
      <4> QED  BY <1>2, <4>8 DEF WholeInv
    <3> QED  BY <3>1, <3>2
  <2> QED  BY <2>4, <2>5, <2>6 DEF WalkInv
<1> QED  BY <1>3, <1>4

LEMMA WalkAsks ==
    ASSUME NEW D, Types(D), NEW l \in Loops, WalkInv(l), Ask(l)
    PROVE  WalkInv(l)'
<1>1. Asks(l)  BY AskIs
<1>2. /\ kind' = kind /\ remote' = remote /\ since' = since /\ grew' = grew /\ shrank' = shrank
      /\ (l \in strange' <=> l \in strange) /\ at[l] = "ask" /\ at'[l] = "asked"
      /\ page'[l] = window.offset /\ window' = window /\ got' = got
  BY <1>1 DEF Asks, Stable
<1>3. Walks(l)' = Walks(l)  BY <1>2 DEF Walks
<1>4. Asking(l) /\ Asking(l)' /\ ~Holding(l)'  BY <1>2 DEF Asking, Holding
<1>5. Hand(l) = <<>> /\ Hand(l)' = <<>>  BY <1>2 DEF Hand
<1>6. Had(l)' = Had(l)  BY <1>2, <1>5 DEF Had
<1>7. Edge(l)' = Edge(l)  BY <1>2, <1>4 DEF Edge
<1>8. Passed(l)' = Passed(l) /\ Ahead(l)' = Ahead(l)  BY <1>2, <1>7 DEF Passed, Ahead
<1>9. Missed(l)' = Missed(l)  BY <1>2, <1>6 DEF Missed
<1>10. CASE l \in strange'  BY <1>10, WalkVoid
<1>11. CASE l \notin strange'
  <2>1. OffsetInv(l)'  BY <1>2, <1>3, <1>4, <1>11 DEF WalkInv, OffsetInv
  <2>2. OnceInv(l)'
    BY <1>2, <1>3, <1>4, <1>5, <1>6, <1>8, <1>11 DEF WalkInv, OnceInv
  <2>3. WholeInv(l)'
    BY <1>2, <1>3, <1>4, <1>8, <1>9, <1>11 DEF WalkInv, WholeInv
  <2> QED  BY <2>1, <2>2, <2>3 DEF WalkInv
<1> QED  BY <1>10, <1>11

LEMMA WalkHears ==
    ASSUME NEW D, Types(D), IsInjective(remote), NEW l \in Loops, WalkInv(l), Answered(l)
    PROVE  WalkInv(l)'
<1>1. Hears(l)  BY AnsweredIs
<1>2. /\ kind' = kind /\ remote' = remote /\ since' = since /\ grew' = grew /\ shrank' = shrank
      /\ (l \in strange' <=> l \in strange) /\ at[l] = "asked" /\ at'[l] = "land"
      /\ page[l] >= 0 /\ answer'[l] = Query(remote, page[l], PageSize)
      /\ window' = window /\ got' = got
  BY <1>1 DEF Hears, Stable
<1>3. Walks(l)' = Walks(l)  BY <1>2 DEF Walks
<1>4. Asking(l) /\ ~Asking(l)' /\ Holding(l)'  BY <1>2 DEF Asking, Holding
<1>5. CASE l \in strange' \/ ~Walks(l)  BY <1>3, <1>5, WalkVoid
<1>6. CASE l \notin strange' /\ Walks(l)
  <2>1. page[l] = window.offset  BY <1>2, <1>6 DEF WalkInv, OffsetInv
  <2>2. page[l] \in Nat /\ remote \in Seq(Things)  BY <1>2 DEF Types
  <2>3. PICK o \in Nat : o = window.offset  BY <2>1, <2>2
  <2> DEFINE q == Query(remote, o, PageSize)
             P == PageOf(remote, o, PageSize)
             low == o * PageSize
             high == (o + 1) * PageSize
  <2>4. answer'[l] = q  BY <1>2, <2>1, <2>3
  <2>5. IsInjective(q.items) /\ Range(q.items) = P  BY <2>2, PageApart, Sizes
  <2>6. Shows(q, remote, o, PageSize)  BY <2>2, Queried, Sizes
  <2>7. q.more = (high < Len(remote))  BY <2>6 DEF Shows
  <2> HIDE DEF q
  <2>8. Hand(l) = <<>> /\ Hand(l)' = q.items /\ More(l)' = q.more  BY <1>2, <2>4 DEF Hand, More
  <2>9. Had(l) = Range(got[l]) /\ Had(l)' = Had(l) \cup P  BY <1>2, <2>5, <2>8, NoItems DEF Had
  <2>10. Missed(l)' = Missed(l) \ P  BY <1>2, <2>9 DEF Missed
  <2>11. OffsetInv(l)'  BY <1>2, <1>4, <2>3 DEF OffsetInv
  <2>12. low \in Int /\ high \in Int  BY Times, Sizes
  <2>13. P \subseteq Range(remote)  BY <2>2, PageAtEdge, Sizes
  <2>14. CASE kind[l] = "pages"
    <3>1. Edge(l) = low /\ Edge(l)' = high  BY <1>2, <1>4, <2>3, <2>14 DEF Edge
    <3>2. Passed(l) = Before(remote, low) /\ Ahead(l) = Beyond(remote, low)
      BY <2>14, <3>1 DEF Passed, Ahead
    <3>3. Passed(l)' = Before(remote, high) /\ Ahead(l)' = Beyond(remote, high)
      BY <1>2, <2>14, <3>1 DEF Passed, Ahead
    <3>4. OnceInv(l)'
      <4>1. CASE l \in grew'  BY <1>2, <2>14, <4>1 DEF OnceInv
      <4>2. CASE l \notin grew'
        <5>1. IsInjective(got[l]) /\ Had(l) \cap Range(remote) \subseteq Before(remote, low)
          BY <1>2, <1>4, <1>6, <2>14, <3>2, <4>2 DEF WalkInv, OnceInv
        <5>2. /\ Had(l) \cap P = {}
              /\ (Had(l) \cup P) \cap Range(remote) \subseteq Before(remote, high)
          BY <2>2, <5>1, PageAtEdge, Sizes
        <5>3. IsInjective(got[l])' /\ IsInjective(Hand(l))'  BY <1>2, <2>5, <2>8, <5>1
        <5>4. (Range(Hand(l)) \cap Range(got[l]))' = {}  BY <1>2, <2>5, <2>8, <2>9, <5>2
        <5>5. (Had(l) \cap Range(remote))' \subseteq Passed(l)'  BY <1>2, <2>9, <3>3, <5>2
        <5> QED  BY <1>2, <2>14, <5>3, <5>4, <5>5 DEF OnceInv
      <4> QED  BY <4>1, <4>2
    <3>5. WholeInv(l)'
      <4>1. CASE l \in shrank'  BY <1>2, <2>14, <4>1 DEF WholeInv
      <4>2. CASE l \notin shrank'
        <5>1. Missed(l) \subseteq Beyond(remote, low)
          BY <1>2, <1>4, <1>6, <2>14, <3>2, <4>2 DEF WalkInv, WholeInv
        <5>2. Missed(l)' \subseteq Beyond(remote, high)
          BY <2>2, <2>10, <5>1, PageAtEdge, Sizes
        <5>3. ASSUME ~q.more  PROVE Missed(l)' = {}
          <6>1. Len(remote) \in Nat  BY <2>2
          <6>2. high >= Len(remote)
            <7>1. PICK h \in Int : h = high  BY <2>12
            <7>2. ~(h < Len(remote))  BY <2>7, <5>3, <7>1
            <7>3. h >= Len(remote)  BY <6>1, <7>2
            <7> QED  BY <7>1, <7>3
          <6>3. Beyond(remote, high) = {}  BY <2>2, <2>12, <6>2, SplitAt
          <6> QED  BY <5>2, <6>3
        <5> QED  BY <1>2, <2>8, <2>14, <3>3, <5>2, <5>3 DEF WholeInv
      <4> QED  BY <4>1, <4>2
    <3> QED  BY <2>11, <3>4, <3>5 DEF WalkInv
  <2>15. CASE kind[l] = "reversed"
    <3>0. kind[l] # "pages" /\ kind'[l] # "pages"  BY <1>2, <2>15
    <3>1. Edge(l) = high /\ Edge(l)' = low
      <4>1. Edge(l) = high  BY <1>4, <2>3, <3>0 DEF Edge
      <4>2. Asking(l)' = (kind'[l] = "pages")  BY <1>2, <3>0 DEF Asking
      <4>3. Edge(l)' = low  BY <1>2, <2>3, <4>2 DEF Edge
      <4> QED  BY <4>1, <4>3
    <3>2. Passed(l) = Beyond(remote, high) /\ Ahead(l) = Before(remote, high)
      BY <2>15, <3>1 DEF Passed, Ahead
    <3>3. Passed(l)' = Beyond(remote, low) /\ Ahead(l)' = Before(remote, low)
      BY <1>2, <2>15, <3>1 DEF Passed, Ahead
    <3>4. OnceInv(l)'
      <4>1. CASE l \in shrank'  BY <1>2, <2>15, <4>1 DEF OnceInv
      <4>2. CASE l \notin shrank'
        <5>1. /\ IsInjective(got[l]) /\ Had(l) \cap Range(remote) \subseteq Beyond(remote, high)
              /\ Had(l) \subseteq Range(remote)
          BY <1>2, <1>4, <1>6, <2>15, <3>2, <4>2 DEF WalkInv, OnceInv
        <5>2. /\ Had(l) \cap P = {}
              /\ (Had(l) \cup P) \cap Range(remote) \subseteq Beyond(remote, low)
          BY <2>2, <5>1, PageAtEdge, Sizes
        <5>3. IsInjective(got[l])' /\ IsInjective(Hand(l))'  BY <1>2, <2>5, <2>8, <5>1
        <5>4. (Range(Hand(l)) \cap Range(got[l]))' = {}  BY <1>2, <2>5, <2>8, <2>9, <5>2
        <5>5. (Had(l) \cap Range(remote))' \subseteq Passed(l)'  BY <1>2, <2>9, <3>3, <5>2
        <5>6. Had(l)' \subseteq Range(remote')  BY <1>2, <2>9, <2>13, <5>1
        <5> QED  BY <1>2, <2>15, <5>3, <5>4, <5>5, <5>6 DEF OnceInv
      <4> QED  BY <4>1, <4>2
    <3>5. WholeInv(l)'
      <4>1. CASE l \in grew'  BY <1>2, <2>15, <4>1 DEF WholeInv
      <4>2. CASE l \notin grew'
        <5>1. Missed(l) \subseteq Before(remote, high)
          BY <1>2, <1>4, <1>6, <2>15, <3>2, <4>2 DEF WalkInv, WholeInv
        <5>2. Missed(l)' \subseteq Before(remote, low)
          BY <2>2, <2>10, <5>1, PageAtEdge, Sizes
        <5> QED  BY <1>2, <2>15, <3>3, <5>2 DEF WholeInv
      <4> QED  BY <4>1, <4>2
    <3> QED  BY <2>11, <3>4, <3>5 DEF WalkInv
  <2> QED  BY <1>6, <2>14, <2>15 DEF Walks
<1> QED  BY <1>5, <1>6

\* What a loop holds stays the same from the answer to the yield.
Holds(l) ==
    /\ kind' = kind /\ remote' = remote /\ since' = since /\ grew' = grew /\ shrank' = shrank
    /\ (l \in strange' <=> l \in strange) /\ window'.offset = window.offset
    /\ Holding(l) /\ Holding(l)' /\ ~Asking(l) /\ ~Asking(l)'
    /\ Had(l)' = Had(l) /\ More(l)' = More(l)

LEMMA WalkHolds ==
    ASSUME NEW l \in Loops, WalkInv(l), Holds(l),
           l \notin strange /\ IsInjective(got[l]) /\ IsInjective(Hand(l)) /\
             Range(Hand(l)) \cap Range(got[l]) = {} =>
               /\ IsInjective(got[l])' /\ IsInjective(Hand(l))'
               /\ (Range(Hand(l)) \cap Range(got[l]))' = {}
    PROVE  WalkInv(l)'
<1>1. /\ kind' = kind /\ remote' = remote /\ since' = since /\ grew' = grew /\ shrank' = shrank
      /\ (l \in strange' <=> l \in strange) /\ window'.offset = window.offset
      /\ Holding(l) /\ Holding(l)' /\ ~Asking(l) /\ ~Asking(l)'
      /\ Had(l)' = Had(l) /\ More(l)' = More(l)
  BY DEF Holds
<1>2. Walks(l)' = Walks(l)  BY <1>1 DEF Walks
<1>3. /\ at[l] \notin {"start", "ended", "asked"} /\ at'[l] \notin {"start", "ended", "asked"}
  BY <1>1 DEF Holding
<1>4. Asking(l)' = Asking(l)  BY <1>3, <1>1 DEF Asking
<1>5. Edge(l)' = Edge(l)  BY <1>1, <1>4 DEF Edge
<1>6. Passed(l)' = Passed(l) /\ Ahead(l)' = Ahead(l)  BY <1>1, <1>5 DEF Passed, Ahead
<1>7. Missed(l)' = Missed(l)  BY <1>1 DEF Missed
<1>8. CASE l \in strange' \/ ~Walks(l)  BY <1>2, <1>8, WalkVoid
<1>9. CASE l \notin strange' /\ Walks(l)
  <2>1. OffsetInv(l)'  BY <1>1, <1>2, <1>3, <1>9 DEF WalkInv, OffsetInv
  <2>2. OnceInv(l)'
    BY <1>1, <1>2, <1>3, <1>6, <1>9 DEF WalkInv, OnceInv
  <2>3. WholeInv(l)'
    BY <1>1, <1>2, <1>3, <1>6, <1>7, <1>9 DEF WalkInv, WholeInv
  <2> QED  BY <2>1, <2>2, <2>3 DEF WalkInv
<1> QED  BY <1>8, <1>9

LEMMA WalkLands ==
    ASSUME NEW D, Types(D), NEW l \in Loops, WalkInv(l), Land(l)
    PROVE  WalkInv(l)'
<1>1. Lands(l)  BY LandIs
<1>2. /\ kind' = kind /\ remote' = remote /\ since' = since /\ grew' = grew /\ shrank' = shrank
      /\ (l \in strange' <=> l \in strange) /\ at[l] = "land" /\ at'[l] = "show"
      /\ window'.offset = window.offset /\ window'.more = answer[l].more
      /\ answer' = answer /\ got' = got
  BY <1>1 DEF Lands, Stable
<1>3. Hand(l)' = Hand(l) /\ More(l)' = More(l)  BY <1>2 DEF Hand, More
<1>4. Had(l)' = Had(l)  BY <1>2, <1>3 DEF Had
<1>5. Holding(l) /\ Holding(l)' /\ ~Asking(l) /\ ~Asking(l)'  BY <1>2 DEF Holding, Asking
<1>6. Holds(l)  BY <1>2, <1>3, <1>4, <1>5 DEF Holds
<1> QED  BY <1>2, <1>3, <1>6, WalkHolds

LEMMA WalkShows ==
    ASSUME NEW D, Types(D), NEW l \in Loops, WalkInv(l), Show(l)
    PROVE  WalkInv(l)'
<1>1. Displays(l)  BY ShowIs
<1>2. /\ kind' = kind /\ remote' = remote /\ since' = since /\ grew' = grew /\ shrank' = shrank
      /\ (l \in strange' <=> l \in strange) /\ at[l] = "show" /\ at'[l] = "yield"
      /\ window'.offset = window.offset /\ window'.more = window.more
      /\ window'.items = answer[l].items /\ got' = got
  BY <1>1 DEF Displays, Stable
<1>3. Hand(l)' = Hand(l) /\ More(l)' = More(l)  BY <1>2 DEF Hand, More
<1>4. Had(l)' = Had(l)  BY <1>2, <1>3 DEF Had
<1>5. Holding(l) /\ Holding(l)' /\ ~Asking(l) /\ ~Asking(l)'  BY <1>2 DEF Holding, Asking
<1>6. Holds(l)  BY <1>2, <1>3, <1>4, <1>5 DEF Holds
<1> QED  BY <1>2, <1>3, <1>6, WalkHolds

LEMMA WalkYields ==
    ASSUME NEW D, Types(D), NEW l \in Loops, WalkInv(l), Yield(l)
    PROVE  WalkInv(l)'
<1>1. Yields(l)  BY YieldIs
<1>2. /\ kind' = kind /\ remote' = remote /\ since' = since /\ grew' = grew /\ shrank' = shrank
      /\ (l \in strange' <=> l \in strange) /\ at[l] = "yield" /\ at'[l] = "turn"
      /\ window' = window
  BY <1>1 DEF Yields, Stable
<1>3. CASE l \in strange'  BY <1>3, WalkVoid
<1>4. CASE l \notin strange'
  <2>1. got'[l] = got[l] \o window.items  BY <1>1, <1>2, <1>4 DEF Yields
  <2>2. got[l] \in Seq(Things) /\ window.items \in Seq(Things)  BY DEF Types, Windows
  <2>3. Hand(l) = window.items /\ Hand(l)' = <<>>  BY <1>2 DEF Hand
  <2>4. More(l)' = More(l)  BY <1>2 DEF More
  <2>5. Range(got'[l]) = Range(got[l]) \cup Range(window.items)  BY <2>1, <2>2, ConcatRange
  <2>6. Had(l)' = Had(l)  BY <2>3, <2>5, NoItems DEF Had
  <2>7. Holding(l) /\ Holding(l)' /\ ~Asking(l) /\ ~Asking(l)'  BY <1>2 DEF Holding, Asking
  <2>8. Holds(l)  BY <1>2, <2>4, <2>6, <2>7 DEF Holds
  <2>9. ASSUME IsInjective(got[l]), IsInjective(Hand(l)), Range(Hand(l)) \cap Range(got[l]) = {}
        PROVE  /\ IsInjective(got[l])' /\ IsInjective(Hand(l))'
               /\ (Range(Hand(l)) \cap Range(got[l]))' = {}
    <3>1. Range(got[l]) \cap Range(window.items) = {}  BY <2>3, <2>9
    <3>2. IsInjective(got[l] \o window.items)  BY <2>2, <2>3, <2>9, <3>1, ConcatApart
    <3> QED  BY <2>1, <2>3, <3>2, NoItems
  <2> QED  BY <2>8, <2>9, WalkHolds
<1> QED  BY <1>3, <1>4

LEMMA WalkTurns ==
    ASSUME NEW D, Types(D), NEW l \in Loops, WalkInv(l), Turn(l)
    PROVE  WalkInv(l)'
<1>1. Turns(l)  BY TurnIs
<1>2. /\ kind' = kind /\ remote' = remote /\ since' = since /\ grew' = grew /\ shrank' = shrank
      /\ (l \in strange' <=> l \in strange) /\ at[l] = "turn" /\ got' = got
  BY <1>1 DEF Turns, Stable
<1>3. Walks(l)' = Walks(l)  BY <1>2 DEF Walks
<1>4. Holding(l) /\ ~Asking(l)  BY <1>2 DEF Holding, Asking
<1>5. Hand(l) = <<>> /\ More(l) = window.more  BY <1>2 DEF Hand, More
<1>6. Had(l) = Range(got[l])  BY <1>5, NoItems DEF Had
<1>7. CASE l \in strange' \/ ~Walks(l)  BY <1>3, <1>7, WalkVoid
<1>8. CASE /\ at'[l] = "ended" /\ l \notin strange' /\ Walks(l)
           /\ IF kind[l] = "pages" THEN ~window.more ELSE window.offset = 0
  <2>1. ~Asking(l)' /\ ~Holding(l)'  BY <1>8 DEF Asking, Holding
  <2>2. OffsetInv(l)'  BY <1>8, <2>1 DEF OffsetInv
  <2>3. OnceInv(l)'  BY <1>2, <1>3, <1>8, <2>1 DEF WalkInv, OnceInv
  <2>4. WholeInv(l)'
    <3>1. CASE l \in (IF kind[l] = "pages" THEN shrank ELSE grew)
      BY <1>2, <3>1 DEF WholeInv
    <3>2. CASE l \notin (IF kind[l] = "pages" THEN shrank ELSE grew)
      <4>1. Missed(l) \subseteq Ahead(l) /\ (kind[l] = "pages" /\ ~More(l) => Missed(l) = {})
        BY <1>2, <1>4, <1>8, <3>2 DEF WalkInv, WholeInv
      <4>2. Missed(l) = {}
        <5>1. CASE kind[l] = "pages"  BY <1>5, <1>8, <4>1, <5>1
        <5>2. CASE kind[l] # "pages"
          <6>1. window.offset = 0  BY <1>8, <5>2
          <6>2. (Asking(l) = (kind[l] = "pages"))  BY <1>2, <5>2 DEF Asking
          <6>3. 0 * PageSize = 0  BY Sizes
          <6>4. Edge(l) = 0  BY <6>1, <6>2, <6>3 DEF Edge
          <6>5. remote \in Seq(Things) /\ 0 \in Int  BY DEF Types
          <6>6. Before(remote, 0) = {}  BY <6>5, SplitAt
          <6> QED  BY <4>1, <5>2, <6>4, <6>6 DEF Ahead
        <5> QED  BY <5>1, <5>2
      <4>3. since[l] \cap Range(remote) \subseteq Range(got[l])  BY <1>6, <4>2 DEF Missed
      <4> QED  BY <1>2, <1>8, <2>1, <4>3 DEF WholeInv
    <3> QED  BY <3>1, <3>2
  <2> QED  BY <2>2, <2>3, <2>4 DEF WalkInv
<1>9. CASE /\ at'[l] = "ask" /\ l \notin strange' /\ Walks(l)
           /\ window'.offset = IF kind[l] = "pages" THEN window.offset + 1 ELSE window.offset - 1
  <2>1. Asking(l)' /\ ~Holding(l)'  BY <1>9 DEF Asking, Holding
  <2>2. Hand(l)' = <<>>  BY <1>9 DEF Hand
  <2>3. Had(l)' = Had(l)  BY <1>2, <1>6, <2>2, NoItems DEF Had
  <2>4. window.offset \in Int  BY DEF Types, Windows
  <2>5. (window.offset - 1) + 1 = window.offset  BY <2>4
  <2>6. Edge(l)' = Edge(l)
    <3>1. CASE kind[l] = "pages"
      <4>1. ~(Asking(l) = (kind[l] = "pages"))  BY <1>2, <3>1 DEF Asking
      <4>2. (Asking(l) = (kind[l] = "pages"))'  BY <1>2, <1>9, <3>1 DEF Asking
      <4>3. window'.offset = window.offset + 1  BY <1>9, <3>1
      <4> QED  BY <4>1, <4>2, <4>3 DEF Edge
    <3>2. CASE kind[l] # "pages"
      <4>1. (Asking(l) = (kind[l] = "pages"))  BY <1>2, <3>2 DEF Asking
      <4>2. ~(Asking(l) = (kind[l] = "pages"))'  BY <1>2, <1>9, <3>2 DEF Asking
      <4>3. window'.offset + 1 = window.offset  BY <1>9, <2>5, <3>2
      <4> QED  BY <4>1, <4>2, <4>3 DEF Edge
    <3> QED  BY <3>1, <3>2
  <2>7. Passed(l)' = Passed(l) /\ Ahead(l)' = Ahead(l)  BY <1>2, <2>6 DEF Passed, Ahead
  <2>8. Missed(l)' = Missed(l)  BY <1>2, <2>3 DEF Missed
  <2>9. OffsetInv(l)'
    <3>1. window.offset >= 0  BY <1>2, <1>4, <1>9 DEF WalkInv, OffsetInv
    <3>2. kind'[l] = "pages" => window'.offset >= 0  BY <1>2, <1>9, <2>4, <3>1
    <3> QED  BY <1>9, <2>1, <3>2 DEF OffsetInv
  <2>10. OnceInv(l)'
    <3>1. IsInjective(Hand(l))' /\ (Range(Hand(l)) \cap Range(got[l]))' = {}  BY <2>2, NoItems
    <3> QED  BY <1>2, <1>3, <1>4, <1>9, <2>3, <2>7, <3>1 DEF WalkInv, OnceInv
  <2>11. WholeInv(l)'
    BY <1>2, <1>3, <1>4, <1>9, <2>1, <2>7, <2>8 DEF WalkInv, WholeInv
  <2> QED  BY <2>9, <2>10, <2>11 DEF WalkInv
<1> QED  BY <1>1, <1>7, <1>8, <1>9 DEF Turns

LEMMA WalkQuits ==
    ASSUME NEW D, Types(D), NEW l \in Loops, KindInv(l, D), WalkInv(l), Refused(l) \/ Leave(l)
    PROVE  WalkInv(l)'
<1>1. /\ kind' = kind /\ got' = got /\ grew' = grew /\ shrank' = shrank
      /\ (l \in strange' <=> l \in strange)
      /\ at[l] \in {"asked", "turn", "look"} /\ at'[l] \in {"raised", "left"}
  <2>1. CASE Refused(l)
    <3>1. Goto(l, "raised") /\ Others  BY <2>1 DEF Refused
    <3>2. at'[l] = "raised"  BY <3>1 DEF Goto, Types
    <3>3. kind' = kind /\ got' = got /\ strange' = strange /\ at[l] = "asked"  BY <2>1 DEF Refused
    <3> QED  BY <3>1, <3>2, <3>3 DEF Others
  <2>2. CASE Leave(l)
    <3>1. LeaveIs(l)  BY <2>2, Left
    <3> QED  BY <3>1 DEF LeaveIs
  <2> QED  BY <2>1, <2>2
<1>2. Walks(l)' = Walks(l)  BY <1>1 DEF Walks
<1>3. CASE l \in strange' \/ ~Walks(l)  BY <1>2, <1>3, WalkVoid
<1>4. CASE l \notin strange' /\ Walks(l)
  <2>1. ~Asking(l)' /\ ~Holding(l)' /\ at'[l] # "start" /\ at'[l] # "ended" /\ at'[l] # "asked"
    BY <1>1 DEF Asking, Holding
  <2>2. OffsetInv(l)'  BY <2>1 DEF OffsetInv
  <2>3. OnceInv(l)'  BY <1>1, <1>2, <1>4, <2>1 DEF WalkInv, OnceInv
  <2>4. WholeInv(l)'  BY <2>1 DEF WholeInv
  <2> QED  BY <2>2, <2>3, <2>4 DEF WalkInv
<1> QED  BY <1>3, <1>4

LEMMA WalkStay ==
    ASSUME NEW D, Types(D), IsInjective(remote), NEW l \in Loops, KindInv(l, D), WalkInv(l),
           \/ WalkStep(l) \/ Leave(l) \/ AllStep(l) \/ \E p \in D : JobStep(l, p)
    PROVE  WalkInv(l)'
<1>1. CASE WalkStep(l)
  BY <1>1, WalkBegins, WalkReverses, WalkAsks, WalkHears, WalkQuits, WalkLands, WalkShows,
     WalkYields, WalkTurns DEF WalkStep
<1>2. CASE Leave(l)  BY <1>2, WalkQuits
<1>3. CASE AllStep(l)
  <2>1. at[l] \in {"start", "submit", "look"} /\ (at[l] = "start" => OfAll(l)) /\ kind' = kind
    BY <1>3, AllPlace
  <2>2. ~Walks(l)  BY <2>1, KindIs DEF KindInv
  <2> QED  BY <2>1, <2>2, WalkVoid DEF Walks
<1>4. ASSUME NEW p \in D, JobStep(l, p)  PROVE WalkInv(l)'
  <2>1. Works(l, p, D) /\ kind' = kind  BY <1>4, JobIs, JobApart DEF Still
  <2>2. OfAll(l)  BY <2>1 DEF Works, KindInv
  <2>3. ~Walks(l)  BY <2>2, KindIs
  <2> QED  BY <2>1, <2>3, WalkVoid DEF Walks
<1> QED  BY <1>1, <1>2, <1>3, <1>4

LEMMA WalkSame ==
    ASSUME NEW k \in Loops, Same(k), remote' = remote, WalkInv(k)
    PROVE  WalkInv(k)'
<1>1. CASE k \in strange'  BY <1>1, WalkVoid
<1>2. CASE k \notin strange'
  <2>1. /\ kind'[k] = kind[k] /\ at'[k] = at[k] /\ page'[k] = page[k] /\ answer'[k] = answer[k]
        /\ got'[k] = got[k] /\ since'[k] = since[k] /\ remote' = remote /\ window' = window
        /\ (k \in grew' <=> k \in grew) /\ (k \in shrank' <=> k \in shrank) /\ k \notin strange
    BY <1>2 DEF Same
  <2>2. Walks(k)' = Walks(k) /\ Asking(k)' = Asking(k) /\ Holding(k)' = Holding(k)
    BY <2>1 DEF Walks, Asking, Holding
  <2>3. Edge(k)' = Edge(k)  BY <2>1, <2>2 DEF Edge
  <2>4. Passed(k)' = Passed(k) /\ Ahead(k)' = Ahead(k)  BY <2>1, <2>3 DEF Passed, Ahead
  <2>5. Hand(k)' = Hand(k) /\ More(k)' = More(k)  BY <2>1 DEF Hand, More
  <2>6. Had(k)' = Had(k)  BY <2>1, <2>5 DEF Had
  <2>7. Missed(k)' = Missed(k)  BY <2>1, <2>6 DEF Missed
  <2>8. OffsetInv(k)'  BY <1>2, <2>1, <2>2 DEF WalkInv, OffsetInv
  <2>9. OnceInv(k)'
    BY <1>2, <2>1, <2>2, <2>4, <2>5, <2>6 DEF WalkInv, OnceInv
  <2>10. WholeInv(k)'
    BY <1>2, <2>1, <2>2, <2>4, <2>5, <2>7 DEF WalkInv, WholeInv
  <2> QED  BY <2>8, <2>9, <2>10 DEF WalkInv
<1> QED  BY <1>1, <1>2

\* An item that comes moves nothing to the front, one that goes nothing to the back.
LEMMA ComesBeyond ==
    ASSUME NEW D, Types(D), NEW x, Comes(x), NEW e \in Int
    PROVE  Beyond(remote, e) \subseteq Beyond(remote', e)
<1>1. Len(remote) \in Nat  BY DEF Types
<1>2. ASSUME NEW y \in Beyond(remote, e)  PROVE y \in Beyond(remote', e)
  <2>1. PICK i \in 1..Len(remote) : i > e /\ y = remote[i]  BY <1>2 DEF Beyond
  <2>2. Len(remote') = Len(remote) + 1 /\ (remote'[i] = remote[i] \/ remote'[i + 1] = remote[i])
    BY <2>1 DEF Comes
  <2>3. PICK j \in {i, i + 1} : remote'[j] = y  BY <2>1, <2>2
  <2>4. j \in 1..Len(remote') /\ j > e  BY <1>1, <2>1, <2>2, <2>3
  <2> QED  BY <2>3, <2>4 DEF Beyond
<1> QED  BY <1>2

LEMMA GoesBefore ==
    ASSUME NEW D, Types(D), NEW i, Goes(i), NEW e \in Int
    PROVE  Before(remote, e) \cap Range(remote') \subseteq Before(remote', e)
<1>1. Len(remote) \in Nat  BY DEF Types
<1>2. /\ i \in 1..Len(remote) /\ Len(remote') = Len(remote) - 1
      /\ Range(remote') = Range(remote) \ {remote[i]}
      /\ \A j \in 1..(Len(remote) - 1) : remote'[j] = remote[IF j < i THEN j ELSE j + 1]
  BY DEF Goes
<1>3. ASSUME NEW y \in Before(remote, e), y \in Range(remote')  PROVE y \in Before(remote', e)
  <2>1. PICK k \in 1..Len(remote) : k <= e /\ y = remote[k]  BY <1>3 DEF Before
  <2>2. k # i  BY <1>2, <1>3, <2>1
  <2>3. CASE k < i
    <3>1. k \in 1..(Len(remote) - 1)  BY <1>1, <1>2, <2>1, <2>3
    <3>2. remote'[k] = y  BY <1>2, <2>1, <2>3, <3>1
    <3>3. k \in 1..Len(remote')  BY <1>2, <3>1
    <3> QED  BY <2>1, <3>2, <3>3 DEF Before
  <2>4. CASE k > i
    <3>1. /\ k - 1 \in 1..(Len(remote) - 1) /\ ~(k - 1 < i) /\ (k - 1) + 1 = k /\ k - 1 <= e
      BY <1>1, <1>2, <2>1, <2>4
    <3>2. remote'[k - 1] = y  BY <1>2, <2>1, <3>1
    <3>3. k - 1 \in 1..Len(remote')  BY <1>2, <3>1
    <3> QED  BY <3>1, <3>2, <3>3 DEF Before
  <2>5. k \in Int /\ i \in Int  BY <1>1, <1>2, <2>1
  <2> QED  BY <2>2, <2>3, <2>4, <2>5
<1> QED  BY <1>3

LEMMA EdgeInt ==
    ASSUME NEW D, Types(D), NEW l
    PROVE  Edge(l) \in Int
<1>1. window.offset \in Int /\ window.offset + 1 \in Int  BY DEF Types, Windows
<1>2. window.offset * PageSize \in Int /\ (window.offset + 1) * PageSize \in Int
  BY <1>1, Times, Sizes
<1> QED  BY <1>2 DEF Edge

LEMMA WalkComes ==
    ASSUME NEW D, Types(D), IsInjective(remote), NEW l \in Loops, WalkInv(l),
           NEW x \in New, Publish(x)
    PROVE  WalkInv(l)'
<1>1. Comes(x)  BY PublishIs
<1>2. /\ kind' = kind /\ window' = window /\ at' = at /\ page' = page /\ answer' = answer
      /\ got' = got /\ since' = since /\ strange' = strange
  BY OthersApart
<1>3. /\ x \notin since[l] /\ Range(remote') = Range(remote) \cup {x} /\ grew' = Loops
      /\ shrank' = shrank
  BY <1>1 DEF Comes
<1>4. /\ Walks(l)' = Walks(l) /\ Asking(l)' = Asking(l) /\ Holding(l)' = Holding(l)
      /\ Hand(l)' = Hand(l) /\ More(l)' = More(l) /\ Had(l)' = Had(l) /\ Edge(l)' = Edge(l)
  BY <1>2 DEF Walks, Asking, Holding, Hand, More, Had, Edge
<1>5. since'[l] \cap Range(remote') = since[l] \cap Range(remote)  BY <1>2, <1>3
<1>6. Missed(l)' = Missed(l)  BY <1>4, <1>5 DEF Missed
<1>7. PICK e : e = Edge(l)  OBVIOUS
<1>8. e \in Int  BY <1>7, EdgeInt
<1>9. Beyond(remote, e) \subseteq Beyond(remote', e)  BY <1>1, <1>8, ComesBeyond
<1>10. OffsetInv(l)'  BY <1>2, <1>4 DEF WalkInv, OffsetInv
<1>11. CASE kind[l] = "pages"
  <2>1. Ahead(l) = Beyond(remote, e) /\ Ahead(l)' = Beyond(remote', e)
    BY <1>2, <1>4, <1>7, <1>11 DEF Ahead
  <2>2. OnceInv(l)'  BY <1>2, <1>3, <1>11 DEF OnceInv
  <2>3. PageSize \in Int  BY Sizes
  <2>4. Beyond(remote, PageSize) \subseteq Beyond(remote', PageSize)
    BY <1>1, <2>3, ComesBeyond
  <2>5. WholeInv(l)'
    <3>1. CASE ~Walks(l) \/ l \in strange \/ l \in shrank
      BY <1>2, <1>3, <1>4, <1>11, <3>1 DEF WholeInv
    <3>2. CASE Walks(l) /\ l \notin strange /\ l \notin shrank
      <4>1. /\ Asking(l) \/ Holding(l) => Missed(l) \subseteq Ahead(l)
            /\ Holding(l) /\ ~More(l) => Missed(l) = {}
            /\ at[l] = "ended" => since[l] \cap Range(remote) \subseteq Range(got[l])
            /\ at[l] = "start" /\ window.offset = 0 =>
                 /\ (since[l] \cap Range(remote)) \ Range(window.items)
                       \subseteq Beyond(remote, PageSize)
                 /\ ~window.more => since[l] \cap Range(remote) \subseteq Range(window.items)
        BY <1>11, <3>2 DEF WalkInv, WholeInv
      <4>2. (Asking(l) \/ Holding(l))' => Missed(l)' \subseteq Ahead(l)'
        BY <1>4, <1>6, <1>9, <2>1, <4>1
      <4>3. (Holding(l) /\ ~More(l))' => Missed(l)' = {}  BY <1>4, <1>6, <4>1
      <4>4. (at[l] = "ended")' => since'[l] \cap Range(remote') \subseteq Range(got'[l])
        BY <1>2, <1>5, <4>1
      <4>5. (at[l] = "start" /\ window.offset = 0)' =>
              /\ (since'[l] \cap Range(remote')) \ Range(window'.items)
                    \subseteq Beyond(remote', PageSize)
              /\ ~window'.more => since'[l] \cap Range(remote') \subseteq Range(window'.items)
        BY <1>2, <1>5, <2>4, <4>1
      <4>6. kind'[l] # "reversed"  BY <1>2, <1>11
      <4> QED  BY <4>2, <4>3, <4>4, <4>5, <4>6 DEF WholeInv
    <3> QED  BY <3>1, <3>2
  <2> QED  BY <1>10, <2>2, <2>5 DEF WalkInv
<1>12. CASE kind[l] = "reversed"
  <2>1. Passed(l) = Beyond(remote, e) /\ Passed(l)' = Beyond(remote', e)
    BY <1>2, <1>4, <1>7, <1>12 DEF Passed
  <2>2. WholeInv(l)'  BY <1>2, <1>3, <1>12 DEF WholeInv
  <2>3. OnceInv(l)'
    <3>1. CASE l \in strange \/ l \in shrank
      BY <1>2, <1>3, <1>12, <3>1 DEF OnceInv
    <3>2. CASE l \notin strange /\ l \notin shrank
      <4>1. /\ IsInjective(got[l])
            /\ Asking(l) \/ Holding(l) =>
                 /\ IsInjective(Hand(l)) /\ Range(Hand(l)) \cap Range(got[l]) = {}
                 /\ Had(l) \cap Range(remote) \subseteq Passed(l)
                 /\ Had(l) \subseteq Range(remote)
        BY <1>12, <3>2 DEF WalkInv, OnceInv, Walks
      <4>2. (Asking(l) \/ Holding(l))' =>
              /\ (Had(l) \cap Range(remote))' \subseteq Passed(l)'
              /\ Had(l)' \subseteq Range(remote')
        BY <1>3, <1>4, <1>9, <2>1, <4>1
      <4>3. (Asking(l) \/ Holding(l))' =>
              IsInjective(Hand(l))' /\ (Range(Hand(l)) \cap Range(got[l]))' = {}
        BY <1>2, <1>4, <4>1
      <4>4. IsInjective(got[l])' /\ kind'[l] # "pages"  BY <1>2, <1>12, <4>1
      <4> QED  BY <4>2, <4>3, <4>4 DEF OnceInv
    <3> QED  BY <3>1, <3>2
  <2> QED  BY <1>10, <2>2, <2>3 DEF WalkInv
<1>13. CASE ~Walks(l)  BY <1>4, <1>13, WalkVoid
<1> QED  BY <1>11, <1>12, <1>13 DEF Walks

LEMMA WalkGoes ==
    ASSUME NEW D, Types(D), IsInjective(remote), NEW l \in Loops, WalkInv(l),
           NEW i \in DOMAIN remote, Withdraw(i)
    PROVE  WalkInv(l)'
<1>1. Goes(i)  BY WithdrawIs
<1>2. /\ kind' = kind /\ window' = window /\ at' = at /\ page' = page /\ answer' = answer
      /\ got' = got /\ since' = since /\ strange' = strange
  BY OthersApart
<1>3. /\ Range(remote') \subseteq Range(remote) /\ shrank' = Loops /\ grew' = grew
      /\ Len(remote') = Len(remote) - 1
  BY <1>1 DEF Goes
<1>4. /\ Walks(l)' = Walks(l) /\ Asking(l)' = Asking(l) /\ Holding(l)' = Holding(l)
      /\ Hand(l)' = Hand(l) /\ Had(l)' = Had(l) /\ Edge(l)' = Edge(l)
  BY <1>2 DEF Walks, Asking, Holding, Hand, Had, Edge
<1>5. Missed(l)' \subseteq Missed(l) \cap Range(remote')  BY <1>2, <1>3, <1>4 DEF Missed
<1>7. PICK e : e = Edge(l)  OBVIOUS
<1>8. e \in Int  BY <1>7, EdgeInt
<1>9. Before(remote, e) \cap Range(remote') \subseteq Before(remote', e)
  BY <1>1, <1>8, GoesBefore
<1>10. OffsetInv(l)'  BY <1>2, <1>4 DEF WalkInv, OffsetInv
<1>11. CASE kind[l] = "pages"
  <2>1. Passed(l) = Before(remote, e) /\ Passed(l)' = Before(remote', e)
    BY <1>2, <1>4, <1>7, <1>11 DEF Passed
  <2>2. WholeInv(l)'  BY <1>2, <1>3, <1>11 DEF WholeInv
  <2>3. PageSize \in Int  BY Sizes
  <2>4. Before(remote, PageSize) \cap Range(remote') \subseteq Before(remote', PageSize)
    BY <1>1, <2>3, GoesBefore
  <2>5. OnceInv(l)'
    <3>1. CASE l \in strange \/ l \in grew
      BY <1>2, <1>3, <1>11, <3>1 DEF OnceInv
    <3>2. CASE l \notin strange /\ l \notin grew
      <4>1. /\ IsInjective(got[l])
            /\ Asking(l) \/ Holding(l) =>
                 /\ IsInjective(Hand(l)) /\ Range(Hand(l)) \cap Range(got[l]) = {}
                 /\ Had(l) \cap Range(remote) \subseteq Passed(l)
            /\ at[l] = "start" /\ window.offset = 0 =>
                 /\ IsInjective(window.items)
                 /\ Range(window.items) \cap Range(remote) \subseteq Before(remote, PageSize)
        BY <1>11, <3>2 DEF WalkInv, OnceInv, Walks
      <4>2. (Asking(l) \/ Holding(l))' => (Had(l) \cap Range(remote))' \subseteq Passed(l)'
        BY <1>3, <1>4, <1>9, <2>1, <4>1
      <4>3. (Asking(l) \/ Holding(l))' =>
              IsInjective(Hand(l))' /\ (Range(Hand(l)) \cap Range(got[l]))' = {}
        BY <1>2, <1>4, <4>1
      <4>4. (at[l] = "start" /\ window.offset = 0)' =>
              /\ IsInjective(window'.items)
              /\ Range(window'.items) \cap Range(remote') \subseteq Before(remote', PageSize)
        BY <1>2, <1>3, <2>4, <4>1
      <4>5. IsInjective(got[l])' /\ kind'[l] # "reversed"  BY <1>2, <1>11, <4>1
      <4> QED  BY <4>2, <4>3, <4>4, <4>5 DEF OnceInv
    <3> QED  BY <3>1, <3>2
  <2> QED  BY <1>10, <2>2, <2>5 DEF WalkInv
<1>12. CASE kind[l] = "reversed"
  <2>1. Ahead(l) = Before(remote, e) /\ Ahead(l)' = Before(remote', e)
    BY <1>2, <1>4, <1>7, <1>12 DEF Ahead
  <2>2. OnceInv(l)'  BY <1>2, <1>3, <1>12 DEF OnceInv
  <2>3. WholeInv(l)'
    <3>1. CASE l \in strange \/ l \in grew
      BY <1>2, <1>3, <1>12, <3>1 DEF WholeInv
    <3>2. CASE l \notin strange /\ l \notin grew
      <4>1. /\ Asking(l) \/ Holding(l) => Missed(l) \subseteq Ahead(l)
            /\ at[l] = "ended" => since[l] \cap Range(remote) \subseteq Range(got[l])
            /\ at[l] = "start" => Len(remote) <= window.pages * PageSize
        BY <1>12, <3>2 DEF WalkInv, WholeInv, Walks
      <4>2. (Asking(l) \/ Holding(l))' => Missed(l)' \subseteq Ahead(l)'
        BY <1>4, <1>5, <1>9, <2>1, <4>1
      <4>3. (at[l] = "ended")' => since'[l] \cap Range(remote') \subseteq Range(got'[l])
        BY <1>2, <1>3, <4>1
      <4>4. (at[l] = "start")' => Len(remote') <= window'.pages * PageSize
        <5>1. window.pages * PageSize \in Nat /\ Len(remote) \in Nat
          BY TimesNat, Sizes DEF Types, Windows
        <5>2. PICK m \in Nat : m = window.pages * PageSize  BY <5>1
        <5>3. at[l] = "start" => Len(remote) - 1 <= m  BY <4>1, <5>1, <5>2
        <5> QED  BY <1>2, <1>3, <5>2, <5>3
      <4>5. kind'[l] # "pages"  BY <1>2, <1>12
      <4> QED  BY <4>2, <4>3, <4>4, <4>5 DEF WholeInv
    <3> QED  BY <3>1, <3>2
  <2> QED  BY <1>10, <2>2, <2>3 DEF WalkInv
<1>13. CASE ~Walks(l)  BY <1>4, <1>13, WalkVoid
<1> QED  BY <1>11, <1>12, <1>13 DEF Walks

(***************************************************************************)
(* The invariant, from the first state on.                                  *)
(***************************************************************************)
LoopInv(l, D) ==
    /\ KindInv(l, D) /\ JobsInv(l, D) /\ RoomInv(l, D) /\ SteadyInv(l, D) /\ FinishInv(l)
    /\ WalkInv(l)

PagingInv(top) ==
    /\ Types(Span(top)) /\ Counts(top) /\ \A l \in Loops : LoopInv(l, Span(top))

\* The first state, of a scene.
Starts(s) ==
    /\ kind = s.kind /\ remote = s.list /\ changes = s.changes /\ fails = s.fails
    /\ window = Shown(s.page, Query(s.list, s.page, PageSize))
    /\ at = [l \in Loops |-> IF s.kind[l] = "none" THEN "ended" ELSE "start"]
    /\ page = [l \in Loops |-> 0] /\ answer = [l \in Loops |-> Nothing]
    /\ got = [l \in Loops |-> <<>>]
    /\ gen = [l \in Loops |-> [next |-> 0, total |-> 0, jobs |-> <<>>, i |-> 1, room |-> 0]]
    /\ job = [l \in Loops |-> [p \in Span(Len(s.list) + s.changes) |-> NoJob]]
    /\ since = [l \in Loops |-> Range(s.list)]
    /\ grew = {} /\ shrank = {} /\ strange = {}

LEMMA InitIs == Init => \E s \in Scenes : Starts(s)
<1> SUFFICES ASSUME Init  PROVE \E s \in Scenes : Starts(s)  OBVIOUS
<1>1. PICK s \in Scenes :
        /\ kind = s.kind /\ remote = s.list /\ changes = s.changes /\ fails = s.fails
        /\ window = Shown(s.page, Query(s.list, s.page, PageSize))
        /\ at = [l \in Loops |-> IF s.kind[l] = "none" THEN "ended" ELSE "start"]
        /\ page = [l \in Loops |-> 0] /\ answer = [l \in Loops |-> Nothing]
        /\ got = [l \in Loops |-> <<>>]
        /\ gen = [l \in Loops |-> [next |-> 0, total |-> 0, jobs |-> <<>>, i |-> 1, room |-> 0]]
        /\ job = [l \in Loops |-> NoJobs]
        /\ since = [l \in Loops |-> Range(s.list)]
        /\ grew = {} /\ shrank = {} /\ strange = {}
  BY Zenon DEF Init
<1>2. NoJobs = [p \in Span(Len(s.list) + s.changes) |-> NoJob]
  BY <1>1 DEF NoJobs, MaxPage, Span
<1> QED  BY <1>1, <1>2 DEF Starts

\* A scene has types of its own.
LEMMA SceneTypes ==
    ASSUME NEW s \in Scenes
    PROVE  /\ s.kind \in [Loops -> Kinds] /\ s.list \in Seq(Things) /\ IsInjective(s.list)
           /\ s.page \in Nat /\ s.changes \in Nat /\ s.fails \in Nat
           /\ Range(s.list) \subseteq Things /\ Len(s.list) \in Nat
<1>1. /\ s.kind \in [Loops -> Kinds] /\ s.list \in Seq(Range(s.list)) /\ IsInjective(s.list)
      /\ s.page \in Nat /\ s.changes \in Nat /\ s.fails \in Nat
  BY PagingAssumption
<1>2. Range(s.list) \subseteq Things  BY DEF Things
<1>3. s.list \in Seq(Things)
  <2>1. PICK R : R = Range(s.list)  OBVIOUS
  <2>2. s.list \in Seq(R)  BY <1>1, <2>1
  <2>3. R \subseteq Things  BY <1>2, <2>1
  <2>4. \A j \in 1..Len(s.list) : s.list[j] \in Things  BY <2>2, <2>3
  <2> QED  BY <2>2, <2>4
<1>4. Len(s.list) \in Nat  BY <1>3
<1> QED  BY <1>1, <1>2, <1>3, <1>4

LEMMA StartTypes ==
    ASSUME NEW s \in Scenes, Starts(s), NEW top, top = Len(s.list) + s.changes
    PROVE  Types(Span(top)) /\ top \in Nat
<1>1. /\ s.kind \in [Loops -> Kinds] /\ s.list \in Seq(Things)
      /\ s.page \in Nat /\ s.changes \in Nat /\ s.fails \in Nat
      /\ Range(s.list) \subseteq Things /\ Len(s.list) \in Nat
  BY SceneTypes
<1>2. top \in Nat  BY <1>1
<1>3. kind \in [Loops -> Kinds] /\ remote \in Seq(Things) /\ changes \in Nat /\ fails \in Nat
  BY <1>1 DEF Starts
<1>4. window \in Windows
  <2>1. PICK a : a = Query(s.list, s.page, PageSize)  OBVIOUS
  <2>2. a \in Answers  BY <1>1, <2>1, QueryType, Sizes
  <2>3. window = Shown(s.page, a)  BY <2>1 DEF Starts
  <2> QED  BY <1>1, <2>2, <2>3 DEF Shown, Answers, Windows
<1>5. at \in [Loops -> Places]
  <2>1. at = [l \in Loops |-> IF s.kind[l] = "none" THEN "ended" ELSE "start"]  BY DEF Starts
  <2> QED  BY <2>1 DEF Places, Over
<1>6. page \in [Loops -> Int] /\ answer \in [Loops -> Answers]
  BY NothingType DEF Starts
<1>7. got \in [Loops -> Seq(Things)]  BY DEF Starts
<1>8. gen \in [Loops -> Gens(Span(top))]
  <2>1. gen = [l \in Loops |-> [next |-> 0, total |-> 0, jobs |-> <<>>, i |-> 1, room |-> 0]]
    BY DEF Starts
  <2>2. [next |-> 0, total |-> 0, jobs |-> <<>>, i |-> 1, room |-> 0] \in Gens(Span(top))
    BY DEF Gens
  <2> QED  BY <2>1, <2>2
<1>9. job \in [Loops -> [Span(top) -> Jobs]]
  BY NothingType DEF Starts
<1>10. since \in [Loops -> SUBSET Things]  BY <1>1 DEF Starts
<1>11. grew \subseteq Loops /\ shrank \subseteq Loops /\ strange \subseteq Loops  BY DEF Starts
<1> QED
  BY <1>2, <1>3, <1>4, <1>5, <1>6, <1>7, <1>8, <1>9, <1>10, <1>11 DEF Types

LEMMA StartCounts ==
    ASSUME NEW s \in Scenes, Starts(s), NEW top, top = Len(s.list) + s.changes
    PROVE  Counts(top)
<1>1. /\ s.list \in Seq(Things) /\ IsInjective(s.list) /\ s.page \in Nat /\ s.changes \in Nat
      /\ Len(s.list) \in Nat
  BY SceneTypes
<1>2. Types(Span(top)) /\ top \in Nat  BY StartTypes
<1>3. remote = s.list /\ changes = s.changes  BY DEF Starts
<1>4. window.count = Len(s.list)
  <2>1. PICK a : a = Query(s.list, s.page, PageSize)  OBVIOUS
  <2>4. Shows(a, s.list, s.page, PageSize)  BY <1>1, <2>1, Queried, Sizes
  <2>2. a.count = Len(s.list)  BY <2>4 DEF Shows
  <2>3. window = Shown(s.page, a)  BY <2>1 DEF Starts
  <2> QED  BY <2>2, <2>3 DEF Shown
<1>5. ASSUME NEW n \in Nat, Snap(n, Span(top))  PROVE n = Len(remote)
  <2>1. \A l \in Loops : at[l] # "land"
    <3>1. at = [l \in Loops |-> IF s.kind[l] = "none" THEN "ended" ELSE "start"]  BY DEF Starts
    <3> QED  BY <3>1
  <2>2. \A l \in Loops : \A p \in Span(top) : job[l][p].is = "none"
    BY DEF Starts, NoJob
  <2> QED  BY <1>3, <1>4, <1>5, <2>1, <2>2 DEF Snap
<1>6. Cardinality(Range(remote) \ New) <= Len(remote)  BY <1>1, <1>2, <1>3, OldItems
<1>7. \A l \in Loops : gen[l].total \in Span(top)
  <2>1. 0 \in Span(top)  BY <1>2, SpanNat
  <2> QED  BY <2>1 DEF Starts
<1>8. Len(remote) + changes <= top /\ Len(remote) <= top  BY <1>1, <1>3
<1> QED  BY <1>1, <1>3, <1>5, <1>6, <1>7, <1>8 DEF Counts

LEMMA StartWalk ==
    ASSUME NEW s \in Scenes, Starts(s), NEW l \in Loops
    PROVE  WalkInv(l)
<1>1. /\ s.list \in Seq(Things) /\ IsInjective(s.list) /\ s.page \in Nat
      /\ Len(s.list) \in Nat /\ s.kind \in [Loops -> Kinds]
  BY SceneTypes
<1>2. /\ remote = s.list /\ got[l] = <<>> /\ since[l] = Range(s.list) /\ kind = s.kind
      /\ grew = {} /\ shrank = {}
  BY DEF Starts
<1>3. at[l] = IF kind[l] = "none" THEN "ended" ELSE "start"  BY DEF Starts
<1>4. PICK a : a = Query(s.list, s.page, PageSize)  OBVIOUS
<1>5. Shows(a, s.list, s.page, PageSize)  BY <1>1, <1>4, Queried, Sizes
<1>6. /\ window.offset = s.page /\ window.items = a.items /\ window.more = a.more
      /\ window.pages = a.pages
  BY <1>4 DEF Starts, Shown
<1>7. CASE ~Walks(l)  BY <1>7 DEF WalkInv, OffsetInv, OnceInv, WholeInv
<1>8. CASE Walks(l)
  <2>1. at[l] = "start" /\ ~Asking(l) /\ ~Holding(l)  BY <1>3, <1>8 DEF Walks, Asking, Holding
  <2>2. ASSUME window.offset = 0
        PROVE  /\ IsInjective(window.items)
               /\ Range(window.items) \cap Range(remote) \subseteq Before(remote, PageSize)
               /\ Range(remote) \ Range(window.items) \subseteq Beyond(remote, PageSize)
               /\ ~window.more => Range(remote) \subseteq Range(window.items)
    <3>1. s.page = 0 /\ 0 \in Nat /\ PageSize \in Int /\ remote \in Seq(Things)
      BY <1>1, <1>2, <1>6, <2>2, Sizes
    <3>2. 0 * PageSize = 0 /\ (0 + 1) * PageSize = PageSize  BY Sizes
    <3>3. IsInjective(a.items) /\ Range(a.items) = PageOf(remote, 0, PageSize)
      BY <1>1, <1>2, <1>4, <3>1, PageApart, Sizes
    <3>4. /\ Before(remote, PageSize) = Before(remote, 0) \cup PageOf(remote, 0, PageSize)
          /\ Beyond(remote, 0) = Beyond(remote, PageSize) \cup PageOf(remote, 0, PageSize)
      <4>1. /\ Before(remote, (0 + 1) * PageSize)
                  = Before(remote, 0 * PageSize) \cup PageOf(remote, 0, PageSize)
            /\ Beyond(remote, 0 * PageSize)
                  = Beyond(remote, (0 + 1) * PageSize) \cup PageOf(remote, 0, PageSize)
        BY <3>1, PageMoves, Sizes
      <4> QED  BY <3>2, <4>1
    <3>5. Before(remote, 0) = {} /\ Before(remote, 0) \cup Beyond(remote, 0) = Range(remote)
      BY <3>1, SplitAt
    <3>6. ASSUME ~window.more  PROVE Beyond(remote, PageSize) = {}
      <4>1. a.more = (PageSize < Len(remote))
        BY <1>2, <1>5, <3>1, <3>2 DEF Shows
      <4>2. ~(PageSize < Len(remote))  BY <1>6, <3>6, <4>1
      <4>3. Len(remote) \in Int  BY <1>1, <1>2
      <4>4. PageSize >= Len(remote)  BY <3>1, <4>2, <4>3
      <4> QED  BY <3>1, <4>4, SplitAt
    <3> QED  BY <1>6, <3>3, <3>4, <3>5, <3>6
  <2>3. Len(remote) <= window.pages * PageSize
    <3>1. a.pages = Ceil(Len(remote), PageSize)  BY <1>2, <1>5 DEF Shows
    <3>2. Ceil(Len(remote), PageSize) * PageSize >= Len(remote)
      BY <1>1, <1>2, CeilNat, PagingAssumption
    <3>3. Ceil(Len(remote), PageSize) \in Nat
      BY <1>1, <1>2, CeilNat, PagingAssumption
    <3>4. PICK c \in Nat : c = Ceil(Len(remote), PageSize)  BY <3>3
    <3>5. c * PageSize \in Nat /\ Len(remote) \in Nat  BY <1>1, <1>2, TimesNat, Sizes
    <3>6. Len(remote) <= c * PageSize  BY <3>2, <3>4, <3>5
    <3> QED  BY <1>6, <3>1, <3>4, <3>6
  <2>4. OffsetInv(l)  BY <2>1, <1>3 DEF OffsetInv
  <2>5. OnceInv(l)  BY <1>2, <2>1, <2>2, NoItems DEF OnceInv
  <2>6. WholeInv(l)  BY <1>2, <2>1, <2>2, <2>3 DEF WholeInv
  <2> QED  BY <2>4, <2>5, <2>6 DEF WalkInv
<1> QED  BY <1>7, <1>8

LEMMA StartLoop ==
    ASSUME NEW s \in Scenes, Starts(s), NEW l \in Loops, NEW D, D = Span(Len(s.list) + s.changes)
    PROVE  LoopInv(l, D)
<1>1. /\ got[l] = <<>> /\ kind = s.kind
      /\ gen[l] = [next |-> 0, total |-> 0, jobs |-> <<>>, i |-> 1, room |-> 0]
  BY DEF Starts
<1>2. at[l] = IF kind[l] = "none" THEN "ended" ELSE "start"  BY DEF Starts
<1>3. \A p \in D : job[l][p].is = "none"  BY DEF Starts, NoJob
<1>4. KindInv(l, D)
  <2>1. Walks(l) => at[l] = "start"  BY <1>2 DEF Walks
  <2>2. OfAll(l) => at[l] = "start"  BY <1>2 DEF OfAll
  <2> QED  BY <1>1, <1>2, <1>3, <2>1, <2>2 DEF KindInv
<1>5. JobsInv(l, D)
  <2>1. gen[l].jobs = <<>> /\ gen[l].next = 0 /\ gen[l].total = 0  BY <1>1
  <2> QED  BY <1>3, <2>1, NoItems DEF JobsInv
<1>6. OfAll(l) => at[l] = "start"  BY <1>2 DEF OfAll
<1>7. RoomInv(l, D) /\ SteadyInv(l, D) /\ FinishInv(l)
  BY <1>6 DEF RoomInv, SteadyInv, FinishInv
<1> QED  BY <1>4, <1>5, <1>7, StartWalk DEF LoopInv

LEMMA PagingStarts == Init => \E top \in Nat : PagingInv(top)
<1> SUFFICES ASSUME Init  PROVE \E top \in Nat : PagingInv(top)  OBVIOUS
<1>1. PICK s \in Scenes : Starts(s)  BY InitIs
<1>2. PICK top : top = Len(s.list) + s.changes  OBVIOUS
<1>3. Types(Span(top)) /\ top \in Nat  BY <1>1, <1>2, StartTypes
<1>4. Counts(top)  BY <1>1, <1>2, StartCounts
<1>5. \A l \in Loops : LoopInv(l, Span(top))  BY <1>1, <1>2, StartLoop
<1> QED  BY <1>3, <1>4, <1>5 DEF PagingInv

LEMMA PagingLoop ==
    ASSUME NEW top \in Nat, PagingInv(top), NEW l \in Loops,
           \/ WalkStep(l) \/ Leave(l) \/ AllStep(l) \/ \E p \in Span(top) : JobStep(l, p)
    PROVE  PagingInv(top)'
<1> DEFINE D == Span(top)
<1>1. Types(D) /\ Counts(top) /\ \A k \in Loops : LoopInv(k, D)  BY DEF PagingInv
<1>2. D \subseteq Nat  BY SpanNat
<1>3. IsInjective(remote)  BY <1>1 DEF Counts
<1>4. MorePages(l) => gen[l].next \in D  BY <1>1, Fits
<1>5. Counts(top)'  BY <1>1, CountsLoop
<1>6. /\ KindInv(l, D) /\ JobsInv(l, D) /\ RoomInv(l, D) /\ SteadyInv(l, D) /\ FinishInv(l)
      /\ WalkInv(l)
  BY <1>1 DEF LoopInv
<1>7. RoomInv(l, D)'  BY <1>1, <1>6, RoomStep
<1>8. remote' = remote /\ \A k \in Loops \ {l} : Same(k)
  <2>1. Still /\ \A k \in Loops \ {l} : Same(k)
    BY <1>1, WalkApart, AllApart, JobApart
  <2> QED  BY <2>1 DEF Still
<1> HIDE DEF D
<1>9. Types(D)'  BY <1>1, <1>2, <1>4, <1>6, WalkTypes, AllTypes, JobTypes DEF D
<1>10. KindInv(l, D)' /\ JobsInv(l, D)'  BY <1>1, <1>2, <1>4, <1>6, KindStep, JobsStep DEF D
<1>11. SteadyInv(l, D)'  BY <1>1, <1>2, <1>3, <1>4, <1>6, SteadyStep DEF D
<1>12. FinishInv(l)'  BY <1>1, <1>2, <1>4, <1>6, FinishStep DEF D
<1>13. WalkInv(l)'  BY <1>1, <1>3, <1>6, WalkStay DEF D
<1>14. LoopInv(l, D)'  BY <1>7, <1>10, <1>11, <1>12, <1>13 DEF LoopInv, D
<1>15. ASSUME NEW k \in Loops \ {l}  PROVE LoopInv(k, D)'
  <2>1. /\ KindInv(k, D) /\ JobsInv(k, D) /\ RoomInv(k, D) /\ SteadyInv(k, D) /\ FinishInv(k)
        /\ WalkInv(k)
    BY <1>1 DEF LoopInv
  <2>2. Same(k) /\ k \in Loops  BY <1>8
  <2>3. KindInv(k, D)' /\ JobsInv(k, D)'  BY <2>1, <2>2, KindSame
  <2>4. RoomInv(k, D)'  BY <1>8, <2>1, <2>2, RoomSame
  <2>5. SteadyInv(k, D)'  BY <1>8, <2>1, <2>2, SteadySame
  <2>6. FinishInv(k)' /\ WalkInv(k)'  BY <1>8, <2>1, <2>2, FinishSame, WalkSame
  <2> QED  BY <2>3, <2>4, <2>5, <2>6 DEF LoopInv
<1>16. \A k \in Loops : LoopInv(k, D)'  BY <1>14, <1>15
<1> QED  BY <1>5, <1>9, <1>16 DEF PagingInv, D

LEMMA PagingOthers ==
    ASSUME NEW top \in Nat, PagingInv(top),
           (\E x \in New : Publish(x)) \/ (\E i \in DOMAIN remote : Withdraw(i))
    PROVE  PagingInv(top)'
<1> DEFINE D == Span(top)
<1>1. Types(D) /\ Counts(top) /\ \A k \in Loops : LoopInv(k, D)  BY DEF PagingInv
<1>2. IsInjective(remote)  BY <1>1 DEF Counts
<1>3. Counts(top)'  BY <1>1, CountsOthers
<1>4. /\ kind' = kind /\ at' = at /\ got' = got /\ gen' = gen /\ job' = job
  BY OthersApart
<1> HIDE DEF D
<1>5. Types(D)'  BY <1>1, OthersTypes
<1>6. ASSUME NEW l \in Loops  PROVE LoopInv(l, D)'
  <2>1. /\ KindInv(l, D) /\ JobsInv(l, D) /\ RoomInv(l, D) /\ SteadyInv(l, D) /\ FinishInv(l)
        /\ WalkInv(l)
    BY <1>1 DEF LoopInv
  <2>2. Walks(l)' = Walks(l) /\ OfAll(l)' = OfAll(l)  BY <1>4 DEF Walks, OfAll
  <2>3. KindInv(l, D)'  BY <1>4, <2>1, <2>2 DEF KindInv
  <2>4. JobsInv(l, D)'  BY <1>4, <2>1 DEF JobsInv
  <2>5. FinishInv(l)'  BY <1>4, <2>1, <2>2 DEF FinishInv
  <2>6. RoomInv(l, D)'  BY <1>1, <1>2, <2>1, RoomOthers
  <2>7. SteadyInv(l, D)'  BY SteadyOthers
  <2>8. WalkInv(l)'  BY <1>1, <1>2, <2>1, WalkComes, WalkGoes
  <2> QED  BY <2>3, <2>4, <2>5, <2>6, <2>7, <2>8 DEF LoopInv
<1> QED  BY <1>3, <1>5, <1>6 DEF PagingInv, D

IInv == \E top \in Nat : PagingInv(top)

LEMMA PagingKept == IInv /\ [Next]_vars => IInv'
<1> SUFFICES ASSUME NEW top \in Nat, PagingInv(top), [Next]_vars  PROVE PagingInv(top)'
  BY DEF IInv
<1>1. ASSUME NEW l \in Loops, LoopStep(l) \/ Leave(l)  PROVE PagingInv(top)'
  <2>1. WalkStep(l) \/ AllStep(l) \/ Leave(l)  BY <1>1, StepIs
  <2> QED  BY <2>1, PagingLoop
<1>2. ASSUME NEW l \in Loops, NEW p \in DOMAIN job[l], JobStep(l, p)  PROVE PagingInv(top)'
  <2>1. Types(Span(top))  BY DEF PagingInv
  <2>2. p \in Span(top)  BY <2>1 DEF Types
  <2> QED  BY <1>2, <2>2, PagingLoop
<1>3. CASE (\E x \in New : Publish(x)) \/ (\E i \in DOMAIN remote : Withdraw(i))
  BY <1>3, PagingOthers
<1>4. CASE UNCHANGED vars
  <2>1. /\ kind' = kind /\ remote' = remote /\ changes' = changes /\ fails' = fails
        /\ window' = window /\ at' = at /\ page' = page /\ answer' = answer /\ got' = got
        /\ gen' = gen /\ job' = job /\ since' = since /\ grew' = grew /\ shrank' = shrank
        /\ strange' = strange
    BY <1>4 DEF vars, service, history
  <2>2. Still /\ \A k \in Loops : Same(k)  BY <2>1 DEF Still, Same
  <2>3. Types(Span(top)) /\ Counts(top) /\ (\A k \in Loops : LoopInv(k, Span(top)))
    BY DEF PagingInv
  <2>4. Types(Span(top))'  BY <2>1, <2>3 DEF Types
  <2>5. \A n : Snap(n, Span(top))' <=> Snap(n, Span(top))  BY <2>1 DEF Snap
  <2>6. Counts(top)'  BY <2>1, <2>3, <2>5 DEF Counts
  <2>7. ASSUME NEW k \in Loops  PROVE LoopInv(k, Span(top))'
    <3>1. /\ KindInv(k, Span(top)) /\ JobsInv(k, Span(top)) /\ RoomInv(k, Span(top))
          /\ SteadyInv(k, Span(top)) /\ FinishInv(k) /\ WalkInv(k)
      BY <2>3 DEF LoopInv
    <3>2. Same(k)  BY <2>2
    <3>3. KindInv(k, Span(top))' /\ JobsInv(k, Span(top))'  BY <3>1, <3>2, KindSame
    <3>4. RoomInv(k, Span(top))' /\ SteadyInv(k, Span(top))'
      BY <2>1, <3>1, <3>2, RoomSame, SteadySame
    <3>5. FinishInv(k)' /\ WalkInv(k)'  BY <2>1, <3>1, <3>2, FinishSame, WalkSame
    <3> QED  BY <3>3, <3>4, <3>5 DEF LoopInv
  <2> QED  BY <2>4, <2>6, <2>7 DEF PagingInv
<1> QED  BY <1>1, <1>2, <1>3, <1>4 DEF Next

LEMMA PagingAlways == Spec => []IInv
<1>1. Init => IInv  BY PagingStarts DEF IInv
<1> QED  BY <1>1, PagingKept, PTL DEF Spec

(***************************************************************************)
(* What it says.                                                           *)
(***************************************************************************)

\* get_all_items runs out of its list only when an item came that its count could not
\* know of (items.py:117-121).
THEOREM PagingRoom == Spec => []RoomUnlessGrown
<1>1. IInv => RoomUnlessGrown
  <2> SUFFICES ASSUME NEW top \in Nat, PagingInv(top), NEW l \in Loops, at[l] = "index_error"
               PROVE  l \in grew \/ since[l] \cap New # {}
    BY DEF IInv, RoomUnlessGrown
  <2>1. /\ Types(Span(top)) /\ KindInv(l, Span(top)) /\ RoomInv(l, Span(top))
    BY DEF PagingInv, LoopInv
  <2>2. ~Walks(l) /\ kind[l] # "none"  BY <2>1 DEF KindInv
  <2>3. OfAll(l)  BY <2>1, <2>2, KindIs
  <2> QED  BY <2>1, <2>3 DEF RoomInv
<1> QED  BY <1>1, PagingAlways, PTL

\* A loop yields an item twice only when the list moved under it
\* (paged_entities.py:72, 90, 163).
THEOREM PagingOnce == Spec => []NoneTwice
<1>1. IInv => NoneTwice
  <2> SUFFICES ASSUME NEW top \in Nat, PagingInv(top), NEW l \in Loops, Undisturbed(l),
                      ~(kind[l] # "reversed" /\ l \in grew),
                      ~(kind[l] # "pages" /\ l \in shrank)
               PROVE  IsInjective(got[l])
    BY DEF IInv, NoneTwice
  <2>1. /\ Types(Span(top)) /\ KindInv(l, Span(top)) /\ SteadyInv(l, Span(top)) /\ WalkInv(l)
    BY DEF PagingInv, LoopInv
  <2>2. CASE Walks(l)
    <3>1. ~OfAll(l)  BY <2>2 DEF Walks, OfAll
    <3>2. l \notin strange  BY <3>1 DEF Undisturbed
    <3>3. l \notin (IF kind[l] = "pages" THEN grew ELSE shrank)  BY <2>2 DEF Walks
    <3> QED  BY <2>1, <2>2, <3>2, <3>3 DEF WalkInv, OnceInv
  <2>3. CASE OfAll(l)
    <3>1. l \notin grew \cup shrank  BY <2>3 DEF OfAll
    <3>2. CASE at[l] = "start"
      <4>1. got[l] = <<>>  BY <2>1, <3>2 DEF KindInv
      <4> QED  BY <4>1, NoItems
    <3>3. CASE at[l] # "start"  BY <2>1, <2>3, <3>1, <3>3 DEF SteadyInv
    <3> QED  BY <3>2, <3>3
  <2>4. CASE kind[l] = "none"
    <3>1. got[l] = <<>>  BY <2>1, <2>4 DEF KindInv
    <3> QED  BY <3>1, NoItems
  <2> QED  BY <2>1, <2>2, <2>3, <2>4, KindIs
<1> QED  BY <1>1, PagingAlways, PTL

\* A loop that ends has yielded every item that stayed, unless the list moved under it;
\* all() of a list that stayed leaves items out in two ways only: it ends after its first
\* page, or the list has outgrown the pages it counted (paged_entities.py:168, 171-184).
THEOREM PagingWhole == Spec => []NoneSkipped
<1>1. IInv => NoneSkipped
  <2> SUFFICES ASSUME NEW top \in Nat, PagingInv(top), NEW l \in Loops, at[l] = "ended",
                      kind[l] # "none", Undisturbed(l),
                      ~(kind[l] # "reversed" /\ l \in shrank),
                      ~(kind[l] # "pages" /\ l \in grew),
                      ~Outgrown(l), ~StoppedShort(l)
               PROVE  since[l] \cap Range(remote) \subseteq Range(got[l])
    BY DEF IInv, NoneSkipped
  <2>1. /\ Types(Span(top)) /\ SteadyInv(l, Span(top)) /\ FinishInv(l) /\ WalkInv(l)
        /\ IsInjective(remote)
    BY DEF PagingInv, LoopInv, Counts
  <2>2. CASE Walks(l)
    <3>1. ~OfAll(l)  BY <2>2 DEF Walks, OfAll
    <3>2. l \notin strange  BY <3>1 DEF Undisturbed
    <3>3. l \notin (IF kind[l] = "pages" THEN shrank ELSE grew)  BY <2>2 DEF Walks
    <3> QED  BY <2>1, <2>2, <3>2, <3>3 DEF WalkInv, WholeInv
  <2>3. CASE OfAll(l)
    <3>1. l \notin grew \cup shrank  BY <2>3 DEF OfAll
    <3>2. gen[l].jobs = <<>> /\ gen[l].next = gen[l].total + 1
      <4>1. gen[l].total \in Nat  BY <2>1 DEF Types, Gens
      <4>2. gen[l].jobs = <<>> /\ (gen[l].next = 1 \/ gen[l].next = gen[l].total + 1)
        BY <2>1, <2>3 DEF FinishInv
      <4>3. gen[l].next = 1 => gen[l].total = 0  BY <2>3, <4>1 DEF StoppedShort
      <4> QED  BY <4>2, <4>3
    <3>3. Range(got[l]) = {remote[k] : k \in Slots(Done(l), Len(remote))}
      BY <2>1, <2>3, <3>1 DEF SteadyInv
    <3>4. Len(remote) <= (gen[l].total + 1) * AllSize
      <4>1. since[l] = Range(remote)  BY <2>1, <2>3, <3>1 DEF SteadyInv
      <4>2. Cardinality(Range(remote)) = Len(remote)  BY <2>1, LenIsCard DEF Types
      <4>3. gen[l].total \in Nat /\ Len(remote) \in Nat  BY <2>1 DEF Types, Gens
      <4>4. (gen[l].total + 1) * AllSize \in Int  BY <4>3, Times, Sizes
      <4>5. ~(Len(remote) > (gen[l].total + 1) * AllSize)
        BY <2>3, <4>1, <4>2 DEF Outgrown
      <4>6. PICK m \in Int : m = (gen[l].total + 1) * AllSize  BY <4>4
      <4> QED  BY <4>3, <4>5, <4>6
    <3>5. gen[l].total \in Nat /\ Len(remote) \in Nat  BY <2>1 DEF Types, Gens
    <3>6. PICK t \in Nat : t = gen[l].total  BY <3>5
    <3>7. Done(l) = 0..t
      <4>1. Range(gen[l].jobs) = {}  BY <3>2, NoItems
      <4>2. gen[l].next - 1 = t  BY <3>2, <3>6
      <4> QED  BY <4>1, <4>2 DEF Done
    <3>8. ASSUME NEW k \in 1..Len(remote)  PROVE k \in Slots(Done(l), Len(remote))
      <4>1. (t + 1) * AllSize \in Int  BY Times, Sizes
      <4>2. k \in Nat /\ k >= 1 /\ k <= (t + 1) * AllSize  BY <3>4, <3>5, <3>6, <4>1
      <4>3. \E p \in 0..t : k \in Slot(p)  BY <4>2, SlotOf
      <4> QED  BY <3>7, <4>3 DEF Slots
    <3>9. Range(remote) = {remote[k] : k \in 1..Len(remote)}  BY <2>1, RangeIs DEF Types
    <3> QED  BY <3>3, <3>8, <3>9
  <2> QED  BY <2>1, <2>2, <2>3, KindIs
<1> QED  BY <1>1, PagingAlways, PTL
=============================================================================
