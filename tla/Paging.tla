------------------------------- MODULE Paging -------------------------------
(***************************************************************************)
(* dtlpy/entities/paged_entities.py: one PagedEntities object, a window on  *)
(* a list the service keeps, walked by several loops: "pages" is            *)
(* "for page in paged", "reversed" is "for page in reversed(paged)", "all"  *)
(* is "for item in paged.all()", and "get_all" is Items.get_all_items,      *)
(* which puts what all() yields in a list as long as the count it was told. *)
(*                                                                         *)
(* The loops are threads of one process, or follow each other in one; the   *)
(* pages of all() are fetched by jobs of the pool 'item.page', which write  *)
(* the window too.  Meanwhile others add items to the list and remove some. *)
(***************************************************************************)
EXTENDS Integers, Sequences, FiniteSets, Functions, SequencesExt

CONSTANTS
    Loops,        \* the loops over the object
    Scenes,       \* what each loop is, the list at first, the page shown at first; and the
                  \* bounds: how often others change the list, how many requests fail
    New,          \* items others may add
    PageSize,     \* page_size of the object
    AllSize       \* the page size of all(): 100

Kinds == {"pages", "reversed", "all", "get_all", "none"}

ASSUME PagingAssumption ==
    /\ PageSize \in Nat \ {0} /\ AllSize \in Nat \ {0}
    /\ \A s \in Scenes : /\ s.kind \in [Loops -> Kinds]
                         /\ s.list \in Seq(Range(s.list)) /\ IsInjective(s.list)
                         /\ Range(s.list) \cap New = {}
                         /\ s.page \in Nat /\ s.changes \in Nat /\ s.fails \in Nat

VARIABLES
    kind,        \* of each loop
    remote,      \* the list at the service
    changes,     \* how often others may still change it
    fails,       \* how many requests may still fail
    window,      \* page_offset, items, has_next_page, items_count, total_pages_count
    at,          \* where each loop is
    page,        \* the offset it asks for
    answer,      \* what the service answered it
    got,         \* the items it yielded, for as long as no other loop interferes
    gen,         \* locals of all(): page_offset, total_pages, jobs, i_job; and num_items
    job,         \* the job of each page: none, queued, answered, failed, done
    since,       \* history: the list when the loop's first page was fetched
    grew, shrank, \* history: loops for which an item came, or went, since
    strange      \* history: loops whose window another one wrote

service == <<remote, changes, fails>>
history == <<since, grew, shrank, strange>>
vars == <<kind, service, window, at, page, answer, got, gen, job, history>>

Over == {"ended", "raised", "index_error", "left"}
OfAll(l) == kind[l] \in {"all", "get_all"}

\* Only a loop over the window depends on what others do to it.
Undisturbed(l) == OfAll(l) \/ l \notin strange

Ceil(n, size) == (n + size - 1) \div size

\* A query at the service.
Query(list, p, size) ==
    [items |-> SubSeq(list, p * size + 1, Min({(p + 1) * size, Len(list)})),
     more |-> (p + 1) * size < Len(list),
     count |-> Len(list), pages |-> Ceil(Len(list), size)]
Nothing == Query(<<>>, 0, PageSize)

\* The window that shows an answer.
Shown(p, a) == [offset |-> p, items |-> a.items, more |-> a.more,
                count |-> a.count, pages |-> a.pages]

MaxPage == Ceil(Len(remote) + changes, AllSize)
NoJob == [is |-> "none", ans |-> Nothing]
NoJobs == [p \in 0 .. MaxPage |-> NoJob]

Init ==
    \E s \in Scenes :
        /\ kind = s.kind /\ remote = s.list
        /\ changes = s.changes /\ fails = s.fails
        /\ window = Shown(s.page, Query(s.list, s.page, PageSize))
        /\ at = [l \in Loops |-> IF s.kind[l] = "none" THEN "ended" ELSE "start"]
        /\ page = [l \in Loops |-> 0]
        /\ answer = [l \in Loops |-> Nothing]
        /\ got = [l \in Loops |-> <<>>]
        /\ gen = [l \in Loops |-> [next |-> 0, total |-> 0, jobs |-> <<>>, i |-> 1, room |-> 0]]
        /\ job = [l \in Loops |-> NoJobs]
        /\ since = [l \in Loops |-> Range(s.list)]
        /\ grew = {} /\ shrank = {} /\ strange = {}
-----------------------------------------------------------------------------
Goto(l, label) == at' = [at EXCEPT ![l] = label]

\* A write of the window by loop l, or by one of its jobs.
Wrote(l) == strange' = strange \cup (Loops \ {l})

Others == UNCHANGED <<since, grew, shrank>>

\* The loop's own fetch is the first of its data.
FreshStart(l) ==
    /\ since' = [since EXCEPT ![l] = Range(remote)]
    /\ grew' = grew \ {l} /\ shrank' = shrank \ {l}

\* __iter__ up to its loop.
ResetsOffset(l) ==
    /\ at[l] = "start" /\ kind[l] = "pages"
    /\ window' = [window EXCEPT !.offset = 0]
    /\ Goto(l, "yield") /\ Wrote(l)
    /\ Others /\ UNCHANGED <<kind, service, page, answer, got, gen, job>>

BeginPages(l) ==
    /\ at[l] = "start" /\ kind[l] = "pages"
    /\ IF window.offset # 0
       THEN /\ window' = [window EXCEPT !.offset = 0]
            /\ strange' = (strange \cup Loops) \ {l}
            /\ FreshStart(l)
            /\ Goto(l, "ask")
       ELSE /\ Goto(l, "yield")
            /\ Others /\ UNCHANGED <<window, strange>>
    /\ UNCHANGED <<kind, service, page, answer, got, gen, job>>

\* __reversed__ up to its loop.
BeginReversed(l) ==
    /\ at[l] = "start" /\ kind[l] = "reversed"
    /\ window' = [window EXCEPT !.offset = window.pages - 1]
    /\ Goto(l, "ask") /\ Wrote(l)
    /\ Others /\ UNCHANGED <<kind, service, page, answer, got, gen, job>>

\* num_items of get_all_items.
OnePage == Len(window.items)
Counted == window.count

\* all() up to its loop; get_all_items made its list before.
BeginAll(l) ==
    /\ at[l] = "start" /\ OfAll(l)
    /\ gen' = [gen EXCEPT ![l].total = Ceil(window.count, AllSize), ![l].room = Counted]
    /\ Goto(l, "submit") /\ FreshStart(l)
    /\ UNCHANGED <<kind, service, window, page, answer, got, job, strange>>

\* get_page: return_page reads page_offset ...
Ask(l) ==
    /\ at[l] = "ask"
    /\ page' = [page EXCEPT ![l] = window.offset]
    /\ Goto(l, "asked")
    /\ Others /\ UNCHANGED <<kind, service, window, answer, got, gen, job, strange>>

\* ... the service answers ...
Answered(l) ==
    /\ at[l] = "asked" /\ page[l] >= 0
    /\ answer' = [answer EXCEPT ![l] = Query(remote, page[l], PageSize)]
    /\ Goto(l, "land")
    /\ Others /\ UNCHANGED <<kind, service, window, page, got, gen, job, strange>>

\* ... or not: _list raises PlatformException.  It refuses a page before the first.
Refused(l) ==
    /\ at[l] = "asked"
    /\ \/ page[l] < 0 /\ UNCHANGED fails
       \/ fails > 0 /\ fails' = fails - 1
    /\ Goto(l, "raised")
    /\ Others /\ UNCHANGED <<kind, remote, changes, window, page, answer, got, gen, job, strange>>

\* process_result: from here on other loops see the answer, except the items.
Processed(a) ==
    [window EXCEPT !.more = a.more, !.count = a.count, !.pages = a.pages]

Land(l) ==
    /\ at[l] = "land"
    /\ window' = Processed(answer[l])
    /\ Goto(l, "show") /\ Wrote(l)
    /\ Others /\ UNCHANGED <<kind, service, page, answer, got, gen, job>>

\* self.items = items, once the entities are built.
Show(l) ==
    /\ at[l] = "show"
    /\ window' = [window EXCEPT !.items = answer[l].items]
    /\ answer' = [answer EXCEPT ![l] = Nothing]
    /\ Goto(l, "yield") /\ Wrote(l)
    /\ Others /\ UNCHANGED <<kind, service, page, got, gen, job>>

\* yield self.items; the body of the loop runs.
Yield(l) ==
    /\ at[l] = "yield"
    /\ got' = IF Undisturbed(l) THEN [got EXCEPT ![l] = @ \o window.items] ELSE got
    /\ Goto(l, "turn")
    /\ Others /\ UNCHANGED <<kind, service, window, page, answer, gen, job, strange>>

\* The body is done: another page, or the end.
Turn(l) ==
    /\ at[l] = "turn"
    /\ LET last == IF kind[l] = "pages" THEN ~window.more ELSE window.offset = 0
           step == IF kind[l] = "pages" THEN 1 ELSE -1
       IN IF last
          THEN Goto(l, "ended") /\ UNCHANGED <<window, strange>>
          ELSE /\ window' = [window EXCEPT !.offset = @ + step]
               /\ Goto(l, "ask") /\ Wrote(l)
    /\ Others /\ UNCHANGED <<kind, service, page, answer, got, gen, job>>

\* The caller breaks out of the loop; jobs of all() run on.
Leave(l) ==
    /\ \/ at[l] = "turn"
       \/ at[l] = "look" /\ got[l] # <<>>
    /\ Goto(l, "left")
    /\ Others /\ UNCHANGED <<kind, service, window, page, answer, got, gen, job, strange>>
-----------------------------------------------------------------------------
\* One pass of the loop of all(): one more page is submitted ...
FullPages(l) == gen[l].next < gen[l].total
MorePages(l) == gen[l].next <= gen[l].total

Submit(l) ==
    /\ at[l] = "submit"
    /\ IF MorePages(l)
       THEN /\ job' = [job EXCEPT ![l][gen[l].next].is = "queued"]
            /\ gen' = [gen EXCEPT ![l].jobs = Append(@, gen[l].next), ![l].next = @ + 1,
                                  ![l].i = 1]
       ELSE gen' = [gen EXCEPT ![l].i = 1] /\ UNCHANGED job
    /\ Goto(l, "look")
    /\ Others /\ UNCHANGED <<kind, service, window, page, answer, got, strange>>

\* ... and the jobs are looked at in turn; removing one from the list that is being
\* enumerated makes the loop miss the one behind it.
Stays(jobs, i) == jobs
Taken(jobs, i) == RemoveAt(jobs, i)

Looking(l) == at[l] = "look" /\ gen[l].i <= Len(gen[l].jobs)
Seen(l) == job[l][gen[l].jobs[gen[l].i]]
TooMany(l) == kind[l] = "get_all" /\ Len(got[l] \o Seen(l).ans.items) > gen[l].room

Take(l) ==
    /\ Looking(l) /\ Seen(l).is = "done" /\ ~TooMany(l)
    /\ got' = [got EXCEPT ![l] = @ \o Seen(l).ans.items]
    /\ gen' = [gen EXCEPT ![l].jobs = Taken(@, gen[l].i), ![l].i = @ + 1]
    /\ job' = [job EXCEPT ![l][gen[l].jobs[gen[l].i]] = NoJob]
    /\ Others /\ UNCHANGED <<kind, service, window, at, page, answer, strange>>

NotYet(l) ==
    /\ Looking(l) /\ Seen(l).is \in {"queued", "answered"}
    /\ gen' = [gen EXCEPT ![l].i = @ + 1]
    /\ Others /\ UNCHANGED <<kind, service, window, at, page, answer, got, job, strange>>

\* job.result() raises, or the list of get_all_items is too short.
AllRaises(l) ==
    /\ Looking(l)
    /\ \/ Seen(l).is = "failed" /\ Goto(l, "raised")
       \/ Seen(l).is = "done" /\ TooMany(l) /\ Goto(l, "index_error")
    /\ Others /\ UNCHANGED <<kind, service, window, page, answer, got, gen, job, strange>>

PassEnds(l) ==
    /\ at[l] = "look" /\ gen[l].i > Len(gen[l].jobs)
    /\ Goto(l, IF gen[l].jobs = <<>> THEN "ended" ELSE "submit")
    /\ Others /\ UNCHANGED <<kind, service, window, page, answer, got, gen, job, strange>>

\* return_page in a thread of the pool.
JobAnswered(l, p) ==
    /\ job[l][p].is = "queued"
    /\ \/ /\ job' = [job EXCEPT ![l][p] = [is |-> "answered", ans |-> Query(remote, p, AllSize)]]
          /\ UNCHANGED fails
       \/ /\ fails > 0 /\ fails' = fails - 1
          /\ job' = [job EXCEPT ![l][p].is = "failed"]
    /\ Others /\ UNCHANGED <<kind, remote, changes, window, at, page, answer, got, gen, strange>>

JobLands(l, p) ==
    /\ job[l][p].is = "answered"
    /\ job' = [job EXCEPT ![l][p].is = "done"]
    /\ window' = Processed(job[l][p].ans) /\ Wrote(l)
    /\ Others /\ UNCHANGED <<kind, service, at, page, answer, got, gen>>
-----------------------------------------------------------------------------
\* Other users of the service: at either end of the list.
Publish(x) ==
    /\ changes > 0 /\ changes' = changes - 1
    /\ x \in New \ Range(remote) /\ x \notin UNION {since[l] \cup Range(got[l]) : l \in Loops}
    /\ remote' \in {<<x>> \o remote, Append(remote, x)}
    /\ grew' = Loops
    /\ UNCHANGED <<kind, fails, window, at, page, answer, got, gen, job, since, shrank,
                   strange>>

Withdraw(i) ==
    /\ changes > 0 /\ changes' = changes - 1
    /\ remote' = RemoveAt(remote, i)
    /\ shrank' = Loops
    /\ UNCHANGED <<kind, fails, window, at, page, answer, got, gen, job, since, grew, strange>>

LoopStep(l) ==
    \/ BeginPages(l) \/ BeginReversed(l) \/ BeginAll(l)
    \/ Ask(l) \/ Answered(l) \/ Refused(l) \/ Land(l) \/ Show(l) \/ Yield(l) \/ Turn(l)
    \/ Submit(l) \/ Take(l) \/ NotYet(l) \/ AllRaises(l) \/ PassEnds(l)

JobStep(l, p) == JobAnswered(l, p) \/ JobLands(l, p)

Next ==
    \/ \E l \in Loops : LoopStep(l) \/ Leave(l)
    \/ \E l \in Loops : \E p \in DOMAIN job[l] : JobStep(l, p)
    \/ \E x \in New : Publish(x)
    \/ \E i \in DOMAIN remote : Withdraw(i)

\* Callers go on with their loops, and the pool runs its jobs.
Fairness ==
    /\ \A l \in Loops : WF_vars(LoopStep(l))
    /\ \A l \in Loops : WF_vars(\E p \in DOMAIN job[l] : JobStep(l, p))

Spec == Init /\ [][Next]_vars /\ Fairness
-----------------------------------------------------------------------------
\* A loop yields an item twice only when the list moved under it: forward when an item
\* came in front, in reverse when one went.  The pages of all() are of different moments,
\* so that either change may repeat an item (paged_entities.py:72, 90, 163).
NoneTwice ==
    \A l \in Loops :
        \/ IsInjective(got[l])
        \/ ~Undisturbed(l)
        \/ kind[l] # "reversed" /\ l \in grew
        \/ kind[l] # "pages" /\ l \in shrank

\* all() counts the pages by items_count, as old as the last answer that came, and asks
\* for one more; items beyond that one it does not see (paged_entities.py:168, 172).
Outgrown(l) == OfAll(l) /\ Cardinality(since[l]) > (gen[l].total + 1) * AllSize

\* all() stops after its first page when that one is done at the first look, since no job
\* is left then (paged_entities.py:174-182), for all that items.py:98-103 promises.
StoppedShort(l) == OfAll(l) /\ gen[l].next = 1 /\ gen[l].total >= 1

\* A loop that ended yielded every item that was in the list all the time, unless the list
\* moved under it: forward when an item went, in reverse when one came, all() in either
\* case.  Of a list that stayed as it was all() leaves out items only in the two ways above:
\* no order of its jobs, of the looks at them or of other loops' writes loses another.
NoneSkipped ==
    \A l \in Loops :
        \/ at[l] # "ended" \/ kind[l] = "none"
        \/ since[l] \cap Range(remote) \subseteq Range(got[l])
        \/ ~Undisturbed(l)
        \/ kind[l] # "reversed" /\ l \in shrank
        \/ kind[l] # "pages" /\ l \in grew
        \/ Outgrown(l) \/ StoppedShort(l)

\* get_all_items runs out of its list only when the list at the service grew after it
\* was counted (items.py:117-121).
RoomUnlessGrown ==
    \A l \in Loops : at[l] = "index_error" => l \in grew \/ since[l] \cap New # {}

\* Every loop ends, unless two loops move one window against each other.
LoopsEnd == \A l \in Loops : <>(at[l] \in Over \/ ~Undisturbed(l))
=============================================================================
