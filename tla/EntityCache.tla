----------------------------- MODULE EntityCache -----------------------------
(***************************************************************************)
(* dtlpy/services/api_client.py (gen_request, build_cache, the end of       *)
(* upload_file_async) and dtlpy/caches/cache.py on the default level,       *)
(* dl_cache.py: a disk cache shared by all processes of a user.             *)
(*                                                                         *)
(* An entity has an object key, items/<id>/object, that holds its json, and *)
(* a link below its parent, datasets/<id>/items/<id>/object, that holds the *)
(* object key.  The binary of an item has a link of its own, a file, and an *)
(* entry in cacheConfig.json.  Threads fetch, change and delete entities,   *)
(* and download and upload binaries; every key access is a step.  Building  *)
(* the cache starts the housekeeping of create_logger.py, which removes old *)
(* files behind everybody's back; keys expire.  A json is the version of    *)
(* its entity at the service, a file is whole or not.                       *)
(***************************************************************************)
EXTENDS Integers, Sequences, FiniteSets, Functions

CONSTANTS
    Threads, Processes,
    Dataset, Items,  \* one dataset and its items
    Size,            \* of each item's binary
    BinSize,         \* bin_cache_size
    Scenes,          \* what each thread does, where, and on which system
    MaxCrashes       \* bound: how many processes are killed

Entities == {Dataset} \cup Items
Changing == {"patch", "delete", "upload"}
Ops == [do : {"get", "patch", "delete"}, on : Entities]
         \cup [do : {"stream", "upload"}, on : Items]
Paths == {"file", "temp"} \X Items
SceneType == [prog : [Threads -> Seq(Ops)], proc : [Threads -> Processes], posix : BOOLEAN,
              expiries : Nat,      \* bound: how many keys expire
              old : SUBSET Paths]  \* the files that outlive the ttl

ASSUME EntityCacheAssumption ==
    /\ Dataset \notin Items /\ IsFiniteSet(Items)
    /\ Size \in [Items -> Nat \ {0}] /\ BinSize \in Nat /\ MaxCrashes \in Nat
    /\ \A s \in Scenes : s \in SceneType

VARIABLES
    scene,
    version,    \* the service: version of each entity, 0 once it is deleted
    obj,        \* version under the object key, 0 without one
    links,      \* link keys: <<"object", e>> and <<"binary", i>>
    stale,      \* expired links, still listed, whose value reads as None
    late,       \* entities whose object key is younger than their link
    expiries,
    file, temp, \* <bin_cache_path>/items/<name> and its .download: none, part, cut, whole
    config,     \* cacheConfig.json
    cache,      \* per process: CacheManger or None (FALSE)
    current,    \* per process: _current_bin_cache_size
    visit, doomed, \* per process: paths housekeeping has still to look at, and to remove
    rows,       \* per process: rows the shared sqlite cursor holds
    thread,     \* per thread: pc; the operation at hand; the version it was answered;
                \* the entity delete() is about, the keys above it and below it that are
                \* still to be visited; the config it read
    crashes,
    overtaken,  \* history: entities whose cached json nobody vouches for
    spoiled,    \* history: files with two writers, or copied in place
    unsettled   \* history: an update of the config was lost

clock == <<stale, late, expiries>>
keys == <<obj, links, clock>>
files == <<file, temp>>
sizes == <<config, current>>
sweep == <<visit, doomed>>
history == <<overtaken, spoiled, unsettled>>
vars == <<scene, version, keys, files, sizes, sweep, cache, rows, thread, crashes, history>>

Op(t) == scene.prog[t][thread[t].at]
Does(t, ops) == Op(t).do \in ops
On(t) == Op(t).on
Proc(t) == scene.proc[t]
At(t, labels) == thread[t].pc \in labels
Busy(t) == ~At(t, {"idle", "sent", "dead"})

NoConfig == [size |-> 0, keys |-> <<>>]
Torn == [size |-> -1, keys |-> <<>>]

Init ==
    /\ scene \in Scenes
    /\ version = [e \in Entities |-> 1]
    /\ obj = [e \in Entities |-> 0] /\ links = {}
    /\ stale = {} /\ late = {} /\ expiries = 0
    /\ file = [i \in Items |-> "none"] /\ temp = [i \in Items |-> "none"]
    /\ config = NoConfig
    /\ cache = [p \in Processes |-> FALSE] /\ current = [p \in Processes |-> 0]
    /\ visit = [p \in Processes |-> {}] /\ doomed = [p \in Processes |-> {}]
    /\ rows = [p \in Processes |-> {}]
    /\ thread = [t \in Threads |-> [pc |-> "idle", at |-> 1, ans |-> 0, target |-> Dataset,
                                    ups |-> {}, kids |-> {}, read |-> NoConfig]]
    /\ crashes = 0 /\ overtaken = {} /\ spoiled = {} /\ unsettled = FALSE

Goto(t, label) == thread' = [thread EXCEPT ![t].pc = label]
Answer(t, v) == thread' = [thread EXCEPT ![t] = [@ EXCEPT !.pc = "answered", !.ans = v]]
Reads(t, label, c) == thread' = [thread EXCEPT ![t] = [@ EXCEPT !.pc = label, !.read = c]]
Visits(t, label, e, ks) ==
    thread' = [thread EXCEPT ![t] = [@ EXCEPT !.pc = label, !.target = e, !.kids = ks]]
Lists(t, label, ks) == thread' = [thread EXCEPT ![t] = [@ EXCEPT !.pc = label, !.ups = ks]]
End(t) == thread' = [thread EXCEPT ![t] = [@ EXCEPT !.pc = "idle", !.at = thread[t].at + 1]]
-----------------------------------------------------------------------------
(* gen_request: the cache, then the service, then the cache. *)

\* build_cache when there is none, which starts the housekeeping, then read or
\* read_stream.  A stream never hits: read_stream asks for items/<id>/binary,
\* write_stream sets the link only.
Begin(t) ==
    LET p == Proc(t)
        builds == ~cache[p] /\ ~Does(t, {"upload"})
    IN
    /\ At(t, {"idle"}) /\ thread[t].at <= Len(scene.prog[t])
    /\ cache' = [cache EXCEPT ![p] = @ \/ builds]
    /\ current' = [current EXCEPT ![p] = IF cache[p] THEN @ ELSE 0]
    /\ visit' = [visit EXCEPT ![p] = IF builds THEN scene.old ELSE @]
    /\ IF Does(t, {"get"}) /\ obj[On(t)] # 0 THEN End(t) ELSE Goto(t, "sent")
    /\ UNCHANGED <<scene, doomed, version, keys, files, config, rows, crashes, history>>

\* Entities an operation changes at the service, and what it makes of them.
Scope(t) ==
    IF Does(t, {"delete"}) /\ On(t) = Dataset THEN Entities
    ELSE IF Does(t, Changing) THEN {On(t)} ELSE {}
Changed(t) ==
    [e \in Entities |->
        IF e \notin Scope(t) \/ version[e] = 0 THEN version[e]
        ELSE IF Does(t, {"delete"}) THEN 0 ELSE version[e] + 1]

\* Entities of which another thread holds an answer it has not cached, or not linked.
Overtakes(t) ==
    {e \in Scope(t) : \E u \in Threads \ {t} :
        /\ At(u, IF e = On(t) THEN {"answered"} ELSE {"answered", "link"})
        /\ On(u) = e /\ Does(u, {"get", "patch", "upload"})}

Serve(t) ==
    /\ At(t, {"sent"}) /\ version[On(t)] # 0
    /\ version' = Changed(t)
    /\ Answer(t, version'[On(t)])
    /\ overtaken' = overtaken \cup Overtakes(t)
    /\ UNCHANGED <<scene, sweep, keys, files, sizes, cache, rows, crashes, spoiled,
                   unsettled>>

\* The service refuses, or never hears of it, or does it and the answer is lost.
Refuse(t) ==
    /\ At(t, {"sent"})
    /\ \/ UNCHANGED <<version, overtaken>>
       \/ /\ version[On(t)] # 0 /\ version' = Changed(t)
          /\ overtaken' = overtaken \cup Scope(t)
    /\ End(t)
    /\ UNCHANGED <<scene, sweep, keys, files, sizes, cache, rows, crashes, spoiled,
                   unsettled>>

\* With the cache gone meanwhile, nothing is cached and nothing invalidated.
Skip(t) ==
    /\ At(t, {"answered"}) /\ ~cache[Proc(t)]
    /\ overtaken' = overtaken \cup Scope(t)
    /\ End(t)
    /\ UNCHANGED <<scene, sweep, version, keys, files, sizes, cache, rows, crashes,
                   spoiled, unsettled>>

\* CacheManger.write: the object key, then the link.
KeepOld(t) == IF obj[On(t)] = 0 THEN thread[t].ans ELSE obj[On(t)]
TakeAnswer(t) == thread[t].ans
Cached(t) == TakeAnswer(t)
SetObject(t) ==
    /\ At(t, {"answered"}) /\ cache[Proc(t)] /\ Does(t, {"get", "patch", "upload"})
    /\ obj' = [obj EXCEPT ![On(t)] = Cached(t)]
    /\ late' = late \cup {On(t)}
    /\ Goto(t, "link")
    /\ UNCHANGED <<scene, sweep, version, links, stale, expiries, files, sizes, cache,
                   rows, crashes, history>>

Link(k) == links' = links \cup {k} /\ stale' = stale \ {k}
SetLink(t) ==
    /\ At(t, {"link"})
    /\ Link(<<"object", On(t)>>)
    /\ late' = late \ {On(t)}
    /\ IF Does(t, {"upload"}) THEN Goto(t, "set_binary") ELSE End(t)
    /\ UNCHANGED <<scene, sweep, version, obj, expiries, files, sizes, cache, rows,
                   crashes, history>>
-----------------------------------------------------------------------------
(* CacheManger.invalidate and delete. *)

DeleteOwn(t) ==
    LET start == At(t, {"answered"})
        e == IF start THEN On(t) ELSE thread[t].target
    IN
    /\ (start /\ cache[Proc(t)] /\ Does(t, {"delete"})) \/ At(t, {"own"})
    /\ obj' = [obj EXCEPT ![e] = 0]
    /\ Visits(t, "list_parents", e, IF start THEN {} ELSE thread[t].kids)
    /\ UNCHANGED <<scene, sweep, version, links, clock, files, sizes, cache, rows,
                   crashes, history>>

\* DiskCache.list: execute, and later fetchall, on the one cursor of the process.  Below
\* an entity's own keys is also its object key, when another thread cached it again.
AllLinks(t) == links
LikePattern(t) ==
    LET e == thread[t].target IN
    IF At(t, {"list_parents"}) THEN {k \in links : k[2] = e}
    ELSE (IF obj[e] = 0 THEN {} ELSE {<<"own", e>>})
           \cup (IF e = Dataset THEN {k \in links : k[2] \in Items} ELSE {})
Matching(t) == LikePattern(t)
Crossed(t) == \E u \in Threads \ {t} : Proc(u) = Proc(t) /\ At(u, {"parents", "children"})
Execute(t) ==
    /\ At(t, {"list_parents", "list_children"})
    /\ rows' = [rows EXCEPT ![Proc(t)] = Matching(t)]
    /\ Goto(t, IF At(t, {"list_parents"}) THEN "parents" ELSE "children")
    /\ overtaken' = IF Crossed(t) THEN Entities ELSE overtaken
    /\ UNCHANGED <<scene, sweep, version, keys, files, sizes, cache, crashes, spoiled,
                   unsettled>>

Live == links \ stale

\* A key goes, a binary's file with its link.
Unlink(k) ==
    /\ links' = links \ {k} /\ stale' = stale \ {k}
    /\ obj' = [e \in Entities |-> IF k = <<"own", e>> THEN 0 ELSE obj[e]]
    /\ UNCHANGED <<late, expiries>>
    /\ file' = [i \in Items |-> IF k = <<"binary", i>> /\ k \in Live THEN "none" ELSE file[i]]

\* An exception on the way ends the handling of the cache, not the request.
DropCache(t) ==
    /\ cache' = [cache EXCEPT ![Proc(t)] = FALSE]
    /\ overtaken' = overtaken \cup Scope(t)
    /\ End(t)
Goon(t, label, ks) ==
    /\ Visits(t, label, thread[t].target, ks)
    /\ UNCHANGED <<cache, overtaken>>

\* _delete_parent: the entity's links below its parent, then the keys below its own.
Climbs(t, ks) == Lists(t, IF ks = {} THEN "list_children" ELSE "ups", ks)
FetchParents(t) ==
    /\ At(t, {"parents"})
    /\ rows' = [rows EXCEPT ![Proc(t)] = {}]
    /\ Climbs(t, rows[Proc(t)])
    /\ UNCHANGED <<scene, sweep, version, keys, files, sizes, cache, crashes, history>>

\* One of them goes.  isfile(None) raises before a binary's link is deleted, when it
\* expired or another thread deleted it after the listing.
VisitParent(t) ==
    /\ At(t, {"ups"})
    /\ \E k \in thread[t].ups :
         IF k[1] = "binary" /\ k \notin Live
         THEN DropCache(t) /\ UNCHANGED <<keys, file>>
         ELSE Unlink(k) /\ Climbs(t, thread[t].ups \ {k}) /\ UNCHANGED <<cache, overtaken>>
    /\ UNCHANGED <<scene, sweep, version, temp, sizes, rows, crashes, spoiled, unsettled>>

FetchChildren(t) ==
    /\ At(t, {"children"})
    /\ rows' = [rows EXCEPT ![Proc(t)] = {}]
    /\ Goon(t, "kids", thread[t].kids \cup rows[Proc(t)])
    /\ UNCHANGED <<scene, sweep, version, keys, files, sizes, crashes, spoiled,
                   unsettled>>

\* A child's link goes.  The object key it held is split at the backslash, which
\* deletes the child on Windows and raises elsewhere; a json never splits like that.
Raises(k) == k[1] = "own" \/ k \notin Live \/ (k[1] = "object" /\ scene.posix)
VisitChild(t) ==
    /\ At(t, {"kids"})
    /\ \E k \in thread[t].kids :
         /\ Unlink(k)
         /\ IF Raises(k) THEN DropCache(t)
            ELSE IF k[1] = "binary" THEN Goon(t, "kids", thread[t].kids \ {k})
            ELSE /\ Visits(t, "own", k[2], thread[t].kids \ {k})
                 /\ UNCHANGED <<cache, overtaken>>
    /\ UNCHANGED <<scene, sweep, version, temp, sizes, rows, crashes, spoiled,
                   unsettled>>

DeleteEnds(t) ==
    /\ At(t, {"kids"}) /\ thread[t].kids = {}
    /\ End(t)
    /\ UNCHANGED <<scene, sweep, version, keys, files, sizes, cache, rows, crashes,
                   history>>
-----------------------------------------------------------------------------
(* CacheManger.write_stream, after a download's answer or an upload's. *)

SetBinary(t) ==
    /\ (At(t, {"answered"}) /\ cache[Proc(t)] /\ Does(t, {"stream"})) \/ At(t, {"set_binary"})
    /\ Link(<<"binary", On(t)>>)
    /\ Goto(t, "is_file")
    /\ UNCHANGED <<scene, sweep, version, obj, late, expiries, files, sizes, cache,
                   rows, crashes, history>>

IsFile(t) ==
    /\ At(t, {"is_file"})
    /\ Goto(t, IF file[On(t)] = "none" THEN "open" ELSE "account")
    /\ UNCHANGED <<scene, sweep, version, keys, files, sizes, cache, rows, crashes,
                   history>>

\* A stream goes to <path>.download, an upload's buffer to the path itself.
Suffixed == {"stream"}
Direct == {}
ToTemp == Suffixed
Open(t) ==
    LET i == On(t)
        shared == \E u \in Threads : At(u, {"write"}) /\ On(u) = i
    IN
    /\ At(t, {"open"})
    /\ IF Does(t, ToTemp)
       THEN temp' = [temp EXCEPT ![i] = "part"] /\ UNCHANGED file
       ELSE file' = [file EXCEPT ![i] = "part"] /\ UNCHANGED temp
    /\ spoiled' = IF shared \/ Does(t, {"upload"}) THEN spoiled \cup {i} ELSE spoiled
    /\ Goto(t, "write")
    /\ UNCHANGED <<scene, sweep, version, keys, sizes, cache, rows, crashes, overtaken,
                   unsettled>>

\* The end is reached: of a stream also when the connection was closed early, whose size
\* nobody compares.  A stream's file is moved, which fails when it was moved or removed
\* by another, an upload's stays unless removed.  Two writers leave it whole or not.
Outcomes(t) ==
    {"whole"} \cup (IF On(t) \in spoiled THEN {"part"} ELSE {})
              \cup (IF Does(t, {"stream"}) THEN {"cut"} ELSE {})
Written(t) ==
    LET i == On(t)
        lost == (IF Does(t, {"stream"}) THEN temp[i] ELSE file[i]) = "none"
    IN
    /\ At(t, {"write"})
    /\ IF lost /\ file[i] = "none" THEN UNCHANGED file
       ELSE \E o \in Outcomes(t) : file' = [file EXCEPT ![i] = o]
    /\ temp' = IF Does(t, {"stream"}) THEN [temp EXCEPT ![i] = "none"] ELSE temp
    /\ IF lost /\ Does(t, {"stream"}) THEN End(t) ELSE Goto(t, "account")
    /\ UNCHANGED <<scene, sweep, version, keys, sizes, cache, rows, crashes, history>>

\* The stream breaks and the .download file is removed; a copy fails and stays.
Breaks(t) ==
    /\ At(t, {"write"})
    /\ temp' = IF Does(t, {"stream"}) THEN [temp EXCEPT ![On(t)] = "none"] ELSE temp
    /\ unsettled' = (unsettled \/ Does(t, {"upload"}))
    /\ End(t)
    /\ UNCHANGED <<scene, sweep, version, keys, file, sizes, cache, rows, crashes,
                   overtaken, spoiled>>

\* stat of a file that is gone, or a torn json: gen_request drops the cache.
Fail(t) ==
    /\ cache' = [cache EXCEPT ![Proc(t)] = @ /\ Does(t, {"upload"})]
    /\ End(t)

\* stat: a file that is not whole is shorter.
Bytes(i) == IF file[i] = "whole" THEN Size[i] ELSE Size[i] - 1

\* _update_config_file reads under one lock ...
Entered(c, i) ==
    [size |-> c.size + Bytes(i),
     keys |-> IF \E n \in DOMAIN c.keys : c.keys[n] = i THEN c.keys ELSE Append(c.keys, i)]
ReadConfig(t) ==
    /\ At(t, {"account"})
    /\ IF file[On(t)] = "none" \/ config = Torn
       THEN Fail(t) /\ unsettled' = TRUE
       ELSE Reads(t, "save", Entered(config, On(t))) /\ UNCHANGED <<cache, unsettled>>
    /\ UNCHANGED <<scene, sweep, version, keys, files, sizes, rows, crashes, overtaken,
                   spoiled>>

\* ... and writes under another.  A thread that read before loses this update.
Clash(t) == \E u \in Threads \ {t} : At(u, {"save", "evicting"})
WriteConfig(t) ==
    /\ At(t, {"save"})
    /\ config' = thread[t].read
    /\ current' = [current EXCEPT ![Proc(t)] = config'.size]
    /\ unsettled' = (unsettled \/ Clash(t))
    /\ Goto(t, "limit")
    /\ UNCHANGED <<scene, sweep, version, keys, files, cache, rows, crashes, overtaken,
                   spoiled>>

OverLimit(t) == Bytes(On(t)) + current[Proc(t)] > BinSize
FarOver(t) == current[Proc(t)] > 2 * BinSize
TooLarge(t) == OverLimit(t)
Limit(t) ==
    /\ At(t, {"limit"})
    /\ IF file[On(t)] = "none" THEN Fail(t)
       ELSE (IF TooLarge(t) THEN Goto(t, "evict") ELSE End(t)) /\ UNCHANGED cache
    /\ UNCHANGED <<scene, sweep, version, keys, files, sizes, rows, crashes, history>>

\* _lru_cache: the oldest files go until 70% are left, then the config is written.
ReadLru(t) ==
    /\ At(t, {"evict"})
    /\ IF config = Torn THEN Fail(t)
       ELSE Reads(t, "evicting", config) /\ UNCHANGED cache
    /\ UNCHANGED <<scene, sweep, version, keys, files, sizes, rows, crashes, history>>

Excess(c) == c.size * 10 > 7 * BinSize /\ Len(c.keys) > 1
Evict(t) ==
    LET c == thread[t].read
        i == Head(c.keys)
    IN
    /\ At(t, {"evicting"}) /\ Excess(c)
    /\ IF file[i] = "none" THEN Fail(t)
       ELSE /\ Reads(t, "evicting", [size |-> c.size - Bytes(i), keys |-> Tail(c.keys)])
            /\ UNCHANGED cache
    /\ file' = [file EXCEPT ![i] = "none"]
    /\ UNCHANGED <<scene, sweep, version, keys, temp, sizes, rows, crashes, history>>

WriteLru(t) ==
    /\ At(t, {"evicting"}) /\ ~Excess(thread[t].read)
    /\ config' = thread[t].read
    /\ unsettled' = (unsettled \/ Clash(t))
    /\ End(t)
    /\ UNCHANGED <<scene, sweep, version, keys, files, current, cache, rows, crashes,
                   overtaken, spoiled>>
-----------------------------------------------------------------------------
\* The ttl of a key is over: it is not found any more, a link is listed until diskcache
\* culls it.  A link that was set after its object key expires after it.
Expire ==
    /\ expiries < scene.expiries /\ expiries' = expiries + 1
    /\ \/ \E e \in Entities :
            obj[e] # 0 /\ obj' = [obj EXCEPT ![e] = 0] /\ UNCHANGED <<links, stale>>
       \/ \E k \in Live :
            /\ k[1] = "object" => obj[k[2]] = 0 \/ k[2] \in late
            /\ stale' = stale \cup {k}
            /\ UNCHANGED <<obj, links>>
    /\ UNCHANGED <<scene, sweep, version, late, files, sizes, cache, rows, thread,
                   crashes, history>>

Cull ==
    /\ \E k \in stale : links' = links \ {k} /\ stale' = stale \ {k}
    /\ UNCHANGED <<scene, sweep, version, obj, late, expiries, files, sizes, cache,
                   rows, thread, crashes, history>>
-----------------------------------------------------------------------------
(* clean_dataloop_cache_thread: files are judged by their age, then removed. *)

\* A thread that writes the file keeps it young.
Writes(t, k) == At(t, {"write"}) /\ On(t) = k[2] /\ (k[1] = "temp") = Does(t, {"stream"})
Held(k) == \E t \in Threads : Writes(t, k)
Judge(p) ==
    \E k \in visit[p] :
      /\ (IF k[1] = "file" THEN file ELSE temp)[k[2]] # "none" /\ ~Held(k)
      /\ visit' = [visit EXCEPT ![p] = @ \ {k}]
      /\ doomed' = [doomed EXCEPT ![p] = @ \cup {k}]
      /\ UNCHANGED <<scene, version, keys, files, sizes, cache, rows, thread, crashes,
                     history>>

\* It may be another file of that name by now.  An open file stays on Windows.
Remove(p) ==
    \E k \in doomed[p] :
      /\ doomed' = [doomed EXCEPT ![p] = @ \ {k}]
      /\ IF Held(k) /\ ~scene.posix THEN UNCHANGED files
         ELSE IF k[1] = "file"
         THEN file' = [file EXCEPT ![k[2]] = "none"] /\ UNCHANGED temp
         ELSE temp' = [temp EXCEPT ![k[2]] = "none"] /\ UNCHANGED file
      /\ UNCHANGED <<scene, visit, version, keys, sizes, cache, rows, thread, crashes,
                     history>>
-----------------------------------------------------------------------------
\* A process is killed; while it writes the config, the file is empty.
Crash(p) ==
    LET mine == {t \in Threads : Proc(t) = p}
        midway == {t \in mine : Busy(t)}
    IN
    /\ crashes < MaxCrashes /\ crashes' = crashes + 1
    /\ thread' = [t \in Threads |-> IF t \in mine THEN [thread[t] EXCEPT !.pc = "dead"]
                                    ELSE thread[t]]
    /\ \/ UNCHANGED config
       \/ (\E t \in mine : At(t, {"save", "evicting"})) /\ config' = Torn
    /\ overtaken' = overtaken \cup {On(t) : t \in midway} \cup UNION {Scope(t) : t \in midway}
    /\ unsettled' = (unsettled \/ midway # {})
    /\ visit' = [visit EXCEPT ![p] = {}] /\ doomed' = [doomed EXCEPT ![p] = {}]
    /\ UNCHANGED <<scene, version, keys, files, current, cache, rows, spoiled>>

Step(t) ==
    \/ Begin(t) \/ Serve(t) \/ Refuse(t) \/ Skip(t) \/ SetObject(t) \/ SetLink(t)
    \/ DeleteOwn(t) \/ Execute(t) \/ FetchParents(t) \/ VisitParent(t) \/ FetchChildren(t)
    \/ VisitChild(t) \/ DeleteEnds(t) \/ SetBinary(t) \/ IsFile(t) \/ Open(t) \/ Written(t) \/ Breaks(t)
    \/ ReadConfig(t) \/ WriteConfig(t) \/ Limit(t) \/ ReadLru(t) \/ Evict(t) \/ WriteLru(t)

Over(t) == At(t, {"dead"}) \/ (At(t, {"idle"}) /\ thread[t].at > Len(scene.prog[t]))
Done == (\A t \in Threads : Over(t)) /\ UNCHANGED vars

Next ==
    \/ \E t \in Threads : Step(t)
    \/ \E p \in Processes : Judge(p) \/ Remove(p) \/ Crash(p)
    \/ Expire \/ Cull \/ Done
Spec == Init /\ [][Next]_vars
-----------------------------------------------------------------------------
(* Requirements. *)

\* Once a change of an entity is over, what the cache has for it is what the service
\* has, also when other threads and processes change its neighbours, fail, or drop
\* their cache: a deleted entity is not found again and an update is not undone.  The
\* only ways to a stale hit are an answer older than the change cached after it, a
\* change whose answer was lost, and an invalidation that was cut short.
FreshUnlessOvertaken ==
    \A e \in Entities \ overtaken :
      (\A t \in Threads : Busy(t) => e \notin Scope(t)) => obj[e] \in {0, version[e]}

\* A cached item can be found from its dataset, so that the deletion of the dataset
\* reaches it, with the same exceptions.
LinkedUnlessOvertaken ==
    \A e \in Entities \ overtaken :
      obj[e] # 0 =>
        \/ <<"object", e>> \in Live
        \/ \E t \in Threads : Busy(t) /\ ((At(t, {"link"}) /\ On(t) = e) \/ e \in Scope(t))

\* A reader of the binary cache meets half a file only when the connection of its one
\* stream was closed early without an error, when two threads wrote it at once or when an
\* upload copied its buffer in place: never because a download is under way, breaks or
\* dies, or because evictions, deletions and the housekeeping interleave with it.
WholeUnlessSpoiled == \A i \in Items \ spoiled : file[i] \in {"none", "whole", "cut"}

\* When no binary is being stored the files fit into bin_cache_size, or one is left,
\* unless an update of cacheConfig.json was lost or a listed file vanished: no
\* sequence of downloads, repeated or not, lets the cache grow past its limit.
Present == {i \in Items : file[i] # "none"}
TotalSize(S) == FoldFunctionOnSet(+, 0, [i \in Items |-> Bytes(i)], S)
BoundedUnlessLost ==
    (/\ \A t \in Threads : Busy(t) => ~Does(t, {"stream", "upload"})
     /\ ~unsettled
     /\ \A n \in DOMAIN config.keys : config.keys[n] \in Present)
    => TotalSize(Present) <= BinSize \/ Cardinality(Present) <= 1
=============================================================================
