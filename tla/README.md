# A TLA+ model of dtlpy

dtlpy is the Python SDK of the Dataloop platform: a client library that moves
items and annotations between a machine and a remote service, caches what it
fetched, keeps its login in a shared cookie file, and polls long running jobs.
The service is remote and not part of the repository; what is worth verifying is
the client's own concurrency: a thread with an asyncio loop, a dozen thread
pools, several processes on one home directory, retries over a network that loses
answers, and caches that may be older than what they cache.

## 1. The system

Every path is relative to `src/dtlpy/`.

| component | state it keeps | operations | how it interacts |
|---|---|---|---|
| Uploader (`repositories/uploader.py`, `upload_element.py`) | queue of futures, per element coroutine, reporter | upload, one coroutine per element with retries | schedules on the client's event loop, shares the `items.upload` semaphore, posts to the service, reports |
| Downloader (`repositories/downloader.py`) | job list, files on disk, reporter | download, existence check, thread wrapper with retries, annotations | runs in the `item.download` pool, reads the binary cache, writes `.download` files and renames them |
| Reporter (`services/reporter.py`) | four dictionaries in RAM, three disk caches, a mutex | set_index, _write_to_disk, counters, log file | called from every worker of uploads, downloads and conversions |
| API client (`services/api_client.py`) | settings, token, event loop, pools, session | gen_request, async requests, token refresh, pools, environments | everything calls it; it reads and writes the cookie and the entity cache |
| Cookie and settings (`services/cookie.py`, settings classes of `api_client.py`) | one json file per home directory | put, get, reset, create | shared by all threads and all processes of a user |
| Calls counter (`services/calls_counter.py`) | a number in a json file | add, reset, on/off | incremented after every request by every process |
| Retry client (`services/aihttp_retry.py`) | attempt number, last response | one request with retries | used by every async request |
| Event loop (`services/async_utils.py`) | the loop's thread, named semaphores | semaphore, run, stop | created and replaced by the API client |
| Events (`services/events.py`) | a queue | put, run | a daemon thread that sends through gen_request |
| Entity cache (`caches/*.py`) | entities with parent/child keys, binary files, a json config | get, set, delete, invalidate, read_stream, write_stream, LRU | filled and invalidated by gen_request, by uploads and by downloads |
| Paged entities (`entities/paged_entities.py`) | page window, results | iteration, get_page, all, go_to_page | pages fetched by the `item.page` pool |
| Commands (`repositories/commands.py`) | the last command | wait with backoff and timeout, abort | polled by clone, export, delete and others |
| Executions (`repositories/executions.py`) | the last execution | wait, progress_update, increment, rerun, terminate | polled by services and users |
| Annotations repository (`repositories/annotations.py`) | batches, per batch result | upload in batches, async upload, update, delete | pool `annotation.upload`, semaphore `annotations.upload` |
| Datasets repository (`repositories/datasets.py`) | - | upload/download of annotations, clone, sync, checkout | pools, commands, downloader |
| Client pools (`services/api_client.py`, `thread_pools`) | one pool per name, each with a queue and workers | hand out, replace, shut down | every repository submits jobs to them; jobs may submit further jobs |
| Pipelines and nodes (`repositories/pipelines.py`, `entities/pipeline.py`, `entities/node.py`) | composition, settings, status | update, install, pause, reset, execute | remote composition |
| Services repository (`repositories/services.py`) | logs cursor, service status | deploy, log, pause, resume, cache actions, execute | polls execution and service status |
| Service runner (`utilities/base_package_runner.py`) | threads to terminate | _terminate, kill_event | threads of one service process |
| Model adapter (`ml/base_model_adapter.py`) | one model entity, one set of weights, data directories | train_model, evaluate_model, load, save, predict | executions of the runner's threads; artifacts and status of models at the service |
| Converters (`utilities/converter.py`) | progress, checkpoints, labels | dataset and item conversion from and to COCO, YOLO, VOC | thread pool, reporter, uploader, downloader |
| Log housekeeping (`services/create_logger.py`, `services/check_sdk.py`) | files below `~/.dataloop` | removal by age and size, version check | background daemon threads; the entity cache starts one on its own files |
| Video frames and reflecting dictionary (`entities/annotation.py`, `entities/reflect_dict.py`) | key frames of one annotation, copies of them at frames that were read | add_frame, set_frame, get, set, keys, to_json, from_json | used by annotation collections |
| Metrics (`ml/metrics.py`) | match matrix | greedy matching of annotations | used by scoring of models |
| Logins (`services/logins.py`) | - | login, login_secret, logout | token and refresh token of the API client |
| Other repositories (`repositories/*.py`) and entities (`entities/*.py`) | json of one entity | create, get, list, update, delete as single requests | gen_request |
| CLI, examples and assets (`dlp/`, `examples/`, `assets/`) | - | parsing, printing, templates | call the library |

### How the parts interact

```
 caller's thread ----schedules----> event loop thread (one per client)
   |      |                            | coroutines: one per element / batch
   |      +--submits--> thread pools   |     each: semaphore -> request -> answer
   |                    item.download  |
   |                    annotation.upload (jobs submit jobs to the same pool)
   |                            |      |
   |                            v      v
   +-------------------->  Reporter (dictionaries in RAM, disk caches)
   |
   +--> gen_request --> token check --> renewal --> cookie file  <-- other processes
                    \-> entity cache (json config and binary files) <-- other processes
```

No component of the client has a lock that covers an operation from beginning to
end. The locks there are cover one file access (`cookie.py`), one flush
(`reporter.py`) or one pool's own queue, and everything between two of those is
open to other threads, to other processes and to a kill. That is what the modules
are about.

### What is hard, and what makes each component correct

- **Uploader.** A request is sent again after a lost answer, and the service may
  have done its part: the second answer then says `skip`. A truncated item is
  noticed by the client and deleted by the next step of the same coroutine, while
  another element of the same path may have been told of it already. A coroutine
  may leave the semaphore's block by an exception, and the reporter moves what it
  knows to disk in the middle of a call. *Correct* means: what is reported as a success
  is in the dataset and intact; the element that wrote an item also tries to send its
  annotations; no permit and no temporary directory is lost; `upload()` returns after
  all it scheduled, and says so if one failed.
- **Downloader.** The list is counted before it is read and the job list is sized
  by the count. Two items may have one local path. A kill leaves half a
  `.download` file, and a later call skips what exists. *Correct* means: nobody
  ever finds half a file at an item's path; a reported download is the item; no
  temporary file stays; without `overwrite` nothing that exists is touched; the call
  waits for its jobs.
- **Annotation upload.** Jobs of a pool submit jobs to the pool and wait, and the
  pool is shared by all users of the client and shut down by one of them.
  *Correct* means: a call that returned left nothing behind, and every call ends.
- **Reporter.** `set_index` makes up to four dictionary writes outside the mutex
  under which another thread counts, pushes and clears, to a disk cache whose rows
  expire. *Correct* means: a flush loses nothing for one writer, nothing is counted twice
  for several, and every call returns.
- **Cookie and calls counter.** Reads and writes are locked one by one, creation
  looks at the directory and the size of the file without the lock, and opening empties
  the file.
  *Correct* means: a half written file is seen by nobody unless a process died, a
  value that was put stays unless a write raced with another, nobody is blocked.
- **Token.** Renewal clears the refresh token and gives it back a few writes later;
  every write saves the whole dictionary to a cookie shared by processes; a flag
  remembers that renewal is hopeless; some logins bring no refresh token at all.
  *Correct* means: renewals do not lose the refresh token, the cookie never mixes two
  logins, and expiry alone does not end a session that has one.
- **Waits.** Time passes inside a poll and inside a sleep, the job moves in between.
  *Correct* means: the caller is told the truth, in time, and the wait ends.
- **Requests.** A try may be done although its answer is lost, and a connection may
  break at any point. Three clients try again, each by its own list of outcomes, and
  the synchronous one by an adapter that is mounted on a session other threads can
  already see. *Correct* means: success is true, the caller is told once, nothing is
  sent more often than allowed, and nothing is given up early.
- **Entity cache and gen_request.** An answer is cached after a deletion invalidated
  it; an invalidation visits many keys and may raise half way; the json config of the
  binary cache is read under one lock and written under another; a key is set before
  its file is there. *Correct* means: a hit is what the service has; what is cached is
  reachable from its parent; a file is whole; the sizes fit.
- **Paging.** `all()` and the iterators share the window of one object, and the list
  moves between two pages. *Correct* means: every entity once, and every loop ends.
- **Model adapter and service runner.** Executions are threads that share one adapter;
  termination is signalled by thread id, and a thread goes on to other executions; data
  directories outlive a failure. *Correct* means: what is uploaded belongs to the model
  it is uploaded to and was trained on all its own data and no other, the status of a
  model tells how its training ended, and only what was meant is interrupted.

## 2. Modules

Each module has its state as variables, one action per handler or per piece of a
handler between two points at which another actor can step in, a `FairSpec` where
liveness is checked, and its requirements at its end. The `MC` modules hold only the
constants' values. Operators such as `DropTemp` next to `KeepTemp`
name the alternatives of a decision that the code takes one way; the module uses
the one the code takes, and the other is what the check of the properties'
sensitivity substitutes for it (PROJECT.json, "mutants").

### Upload (`repositories/uploader.py`)

| state | code |
|---|---|
| `mode`, `sizeOf` | option of `upload()`: skip or overwrite an item that exists; the size of each element's file or buffer |
| `main`, `next`, `drain` | the calling thread: building elements, then `futures.popleft().result()` |
| `pc`, `attempt` | where the coroutine `__upload_single_item_wrapper` of an element is; `i_try` |
| `sem` | free permits of the semaphore `items.upload` |
| `temp` | directory a url was fetched to |
| `dataset`, `owner` | the service: the item at each remote path, its version and its size; who wrote it last (history) |
| `answer` | response the coroutine resumes with |
| `annotated` | whether an element's annotations were handed over, or their failure logged (history) |
| `outcome`, `successOf`, `statusOf` | conclusion of each element; `Reporter._success`, `_status` |
| `flushed` | the elements that had concluded when these two were last flushed (history) |

Actions: `Submit`, `BuildFails`, `StartDraining`, `DrainOne`, `Return` are the thread;
`Start` (semaphore, url), `FailLocally`, `Send`, `Import` (external item by one
request), `Resume` (the size check, which compares the item with the element's *own*
size whoever wrote it, deletion, exception), `Annotate` (whose failure is logged) are a
coroutine; `Handle` is the service. `File` is the entry in the reporter with the flush
that follows more than `CHUNK` of them, after which `upload()`, which reads the memory
alone, knows nothing of what concluded before. The loop is one thread, so everything
between two awaits is one step; the clean-up of a try (`finally`) and the report are
part of the step they belong to. The service is external and does what the client relies
on; whether it acts, what it stores, and whether the answer arrives are free. The
reporter's key of a success is the item's id in the code and its path here.

### Download (`repositories/downloader.py`)

| state | code |
|---|---|
| `scene` | kinds of the list entries, their local paths, which are annotated, `items_count`, `overwrite`, the SDK cache |
| `main`, `next`, `i_item`, `jobs`, `drain` | the walk over the pages, the job list sized by the count, the wait in `finally` |
| `pc`, `try`, `pos` | job of an item: `__thread_download_wrapper` around `__thread_download`; chunks written |
| `fd`, `temp`, `final` | the open file; the files at `<path>.download` and `<path>`, chunk by chunk |
| `drew`, `status`, `crashes` | annotations on disk; `Reporter._status`; kills so far |

Actions: `Visit`, `StopListing`, `Drain`, `Return` are the thread (the submission
beyond the list's end included: the job runs, the assignment raises and the walk is
over); `Start` to `Draw` are one job, with a step per chunk, because two jobs may
write one file; `Crash` kills the process and makes the same call again on the disk
it left. A descriptor follows its file through rename and removal, as POSIX has it.

### AnnotationPool (`repositories/datasets.py`, `annotations.py`, `services/api_client.py`)

| state | code |
|---|---|
| `current`, `made` | `_thread_pools['annotation.upload']`; pools made so far |
| `shut`, `queue`, `running` | a pool: shut down, `_work_queue`, jobs that hold a worker |
| `call`, `poolOf` | `upload_annotations` of a caller; the pool it, or an item's job, was handed |
| `task`, `submitted`, `sent` | `Annotations.upload` of one item; its batches |

`GetPool`/`GetPoolAgain` take the test and the replacement in `thread_pools` as two
steps, `SubmitItem`/`SubmitBatch` raise once the pool is shut, `Shutdown` and
`Return` are `pool.shutdown()`, `Take` is a worker (it goes on emptying the queue of
a pool that is shut down).

### Reporter (`services/reporter.py`)

`ram` (`_errors`, `_status`, `_output`), `succ`/`fail` (`_success`), `disk` (the three
caches and two counters), `timed` (the counters that have an expiry), `gone` (what
expired, history), `mutex`, `built` (`_reports`), `numTrue` (the local of
`_write_to_disk`), and per worker `at`, `todo`. One action per dictionary access of
`set_index` (`Enter`, `WriteError`, `WriteStatus`, `WriteSuccess`, `WriteOutput`,
`Check`) and of the flush (`Lock`, `Count`, `Incr`, `Clear`, `Push`, `ClearDict`,
`Unlock`), because none of them excludes the others' writes. `Expire` takes a pushed row
or a counter away: `DiskCache.push` and `add` give each 1000 seconds. A counter that
`incr` starts again has no expiry.

### Cookie (`services/cookie.py`, `services/calls_counter.py`)

`made` (the directory exists), `file` (absent, empty, torn or json with its keys),
`lock`, per actor `pc`, `todo` and the locals `cfg`, `tries`, `count`. `LookDir`,
`MakeDir`, `Check`, `Open`, `Close`, `Verify`, `ReadFails`, `Get`, `ReadForPut` are the
pieces of `create`, `read_json`, `get` and `put` between lock operations; `MakeDir`
raises when the directory was made by another since `LookDir`. The calls counter is the
same code on a file of its own: `Add` is `CallsCounter.add`, `load` is a `get` that
saves the default if there is none, and `Changed` is what `add`, `reset`, `on`, `off`
and `on_exit` do to the numbers before `save` puts them. Threads of one process call
`add` under a lock of `api_client.py` and are one actor there. `Crash` kills an actor
and the operating system frees its lock. `version`, `base`, `last`, `adds` and `raced`
are history variables: no guard reads them.

### Token (`services/api_client.py`, `services/logins.py`)

`token` (`_token`), `env` (`_environments`), `active` (`refresh_token_active`) per
process, `cookie` shared; per thread `pc` and the assignments it has still to make
(`script`: the setters of `token` and `refresh_token`, write by write, in the order
of the code). `Check`, `Renew`, `Lower`, `Test`, `Post`, `Send` are
`token_expired_decorator`, `renew_token` and `_renew_token_with_refresh_token`;
`Login` is the forced `login_secret`, whose answer may have no refresh token, in which
case the last setter is not called (`NoMore`); `login_token` is the same. `Expire` lets
time pass, `Crash` kills a process. A token is its user and the epoch it is good for. The
histories `bare` and `refused` say whether the last login, or the first state, left no
refresh token, and whether the service refused anything since.

### Waits (`repositories/commands.py`, `repositories/executions.py`)

`kind` and `timeout` (the call), `state` and `reruns` (the job at the service),
`now`, `elapsed`, `tries`, `seen`, `slept`, `result`. `Loop`, `Get`, `GetFails`,
`SleepCommand`, `SleepExecution`, `Conclude` are the loops; `Progress` and `Rerun`
are the job. Time is in whole seconds.

### Requests and AtLeastOnce (`services/api_client.py`, `services/aihttp_retry.py`)

`AtLeastOnce` is the abstract specification: `told` (what the caller was told) and
`applied` (how often the service did it), and two actions, `Apply` and `Tell`, with
the weak fairness that the caller is told. `Requests` is the code.

| state | code |
|---|---|
| `kind` | `gen_request`, `gen_async_request` or `upload_file_async` |
| `session`, `mounted`, `bare` | `self.session`; the adapter on it; requests that took a session without |
| `tries`, `last` | `_current_attempt`, or the count of urllib3's `Retry`; status or exception of the last try |
| `flying`, `applied` | tries the service has yet to see; how often it did it |
| `told`, `raced` | what the caller gets; history of the race of `send_session` |

`CheckSession`, `MakeSession`, `Mount`, `Send` are `send_session` statement by
statement; `Retry`, `Respond`, `Raise` the decision after a try; `Answer`, `NoAnswer`
and `Arrive` the service and the network. `Requests` implements `AtLeastOnce` under
the mapping that leaves `told` and `applied` as they are and maps `most` to the number
of tries of the request's client.

### EntityCache (`services/api_client.py`, `caches/cache.py`, `caches/dl_cache.py`)

| state | code |
|---|---|
| `version` | the service: version of each entity, 0 once it is deleted |
| `obj`, `links` | object keys with the version they hold; link keys below the parents |
| `stale`, `late` | links that expired but are listed; object keys younger than their links |
| `file`, `temp`, `config` | binary files (none, part, cut or whole), their `.download` files, `cacheConfig.json` |
| `cache`, `current`, `rows` | per process: `self.cache`, `_current_bin_cache_size`, the rows of the one sqlite cursor |
| `visit`, `doomed` | per process: paths housekeeping has to look at, paths it judged old |
| `thread` | pc, answer, entity `delete` is at, links above and below it that were listed, config read |
| `overtaken`, `spoiled`, `unsettled` | history: what broke the promise of each property |

`Begin` is the lookup (with `build_cache`), `Serve`/`Refuse` the service, `Skip` the
second `_cache_on`; `SetObject`, `SetLink` are `write`; `DeleteOwn`, `Execute`,
`FetchParents`, `VisitParent`, `FetchChildren`, `VisitChild` are `invalidate` and the
recursive `delete`, key by key; `SetBinary` to `Limit` are `write_stream`, in which
`Written` moves into place what came of the stream, all of it or, when the connection was
closed early without an exception, a part (`cut`); `ReadConfig`/`WriteConfig` being
`_update_config_file`; `ReadLru`, `Evict`, `WriteLru` are `_lru_cache`; `DropCache` and
`Fail` are the exception handlers that set `self.cache = None`. `Expire` is the ttl of
`DiskCache.set`, `Cull` what diskcache does with expired rows, of which the raw query of
`list` knows nothing. `Judge` and `Remove` are `clean_dataloop_cache_thread` of
`create_logger.py`, a thread that every construction of the cache starts.

### Paging (`entities/paged_entities.py`, `repositories/items.py`)

`window` is the object (offset, items, `has_next_page`, counts); `at`, `page`,
`answer`, `got` a loop over it; `gen` the locals of `all()`; `job` the jobs of the pool;
`remote` the list at the service, which `Publish` and `Withdraw` change. `BeginPages`,
`BeginReversed`, `BeginAll`, `Yield`, `Turn`, `Leave` are the loops; `Ask`, `Answered`
or `Refused`, `Land` (`process_result`) and `Show` (`self.items = items`) are `get_page`,
and `JobAnswered`, `JobLands` the same in the pool; `Submit`, `Take`, `NotYet`,
`AllRaises`, `PassEnds` are one pass of `all()` over its list of jobs, in which
`jobs.remove` makes the enumeration miss one.

### Training (`ml/base_model_adapter.py`, `utilities/base_package_runner.py`)

`prog`, `at`, `nth`, `run` are the threads, their executions and the locals of
`train_model`; `entity`, `weights` the adapter; `local`, `status`, `artifacts`,
`predictions` the model objects and the service; `dir` the data directories, and whose
data is in each; `terminated` is `_threads_terminated`; the rest is history. `GetModel`
is the `models.get` of a model that came as a dict, before the `try`; `Update` is
`model.update()` wherever it is called, `SetEntity`/`Load` are `load_from_model`; `Pass`,
`Direct`, `Prepare`, `Download`, `Fill`, `Convert` are `prepare_data`, the first three
being its three reads of `self.model_entity` (the data set that is passed, the directory,
the filters); `Train`, `Save`/`Upload` are `save_to_model` with `Artifacts.upload`,
`Predict`/`Name` `predict_items`; `Fail` makes any of these calls raise, before or after
its effect, and `Raised` is the `except` clause. `Terminate` and
`KillEvent` are the runner, `Decide` the platform, `Kill` the end of the process.

### Composition

Each `...Proofs` module extends its component, and three of them a second one that the
first works with: `UploadProofs` also Reporter, `AnnotationPoolProofs` also Requests,
`TrainingProofs` also Waits. These second ones name their initial states, next-state
relations and specifications with a prefix (`Rp`, `Rq`, `Wt`), so that one module can
extend both. Upload contains the semaphore of the
event loop and the reporter's success and status as the uploader sees them, up to and
after a flush;
`Reporter` is its own module since its races need its own granularity and only
downloads and conversions file from several threads. `Token` writes the cookie in one
step; that each such write is a read and a write is `Cookie`'s subject. What `Upload`,
`EntityCache` and `Paging` assume of one request (done and answered, done and not
answered, not done) is what `AtLeastOnce` promises of it. `Training` composes the
adapter with the runner whose threads use it.

## 3. What is checked

`tlc -config <cfg> <module>` in this directory runs one of them; the largest takes
about two minutes.

### Passing runs

| run | instance | properties |
|---|---|---|
| `upload` | `MCUpload` | `PermitsConserved`, `SuccessIsIntact`, `WriterAnnotates`, `ReturnMeansReported`, `Terminates` |
| `download` | `MCDownload` | `NeverPartial`, `DownloadIsItem`, `NoTempLeft`, `AllWaited`, `AnnotationsToo`, `KeepsFiles`, `Terminates` |
| `annotation_pool` | `MCAnnotationPool` | `ReturnIsQuiet`, `EndsWithSpareWorker` |
| `reporter` | `MCReporter` | `Conserved`, `NoneCountedTwice`, `AllReturn` |
| `cookie` | `MCCookie` | `DamageNeedsCrash`, `KeptUnlessRaced`, `AllEnd` |
| `token` | `MCToken` | `RefreshKept`, `CookieIsOneLogin`, `SessionSurvivesExpiry` |
| `waits` | `MCWaits` | `HonestResult`, `Punctual`, `Ends` |
| `requests` | `MCRequests` | `GivesUpLate`, `KeepsPromise` |
| `entity_cache` | `MCEntityCache` | `FreshUnlessOvertaken`, `LinkedUnlessOvertaken`, `WholeUnlessSpoiled`, `BoundedUnlessLost` |
| `paging` | `MCPaging` | `NoneTwice`, `NoneSkipped`, `RoomUnlessGrown`, `LoopsEnd` |
| `training` | `MCTraining` | `OwnWork`, `WholeData`, `EndIsTold`, `InterruptedIfMeant` |

Type invariants are not among them: where a module has a proof its `TypeOK` is a
theorem (section 4).

**upload** shows that, whatever the service does with each request and whichever
answers are lost, a reported success is intact, the writer of an item annotates it or
says that it could not, the permits come back and the call ends. Three elements: two
urls to one path, of one size or of two, so that one can meet, overwrite, delete or be
refused because of the other's item, and an external file, which takes the blocking
path. A url that is read into memory behaves like a local file, so the third kind is
there as well. Two permits leave one element waiting; with three nobody would wait, with
one nobody would interleave. Two tries (the code's `NUM_TRIES` is 5) give a first, a retry
and a last one; tries three and four differ from the second in nothing the model can
see. A chunk of 1 makes the reporter flush after the second entry, before the call is
over. The first path begins with nothing, a smaller or a whole item, the second with
nothing or, when the first has nothing, an item.

`SuccessIsIntact` is about what the code can promise when two elements have one path.
In mode `skip`, if their sizes are the same, a success of one of them stays intact,
whatever the other does. If the sizes differ the size check of the one deletes the intact
item of the other (section 6), and in mode `overwrite` an element may truncate what
another finished: there the promise is made for the path when all its elements succeeded,
and the item then has the size of one of them. External files are left out because no
size check follows their import. `ReturnMeansReported` says what `upload()` knows when it
returns: whether an element failed *since the last flush*. `Annotate` may fail, and
`WriterAnnotates` says that it was tried.

**download** shows what the disk holds at every moment, also after a kill. Three
entries in eight scenes (a folder among them; a url and a dataset that grew by one
after it was counted; two items with one local path; the SDK cache; each with and
without `overwrite`), every subset of files already there. Two chunks are the fewest
for which a file can be half written, two workers the fewest for which two jobs
meet, two tries as above, one kill because a second finds a disk the first can
already leave.

`NeverPartial`, `DownloadIsItem` and `KeepsFiles` are about items that share
their path with no other and are saved by renaming (`Alone`). The other cases make
no such promise in the code: two items with one local path can leave a file with
chunks of both when their sizes agree, a copy from the SDK cache writes the final
path in place, and a url item is neither found nor size checked. They stay in the
scenes because `NoTempLeft`, `AllWaited`, `AnnotationsToo` and `Terminates` do hold
of them. `AllWaited` lets one job escape when the dataset grew: the one whose index
was out of range.

**annotation_pool** shows that a call that returned left no job of its items behind,
and that everything ends while fewer items of several batches than workers are under
way. Two callers with one client and three items, one of them with up to three
batches; two workers per pool. The run has `CHECK_DEADLOCK FALSE` because one scene
is the system's real deadlock (next table); `EndsWithSpareWorker` asks for progress
in the others. `ReturnIsQuiet` excepts a batch that sits in a pool another caller
uses: that pool is shut down by the other one and this call does not wait for it.

**reporter** has a chunk of 1 so that every dictionary overflows: one worker with
seven actions passes each flush path, three workers with one action each put two
writers past the entry while the third flushes, and two with two each flush again and
again. Every row and counter on disk may expire
at any time; both properties count what is `gone`, so that `Conserved` says that expiry
is the only loss. It is for one writer (all that an upload has: the loop's thread); with
several, entries can be lost between a push and a clear, and `NoneCountedTwice` is what is
left.

**cookie** has a scene for each file the code keeps this way: the user's cookie, with
two processes that start and put different keys and one that starts and reads; the
state of a working directory, which nobody creates at the start; and the calls
counter, switched on, counted, reset and switched off by two processes, or started by
a third in between. The directory is there or not, and of two that start in its absence
one may raise: `DamageNeedsCrash` says that no other start does while nobody died. Three
tries as in the code, at most one kill. Three actors are
the fewest for a write that overtakes a write that overtook. `KeptUnlessRaced` uses
the history variable `raced`: it says that overtaking and dying are the *only* ways
to lose a value.

**token** has three scenes (two threads of one process that renew at once; two processes
of which one logs in as somebody else and out; one thread that logs in and outlives
expirations), each beginning with a refresh token or without, two expirations (a renewal
that is itself overtaken by the next expiration), refusals, logins without a refresh
token and one kill. It has no liveness property and so no fairness.
`SessionSurvivesExpiry` says that a thread alone is asked to log in only when its
session has no refresh token (`bare`) or the service refused something (`refused`).
`RefreshKept` and `CookieIsOneLogin` leave out a login in one thread next to a renewal
in another thread of the same process: the code mixes them (section 6).

**waits** has both waits with no, an endless, a short and a long timeout; answers
that take nothing, a second, or longer than the short timeout; an abort at any time;
one rerun. 5 lets an answer of 7 jump over the deadline; 80 lets the backoff reach
its cap of 30. `Punctual` says that a wait outlives its timeout by one answer at most.
`HonestResult` is what a caller may conclude from the result, and it names the three cases
in which the code does not keep its own docs: `OutOfPolls` (an execution is asked eighteen
times, also when the docs say that it waits until done), `OnTheDot` (an execution that
ended within the second of its deadline is reported as a timeout), and the `ValueError` a
command's wait ends in when its last answer came after the deadline, where a
`TimeoutError` is documented (section 6). It states when each of them comes, and that
there is no fourth.

**requests** has two requests of every pair of kinds that share something: two sync
ones race for the session, an async one and an upload run next to them. Two tries of
the sync client (6 in the code) and three of the async one (5) give each a first and a
last, and the async one a middle try. A try that flies after its connection broke may
reach the service after the caller was told, or after a later try. `KeepsPromise` is
the refinement of `AtLeastOnce` with its liveness; the run has `CHECK_DEADLOCK FALSE`
because requests end.

**entity_cache** has ten scenes of two threads with one dataset and two items: changes
and deletions of items, of the dataset, downloads, an upload, in one process or in two,
on POSIX and on Windows (where the path separator in a stored key makes the deletion of
children work). Room for one binary of 4 and one of 3 in a cache of 6 means that every
second file evicts. One kill. In two scenes one or two keys expire, in two the binary
files and `.download` files may be older than the ttl, so that housekeeping removes them
between any two steps of the readers and writers; a file that a thread is writing is
young, but one that was judged old may have been begun anew before it is removed. Each
property names its exceptions by a history variable: `overtaken` (an answer older than
the change was on its way, a change whose answer was lost, an invalidation cut short),
`spoiled` (two writers of one `.download` file, or a copy in place) and `unsettled` (a
lost update of the config). What the run shows is that there are no other ways. A stream
that the service or the network closes early without an error is moved into place by one
writer alone and is nobody's race: the file is then `cut`, and `WholeUnlessSpoiled` says
that a reader finds a file that is complete or was cut like this, and never one that is
being written.

**paging** has one loop of each kind over three or four items in pages of 1 (of 2 for
`all()`) while items come or go, in one scene more than a page of them, and a request
fails; an empty list; and two loops at once. `NoneTwice` and `NoneSkipped` name the
changes under which a loop of each kind may repeat or miss an item; another loop on the
same object voids them (`Undisturbed`), for two loops move one offset. `NoneSkipped` also
names the two ways in which `all()` misses items of a list that stays as it is:
`StoppedShort` (its first page was done when it was first looked at) and `Outgrown` (the
list has more than a page beyond the pages the object counted, however old that count is).
The docs of `get_all_items` promise the list of all items in both cases (section 6).
`CHECK_DEADLOCK FALSE` because loops end.

**training** has a thread that trains one model twice (a retry after a failure, on the
directory the first left), two models one after the other with two signals, two models
at once, an evaluation next to a training, and one model twice at once; up to two
failing calls, so that the `except` clause can fail as well, and one kill, after which
the executions run again or not. `WholeData` compares the data in the directory a model
was trained on with the model's own data set and subset. What may go wrong is named by
history: `crossed` (another execution used the adapter meanwhile) and `torn` (a directory
half filled, used while it was filled, or filled by an execution in `crossed`). `EndIsTold`
compares the status of every model that nobody trains with how its last training ended
(`ended`), which is "lost" after a kill, after a failure in the `except` clause that
follows one in the `try`, or after an upload by an execution of another model; a
`models.get` that fails before the `try` ends an execution and changes nothing.
`CHECK_DEADLOCK FALSE` because executions end.

### The run that finds a violation

| run | property | what the code does |
|---|---|---|
| `annotation_pool_end` | `CallsEnd` | as many items of more than 100 annotations as workers: every worker waits for jobs only a worker could run |

It checks a sentence of the repository's own documentation ("Upload annotations to
dataset", and the message that so many were uploaded), which the code breaks by never
returning. Other sentences the code does not keep are in section 6.

### Fairness

Weak fairness is given to each thread, coroutine, job and worker one by one, never to
a choice inside it: they are threads of one operating system or tasks of one loop,
and a task that can continue is continued. It is enough because nobody competes by
luck: the semaphore and the pools' queues are first come first served in the code
(and in the guards `MyTurn`, `Start`, `Take`), the mutex of the reporter and the lock
of the cookie are held for finitely many steps that wait for nothing, and when
several wait for one of them, each of them has finitely many calls to make. A request
has no timeout of its own (`timeout=None`, `total=0`), so `Requests` gives its try the
fairness that the connection answers or breaks some time, as the operating system's
keepalive does; the jobs of `all()` are jobs of a pool. The
service is fair in `Handle`: it answers or the answer is lost, and the client's
request ends with an exception in either case. A `Crash`, a `Rerun`, the job's
`Progress`, a refusal and `ListFails` are never fair: nothing relies on their
happening, so `Ends` of Waits excepts a command that is waited for without timeout
and never ends.

## 4. What is proved

| theorem | statement | for all |
|---|---|---|
| `UploadTypes`, `UploadPermits` | `Spec => []TypeOK`, `Spec => []PermitsConserved` | elements, paths, kinds, permits, tries |
| `UploadIntact` | `Spec => []SuccessIsIntact` | the same, both modes |
| `UploadAnnotates`, `UploadReported` | `Spec => []WriterAnnotates`, `Spec => []ReturnMeansReported` | the same |
| `ReporterConserves`, `ReporterCountsOnce` | `RpSpec => []Conserved`, `RpSpec => []NoneCountedTwice` | workers, calls, chunk, both cache modes |
| `DownloadNeverPartial`, `DownloadReportsItem` | `Spec => []NeverPartial`, `Spec => []DownloadIsItem` | lists, scenes, chunks, workers, tries, kills |
| `DownloadKeepsFiles` | `Spec => KeepsFiles`, an action property | the same |
| `DownloadNoTempLeft`, `DownloadAnnotations`, `DownloadAllWaited` | `Spec => []NoTempLeft`, `Spec => []AnnotationsToo`, `Spec => []AllWaited` | the same |
| `CookieTypes`, `CookieDamage` | `Spec => []TypeOK`, `Spec => []DamageNeedsCrash` | actors, programs, tries, crashes |
| `CookieKept` | `Spec => []KeptUnlessRaced` | the same |
| `TokenTypes`, `TokenRefresh` | `Spec => []TypeOK`, `Spec => []RefreshKept` | threads, processes, users, calls, expirations, refusals, crashes |
| `TokenOneLogin`, `TokenSession` | `Spec => []CookieIsOneLogin`, `Spec => []SessionSurvivesExpiry` | the same |
| `CacheWhole` | `Spec => []WholeUnlessSpoiled` | threads, processes, items, operations, limits, expiries, crashes |
| `CacheFresh`, `CacheLinked` | `Spec => []FreshUnlessOvertaken`, `Spec => []LinkedUnlessOvertaken` | the same |
| `PoolTypes`, `PoolReturnIsQuiet` | `Spec => []TypeOK`, `Spec => []ReturnIsQuiet` | callers, items, batches, workers |
| `RequestsGiveUpLate` | `RqSpec => []GivesUpLate` | requests, clients, tries |
| `RequestsKeepPromise` | `RqSpec => Promise!Safety` | the same |
| `TrainingInterrupted`, `TrainingOwnWork` | `Spec => []InterruptedIfMeant`, `Spec => []OwnWork` | threads, models, executions, failures, signals, kills |
| `TrainingWholeData`, `TrainingEndIsTold` | `Spec => []WholeData`, `Spec => []EndIsTold` | the same |
| `WaitsTypes`, `WaitsPunctual` | `WtSpec => []TypeOK`, `WtSpec => []Punctual` | timeouts, latencies, backoff, reruns |
| `WaitsHonest` | `WtSpec => []HonestResult` | the same |
| `PagingRoom`, `PagingOnce` | `Spec => []RoomUnlessGrown`, `Spec => []NoneTwice` | loops, lists, page sizes, changes, failures |
| `PagingWhole` | `Spec => []NoneSkipped` | the same |

They assume what each module's assumption says of its constants (`UploadAssumption`,
`ReporterAssumption`, `DownloadAssumption`, `CookieAssumption`, `TokenAssumption`,
`EntityCacheAssumption`, `PoolAssumption`, `RequestsAssumption`, `TrainingAssumption`,
`WaitsAssumption`, `PagingAssumption`), and that is no more than what the code gives
them: numbers are numbers, the functions have their domains, threads are finitely many,
lists are sequences without repetition, paths, failure references, callers and items are
different things.
`CookieAssumption` also says which calls meet on one file: those of the cookie and of
`state.json`, or those of the calls counter, whose constructor creates the file and then
loads it; nobody else writes the key of the counter. `PowersOfTwo` of Waits states the
powers of two that are slept, because the prover knows nothing of exponents; TLC
evaluates it like every assumption.

Each inductive invariant below was checked by TLC on the instance of its module's run
before it was proved.

**Upload.** `TypeOK` is not inductive: `attempt` stays below `NUM_TRIES` only
because a coroutine in `try` has one left (`TryLeft`), the semaphore stays within its
bounds only because of the count itself, and `Submit` keeps the count only because
an element that is not built yet holds nothing. `PermitInv` is the conjunction
`Shape` (types and tries), `Permit` (the count, on the set `Holders`) and `Unbuilt`.
Lemmas about cardinality (`EnterHolders`, `LeaveHolders`, `SameHolders`) reduce each
step to whether its element enters or leaves the holders; `FailTryStep` and
`GotItemStep` do the two exits every step shares, and there is one lemma per action.

For `SuccessIsIntact` the invariant must say what a coroutine *knows*. It can know
something only where the elements of its path have one size (`OneSize`). `Claim` says of
such an element that the item of its size it was told of, or is about to report, or has
reported, is there; and that one of another size which it is about to delete by id is
still of another size or already replaced under a new id, so that the deletion cannot
hit an intact item. It survives the others' steps because in mode `skip` nobody writes
to a path that has an item of that size and a deletion hits only the version it names
(`Grows`, `ClaimKept`). In mode `overwrite` the claim is false, since the version stays
while the content changes, and where the sizes differ it is false in either mode.
`Blame` takes its place: a path holds an item of the size of one of its elements
(`Whole`), or one of them has not been told of an item of its size (`Told`). If all of
them succeeded, nobody is left to be that one. `WriterAnnotates` needs `Writers`, the
same for the writer: as long as it tries again the item is not of its size, so that no
"skip" can make it a success. `ReturnMeansReported` needs `Recorded`: the reporter holds
what concluded since the last flush, and only that.

**Reporter.** `OneFlush` is the mutex: whoever is in a flush holds it. `Order` says that
what a worker has left is the end of what it files and what was filed came before, so
that the call it is at has a reference of its own and no entry can hide another. With
several workers `AtMost` bounds the count: what is in RAM and on disk together is at
most what was filed and the workers whose present call has written its outcome (`Late`),
except while the flush has added the counts to the disk and not yet cleared them. The
bound also holds of the disk alone, which is what the clearing needs. With one (`Solo`)
it is an equation (`SumInv`), dictionary by dictionary as well (`DictInv`): RAM, disk
and what expired (`Out` is the last two) are together exactly the entries written
(`RpRecorded`), apart except between a push and its clear. There it is enough that
nothing is in RAM that was not pushed, for nobody writes in between. The counts are
those of the disk and of what is gone (`Counted`): an expiry moves a count from the one
to the other.

**Download.** `ListInv` says who may have a job: what was not visited has none, and a
job that goes on has a try left. Every step of a job is shown once to be a `Move` (of its
own entry) that `Handles` its own files and `Touches` nobody else's. With that `DiskInv`
is one statement per entry that shares its path with nobody (`Own`): the `.download` file
holds the first `pos` chunks while its job writes, it is moved when it is whole, and
the path keeps what it had or holds the item. `NoTempLeft` holds for shared paths too and
needs another one: `Tended`, that until a kill somebody is at work on every `.download`
file. `AllWaited` is about the list: `Indices` (how many items were visited), `Given`
(whose job is in the list) and `Drained` (what was waited for is over).

**Cookie.** `DamageInv` adds that an actor inside a locked section is the holder of
the lock and the reverse (`Held`), and that the file exists once anybody is past the
creation (`Exists`); without the first a second writer could be inside, without the
second a `put` could find nothing. `CookieTypes` needs `TryLeft`: a reader that has
not raised has a try left. `KeptUnlessRaced` needs `KeptInv`: until a write is based on an
old file the file is what was put last, and what is about to be written by whoever saw the
last write is that and one more key (`Written`); and on the counter's file, what an actor
holds that is as young as the file is the number of completed increments and the
change it is about to save (`Reckoned`, `CounterFile`).

**Token.** A login is nine writes, to the process and to the cookie, and all three
properties come from knowing what a thread in the middle of them has left. `TypeInv`
says that this is a suffix of the nine (`Part`). `LoginInv` is about processes of one
thread: between the writes that clear and set the refresh token there is none
(`Orderly`), and after them none either when the answer brought none, so that a save of
half a login is a login still; nobody else writes what the thread relies on (`Apart`).
`RefreshInv` is about threads of one process that only make requests: a refresh token
that is missing is about to be set by somebody (`Cleared`), a cookie that differs from
the process is about to be saved (`Unsaved`), and what each sets is the first user's,
for whoever read no refresh token can only be refused. It is claimed while nothing is
`bare`. It needs `Begun`: only processes that have a thread are started. `SessionInv` is
about a thread alone: both tokens are there, or about to be set by itself, so that it
never finds a reason to lower the flag (`InSession`), unless what it logged in with, or
found, had no refresh token or the service refused something. What a thread has left to
do was asked of it (`TodoInv`).

**EntityCache.** `FileInv` is what is promised with the shape of the threads' records:
a stream is written beside the file and moved when it ends, whole or cut by its connection,
and every other step empties a file or spoils it.
For entities, `CacheInv` holds of each one that is not `overtaken`. `Fresh` says that its
cached json is the service's, or that some thread still `Owes` the cache the
change: it has just changed it, or it deletes its dataset and has not come to its link.
That the deletion does come to it is `Reached`: a cached entity has a link, is about to
get one, or is the next a deletion deletes; and that rests on the order of the writes
(an object key is gone before its link, `ClearedAt`; a link that expired first is being
set, `Young`), on the cursor (`Exclusive`: the rows of a process are of the one thread that
lists), and on nobody linking an item of a deleted dataset (`NoneLinking`). A step of one
thread leaves the parts of the others alone (`Still`, `Quiet`), so that there is one lemma
per kind of step.

**AnnotationPool.** That `upload_annotations` returned says that one pool is drained, and
`QuietInv` is what makes this a statement about jobs. `AtHome`: a job that waits is in the
queue, and one that is at work among the running, of the pool it was submitted to
(`HomeOf`), and in no other queue; `Once`: it is there once. `AtTask` and `AtCall` tell how
far an item and a caller are: who returned has submitted everything, shut its pool and found
it drained. `ShutByOwner`, that a pool somebody was handed is shut down by a caller that was
handed it too, gives the exception its form: a job that is left behind is in another
caller's pool. `TypeOK` needs `Counted`, that the pools made so far and the users that
have none yet are no more than the numbers there are. `Left` picks the next item as the
smallest one, and that there is one is the well-foundedness of strict inclusion on finite
sets (`FirstOf`), the one place where the proof uses it.

**Requests.** `SessionInv` says that the session that is there has its adapter, or the
request that made it is about to mount it; so a request that finds it bare is sent while
another one stands before its mount, which is `raced`. `TriesInv` counts: what the
service did and what still flies are together at most the tries, and nobody tries beyond
`MaxTries`. The refinement is the step simulation from these: `Answer`, `NoAnswer` and
`Arrive` are `Apply` or a stutter, `Respond` and `Raise` are `Tell`, everything else
stutters.

**Training.** `Pending` says that a signal on its way belongs to an execution that was
meant, and that a thread which has a signal and is at work is at an execution that was
meant or inherited it. A step of a thread keeps it by one lemma for all of them
(`AtWorkKeeps`), and the other actors have one each. The other three theorems rest on
`StageInv`, which types the locals and says what is known at each label, and on the step
`Goes`, of which every step of a thread is an instance. `OwnInv` says what an execution
that shared the adapter with nobody finds there: its own entity, weights of its own
model (`OfOwn`) and, label by label, the data and the directory of its own (`OwnAt`).
`DataInv` adds that a half filled directory is torn or being filled, that one named
after its own data set holds nothing else (`Filed`), and that weights were trained on
all of their directory unless it is torn (`Sound`). `WholeData` follows from the two
together. `EndIsTold` is inductive as it stands, next to `StageInv`.

**Waits.** `Timely` says that whoever polls is within its time, so that one answer later
is the most that can have passed, and `InTime` that the answer before was not beyond the
deadline. `PollsLeft` bounds the polls. `Knows` says what a command has seen of its job:
an ended one stays ended, so that what is concluded from the last answer is still so. An
execution concludes from an end, from the time or from having used up its polls
(`OutOfPolls`); `Waited` says that it has slept `2 ^ i` seconds before each of them or
up to its timeout, so that what it took for the time was the time: eighteen polls last
524284 seconds, and a timeout beyond that is `TooFewPolls`. There is no hypothesis on
the timeout: the exceptions are in `HonestResult`.

**Paging.** `PagingInv(top)` is relative to a bound `top` on how long the list can
become, which the first state fixes: the pages `all()` may ask for are those of
`Span(top)`, and every count that was answered lies below `top` and misses no item that
is not new (`Counts`). It has a part for each kind of loop. For `all()`, `JobsInv` says
that the jobs in its list are those of pages submitted and not yet taken, each once,
although `jobs.remove` makes the enumeration miss one. `RoomInv` counts: the pages
yielded (`Done`) have slots of their own in the list that `get_all_items` made, so that
it cannot overflow unless an item came. `SteadyInv` says that while the list stays, what
was yielded is what stands at those slots. `FinishInv` says that `all()` cannot run out
of jobs before the last page is submitted, except after its first one. For the loops
over the window there is an edge in the list (`Edge`), which moves by a page with the
offset. Forward, an item that comes can only push others over the edge to where the loop
has yet to go, where they are met again, and one that goes can only pull them back,
where they are missed; in reverse it is the other way round. So `OnceInv` says that what
the loop had lies on its side of the edge (`Passed`) and is not about to be yielded
again, `WholeInv` that what it has not had lies on the other (`Ahead`), and each of them
survives the changes its property allows.

What `all()` misses of a list that stays it misses for one of two reasons, and
`FinishInv` and `SteadyInv` leave no third: it stopped after its first page
(`StoppedShort`), or it ended at the page its count named, and the list has more than a
page beyond (`Outgrown`). The count is of any age, since the object keeps the one it was
made with; the code asks for one page beyond the last, which covers a count that is
short by up to a page, and no more. On an object that was made when the list had 100
items, `all()` after 101 more were added leaves one out. The theorem has no hypothesis
on how the list changes.

**Only model checked.** All liveness (`Terminates`, `EndsWithSpareWorker`,
`AllReturn`, `AllEnd`, `Ends`, `LoopsEnd`, and that a caller is told in the end): the
prover has neither fairness nor `ENABLED`. And `BoundedUnlessLost` of EntityCache, because
the size it bounds is a sum over the set of files, and that a sum changes with one of its
members is induction over data. Every other invariant and action property of a run is a
theorem.

## 5. What is not modelled, and why

- The service itself, beyond what the client assumes of one request: external.
- `api_client.py` outside requests, cache, token and pools: the event loop property,
  `num_processes`, `setenv`, and how requests and errors are printed.
- Cache levels other than the default one (redis, file system) and `clear`.
- The start and stop of the event loop's thread.
- Pipelines, compositions, triggers, tasks and the other entities: single requests
  whose meaning is the service's. The frames of a video annotation and the reflecting
  dictionary that holds them: one caller, one object, no concurrency; what reading
  showed is below.
- The training code of a package (`train`, `predict`, `load`, `save`): external to the
  adapter, which calls it.
- Result lists and log files of uploads and downloads, progress bars, formats of
  converters, drawing of masks: data without control.
- Metrics: arithmetic on floating point scores in pandas and shapely.
- Repositories and entities of one request per operation, CLI, examples, assets.
- Events: a daemon thread nobody waits for.

Abstractions inside the modules: contents of files are chunks named after their
source; two files of one size have one content (Upload compares sizes, as the code does, and
Download takes a size that matches for a complete item); paths and references are
model values; time in Waits is whole seconds; the lock of the cookie is a lock with
no timeout; an element's metadata and description are left out.

## 6. Observations

The finding of PROJECT.json has its run above. Reading the code for the models also
showed the following, which no run states (paths under `src/dtlpy/`):

- `repositories/uploader.py`: in mode `skip` an element compares the item at its path
  with its own size, whoever wrote it, and deletes it when they differ (lines 441-442):
  of two files of different sizes for one path the second deletes the intact item the
  first reported. A failed upload of an item's annotations is logged and the item
  reported as a success (513-517). `upload()` asks `failure_count`, which reads the RAM
  alone (line 111, `reporter.py:127-135`): failures that a flush has moved to disk are
  not told. The constant `NUM_TRIES = 5` stands next to a comment that speaks of 3.
  Failures of unnamed buffers share the reference `Unknown` (line 531), so the reporter
  keeps one entry for all of them. The temporary directory of a url goes after the first
  try, so the retries of a url that was saved cannot succeed.
- `services/reporter.py`: with several threads an output written between a push and a
  clear is lost. `success_count` (line 143) adds what was flushed only if
  `cache_mode == 'diskcache'`, but it is a boolean, so that after a flush the counts,
  the output and the log file cover the RAM alone. What is flushed is pushed with an expiry
  of 1000 seconds (`caches/dl_cache.py:15,113,122`), so that the report of a longer call
  forgets its beginning.
- `repositories/commands.py`: an answer after the deadline makes `timeout - elapsed`
  negative and the wait ends in a `ValueError` of `time.sleep`, not in the
  `TimeoutError` of its docstring (line 84). `repositories/executions.py`: the endless
  wait ("if <=0 - wait until done", line 570) hands out a running execution after 18
  polls; an execution that ends in the second of the deadline is reported as a timeout
  (610).
- `services/cookie.py`: of two processes that start where the directory is missing, one may
  raise `FileExistsError` (lines 46-47).
- `services/api_client.py`: `refresh_token_active` can stay `False` after two threads
  renewed at once, and the process then asks for a login at the next expiration; a
  login in one thread during a renewal in another can pair one user's token with the
  other's refresh token. A login whose answer has no refresh token (`logins.py:69`), and
  `login_token` (`api_client.py:1481-1487`), give a session that ends with its first token.
- `repositories/downloader.py`: line 754 opens the cached file with `'wb'` in order
  to read it; line 298 returns only the first output when one item was downloaded and
  one was there, although `entities/item.py` promises a local path for each; a failed
  drawing of annotations is forgotten by the retry, which finds the file and reports a
  download; the copy from the cache is not atomic.
- `repositories/datasets.py`: `upload_annotations` shuts down the pool that every
  thread of the client shares. A job of an item with several batches that was handed
  the pool before loses its remaining batches in a future nobody asks, and the call
  still logs that they were uploaded (line 974).

- `services/api_client.py`: a thread that looks between the two assignments of a
  renewal is told that the token expired after it was replaced. `send_session` retries
  502 but not 500 or 509, which the async client does. The answers of earlier tries of
  the async client are never closed. `gen_async_request` sends `environment + path` also
  when `is_dataloop` is false. `repositories/annotations.py:663` posts annotations with
  five tries, so that a lost answer duplicates them.
- `caches/cache.py`: what `iter_content` yields is moved into place whatever its length
  (lines 409-415), so that a connection closed early without an exception leaves a part
  of the file in the cache, and it is served. A stream never hits (`read_stream` asks
  for `items/<id>/binary`, `write_stream` sets the key below the dataset only); files
  are named by file name and not by id, so that two items of one name share a file; the
  deletion of an item removes its file and leaves its entry in `cacheConfig.json`, at
  which every later eviction raises; an eviction may remove the file that is being
  returned; `val.split('\\')` (line 258) raises on POSIX. `list` reads the table without
  its expiry, so that an expired link raises in `delete` too.
- `services/create_logger.py`: with the cache on, `CacheManger` calls
  `clean_dataloop_cache` with the ttl of the cache (in seconds) as age limit on every
  directory of `bin_cache_path` without "cache" in its path. By default that is
  `~/.dataloop`: datasets downloaded there, logs and pending reports are removed like
  cached binaries. A removed binary stays in `cacheConfig.json`, at which
  later evictions raise.
- `entities/paged_entities.py`: `all()` followed by a loop over the pages yields the
  first page only; two loops in opposite directions over one object can go on for ever;
  `reversed` of an empty list asks for page -1; `all()` ends after its first page when
  that job is done before it is first looked at, and leaves items out when the list grew
  by more than a page since the object counted it (lines 168, 172), although
  `repositories/items.py:98-103` promises a list of all items; `get_all_items` raises
  `IndexError` when the list grew after it was counted.
- `entities/annotation.py`, `entities/reflect_dict.py`: reading a frame between two key
  frames stores a copy, which hides a key frame added before it later; what is set on
  such a copy (`object_visible`) is not in the json; the first frame is read back fixed
  and visible whatever it was; `add_frame` on an annotation that has a definition and no
  frames numbers the first frame 0 wherever it starts.
- `ml/base_model_adapter.py`: `prepare_data` reads `self.model_entity` three times
  (lines 229, 243, 447) from the adapter its executions share, so that another execution
  in between makes it train one model on the data set of another. `models.get` of a
  model that came as a dict (422-423) is outside the `try`: after a kill it leaves the
  model in "training" when it fails. `predict_dataset` passes `with_upload` and
  `cleanup` to `predict_items`, which ignores them; the exception of a failed upload of
  predictions is logged and forgotten.

## 7. Plan

The modules of the plan are written: Upload, Download, AnnotationPool, Reporter, Cookie,
Token, Waits, Requests with AtLeastOnce, EntityCache, Paging and Training.

What is left, in this order:

1. The `num_processes` setter and the replacement of the event loop against running
   jobs, as further actions of AnnotationPool.
2. A second cache level (redis, file system) in EntityCache.

Runs are kept few: related questions are scenes of one run rather than runs.
